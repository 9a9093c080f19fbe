----------------------------- MODULE Addresses -----------------------------
(***************************************************************************)
(* The default address of a customer                                       *)
(* (CustomerManagement/src/services/address.service.ts): each function     *)
(* reads, takes the default away from the others and writes, in separate   *)
(* statements and without a transaction.                                   *)
(***************************************************************************)
EXTENDS Naturals, FiniteSets

CONSTANTS
  AddressIds,   \* the ids the database may give to new addresses
  Calls,        \* the calls that may run at the same time
  MaxDbErrors   \* bound: how often a statement may fail

ASSUME AddressesAssumption == MaxDbErrors \in Nat

VARIABLES
  rows,     \* the addresses of the customer
  default,  \* those with isDefault
  call,     \* what each call is doing
  dbErrors, \* history: the statements that failed
  raced,    \* history: one call has made its address the default while another
            \* was about to, and none has put it right since
  chosen,   \* history: a default was set and not taken back on purpose
  lost      \* history: a call that had unset the default has failed

addressVars == <<rows, default, call, dbErrors, raced, chosen, lost>>

\* What a request says of isDefault; only an update may leave it out.
Flags == {"true", "false", "absent"}

Idle == [at |-> "none"]

Busy == [at : {"unset", "write"}, kind : {"create", "update", "delete"},
         on : AddressIds, flag : Flags]

AddressesTypeOK ==
  /\ rows \in SUBSET AddressIds
  /\ default \in SUBSET rows
  /\ call \in [Calls -> {Idle} \union Busy]
  /\ dbErrors \in 0 .. MaxDbErrors
  /\ raced \in BOOLEAN
  /\ chosen \in BOOLEAN
  /\ lost \in BOOLEAN

AddressesInit ==
  /\ rows = {} /\ default = {}
  /\ call = [c \in Calls |-> Idle]
  /\ dbErrors = 0
  /\ raced = FALSE /\ chosen = FALSE /\ lost = FALSE

\* Call c is about to write an address as the default.
Sets(c) == call[c].at = "write" /\ call[c].flag = "true"

\* The others are unset first by a call that is to set its own.
First(kind, flag) == IF flag = "true" THEN "unset" ELSE "write"

\* The function has found the customer, or the address, it needs.
Begin(c, kind, a, flag) ==
  /\ call[c] = Idle
  /\ call' = [call EXCEPT ![c] = [at |-> First(kind, flag), kind |-> kind,
                                  on |-> a, flag |-> flag]]
  /\ UNCHANGED <<rows, default, dbErrors, raced, chosen, lost>>

\* An id that no address has and no call is about to give.
Fresh(a) ==
  a \notin rows /\ \A c \in Calls : call[c] # Idle => call[c].on # a

Create(c, a, flag) ==
  Fresh(a) /\ flag # "absent" /\ Begin(c, "create", a, flag)

Update(c, a, flag) == a \in rows /\ Begin(c, "update", a, flag)

Delete(c, a) == a \in rows /\ Begin(c, "delete", a, "absent")

\* mutant: the default is not taken away from the others.
KeptAll(c) == default

\* updateMany takes the default away from all addresses but the one that is
\* updated.
Kept(c) == IF call[c].kind = "update" THEN default \intersect {call[c].on} ELSE {}

OtherSets(c) == \E b \in Calls \ {c} : Sets(b)

UnsetOthers(c) ==
  /\ call[c].at = "unset"
  /\ default' = Kept(c)
  /\ call' = [call EXCEPT ![c].at = "write"]
  /\ raced' = (raced /\ OtherSets(c))
  /\ UNCHANGED <<rows, dbErrors, chosen, lost>>

\* The last statement throws if its address has gone meanwhile.
StillThere(c) == call[c].kind = "create" \/ call[c].on \in rows

Write(c) ==
  LET a == call[c].on
  IN /\ call[c].at = "write"
     /\ StillThere(c)
     /\ \/ call[c].kind = "create" /\ rows' = rows \union {a}
        \/ call[c].kind = "update" /\ UNCHANGED rows
        \/ call[c].kind = "delete" /\ rows' = rows \ {a}
     /\ \/ Sets(c) /\ default' = default \union {a}
        \/ /\ call[c].kind = "delete" \/ call[c].flag = "false"
           /\ default' = default \ {a}
        \/ /\ call[c].kind = "update" /\ call[c].flag = "absent"
           /\ UNCHANGED default
     /\ call' = [call EXCEPT ![c] = Idle]
     /\ raced' = (raced \/ (Sets(c) /\ OtherSets(c)))
     /\ chosen' = (Sets(c) \/ (chosen /\ (default = {} \/ default' # {})))
     /\ lost' = (lost /\ ~Sets(c))
     /\ UNCHANGED dbErrors

\* A statement that was applied and whose answer was lost leaves what the next
\* one leaves when it throws unapplied, or what the last one leaves anyway.
Throw(c) ==
  /\ \/ call[c].at = "write" /\ ~StillThere(c) /\ UNCHANGED dbErrors
     \/ /\ call[c] # Idle
        /\ dbErrors < MaxDbErrors
        /\ dbErrors' = dbErrors + 1
  /\ lost' = (lost \/ Sets(c))
  /\ call' = [call EXCEPT ![c] = Idle]
  /\ UNCHANGED <<rows, default, raced, chosen>>

-----------------------------------------------------------------------------
AddressesNext ==
  \E c \in Calls :
    \/ \E a \in AddressIds, flag \in Flags :
         Create(c, a, flag) \/ Update(c, a, flag)
    \/ \E a \in AddressIds : Delete(c, a)
    \/ UnsetOthers(c)
    \/ Write(c)
    \/ Throw(c)

AddressesSpec == AddressesInit /\ [][AddressesNext]_addressVars

-----------------------------------------------------------------------------
(***************************************************************************)
(* Properties                                                              *)
(***************************************************************************)

\* A customer has two default addresses only after two calls that set one
\* have overlapped, and only until the next call that sets one alone.
OneDefaultUnlessRaced == Cardinality(default) <= 1 \/ raced

\* A customer who has chosen a default address and has not deleted or unset it
\* has one, except while a call is changing it, or after such a call has
\* failed between its two statements.
DefaultIsKept == chosen /\ default = {} => lost \/ \E c \in Calls : Sets(c)

\* A customer's default address is kept, and is one.
OneDefaultAddress == OneDefaultUnlessRaced /\ DefaultIsKept
=============================================================================
