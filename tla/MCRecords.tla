----------------------------- MODULE MCRecords ------------------------------
(***************************************************************************)
(* Small instances, for TLC, of the modules about what the TypeScript      *)
(* services store, answer and say: ReadingScreen, Guidance, Seeds,         *)
(* Metaphysical, CustomerRecords, CustomerRelations, Ledger, Gateway,      *)
(* Accounts and ServiceTokens.  As in MCServices, a behaviour runs one of  *)
(* them.                                                                   *)
(***************************************************************************)
EXTENDS ReadingScreen, Guidance, Seeds, Metaphysical, CustomerRecords,
        CustomerRelations, Ledger, Gateway, Accounts, ServiceTokens, TLC

CONSTANTS c1, c2

TwoCalls == {c1, c2}

\* The last card, which has no place of its own in the deck, and the last major,
\* which has that of the first of the minors.
TwoCards == {22, 78}

\* Years before and after the one the cycles are counted from.
FourYears == {1899, 1984, 2000, 2023}

\* What the customers' records are asked for: a customer, changes of the birth
\* date to another, to none and to one that is no date, and the deletion.
FiveInputs ==
  {[op |-> "create", birthDate |-> "spring"],
   [op |-> "update", birthDate |-> "autumn", tier |-> "undefined"],
   [op |-> "update", birthDate |-> "null", tier |-> "vip"],
   [op |-> "update", birthDate |-> "month 13", tier |-> "undefined"],
   [op |-> "softDelete"]}

FirstRun == [for |-> c1, at |-> "start"]

VARIABLE component

vars ==
  <<screenVars, guidanceVars, seedVars, profileVars, recordVars, relationVars,
    ledgerVars, gatewayVars, accountVars, tokenVars, component>>

Components ==
  {"screen", "guidance", "seeds", "profile", "customers", "relations", "ledger",
   "gateway", "accounts", "tokens"}

Init ==
  /\ component \in Components
  /\ ScreenInit
  /\ GuidanceInit
  /\ component # "guidance" => llm = "mock"
  /\ SeedsInit
  /\ MetaphysicalInit
  /\ component # "profile" => west = FALSE
  /\ RecordsInit
  /\ RelationsInit
  /\ LedgerInit
  /\ GatewayInit
  /\ AccountsInit
  \* The first run is for c1: which of two users it makes tells nothing apart.
  /\ script[c1] = FirstRun /\ (component # "accounts" => script[c2] = FirstRun)
  /\ ServiceTokensInit
  /\ component # "tokens" => /\ ahead = [s \in Services |-> 0] /\ asked = c1
                             /\ secret = [s \in Services |-> "shared"]

\* A component that does not run keeps its state.
Rests(name, its) == IF component = name THEN TRUE ELSE UNCHANGED its

Next ==
  /\ UNCHANGED component
  /\ Rests("screen", screenVars)
  /\ Rests("guidance", guidanceVars)
  /\ Rests("seeds", seedVars)
  /\ Rests("profile", profileVars)
  /\ Rests("customers", recordVars)
  /\ Rests("relations", relationVars)
  /\ Rests("ledger", ledgerVars)
  /\ Rests("gateway", gatewayVars)
  /\ Rests("accounts", accountVars)
  /\ Rests("tokens", tokenVars)
  /\ \/ component = "screen" /\ ScreenNext
     \/ component = "guidance" /\ GuidanceNext
     \/ component = "seeds" /\ SeedsNext
     \/ component = "profile" /\ MetaphysicalNext
     \/ component = "customers" /\ RecordsNext
     \/ component = "relations" /\ RelationsNext
     \/ component = "ledger" /\ LedgerNext
     \/ component = "gateway" /\ GatewayNext
     \/ component = "accounts" /\ AccountsNext
     \/ component = "tokens" /\ ServiceTokensNext

Spec == Init /\ [][Next]_vars

\* The variables of every component that runs have their types.
RecordsAllTypeOK ==
  /\ component = "screen" => ScreenTypeOK
  /\ component = "guidance" => GuidanceTypeOK
  /\ component = "seeds" => SeedsTypeOK
  /\ component = "customers" => RecordsTypeOK
  /\ component = "relations" => RelationsTypeOK
  /\ component = "ledger" => LedgerTypeOK
  /\ component = "gateway" => GatewayTypeOK
  /\ component = "accounts" => AccountsTypeOK
  /\ component = "tokens" => ServiceTokensTypeOK

\* Both the profile and the fields derived from it follow the birth date.
ProfilesFollowTheDate == ProfileIsOfItsDate /\ DerivedFromTheDate

\* The pages and the summary of the finance records agree with the records.
LedgerIsRight == PageFitsItsTotal /\ SummaryAddsUp

\* A request reaches its operation and is told what became of it, and is served
\* only to whom its token stands for, and as long as it does.
RequestsAreAnswered ==
  /\ EndpointsAreServed
  /\ AnswersTellTheOutcome
  /\ AccountsAreServed
  /\ TokensLastTheirTime
=============================================================================
