----------------------------- MODULE MCServices -----------------------------
(***************************************************************************)
(* Small instances of the parts that share nothing with one another: each  *)
(* behaviour is one of one part, chosen at the start, while the others     *)
(* stay as they began, so their state spaces add up.                       *)
(***************************************************************************)
EXTENDS TrialTenants, PageSale, CaseService, WorkSale, UsagePing, Exchange, BatchAnalysis,
        ReceiptBook, StoreOpening, RetryCosts, TLC

CONSTANTS Services, Nothing

VARIABLES
  service, \* the one that runs
  sPurchases, sCommitted, sAliases, sObserved, sExtra, sChain, sSupplied, sArrived,
  sPc, sOn, sAbout, sRow, sCrashes, sRecovers

searchVars == <<sPurchases, sCommitted, sAliases, sObserved, sExtra, sChain, sSupplied, sArrived,
                sPc, sOn, sAbout, sRow, sCrashes, sRecovers>>

allVars == <<service, trialVars, pageVars, caseVars, saleVars, pingVars, exchangeVars, batchVars,
             bookVars, openVars, costVars, searchVars>>

-----------------------------------------------------------------------------
(* Values of the constants. *)

SalePayers == [p \in Payments |-> IF p = "p3" THEN "bob" ELSE "ann"]
SaleRails  == [p \in Payments |-> CASE p = "p1" -> "x402" [] p = "p2" -> "transaction" [] p = "p3" -> "hash"]
PingsOrSwitches ==
  [c \in Calls |-> IF c = "c1" THEN {"first_receipt", "serve_start", "heartbeat"}
                   ELSE {"first_receipt", "enable", "disable"}]
SomeInputs == {<<2, 1>>, <<-1, 1>>, <<-1>>, <<1, -2>>}

\* Exchange: prices with and without cache rates and a higher tier; providers of
\* each type; the events of a stream and what usage they carry.
BigTier == [input |-> 3, output |-> 5, read |-> 1, w5 |-> -1, w1 |-> -1,
            above |-> 2, longInput |-> 6, longOutput |-> 7, longRead |-> 2]
Flat    == [input |-> 3, output |-> 5, read |-> 1, w5 |-> 4, w1 |-> 6,
            above |-> -1, longInput |-> -1, longOutput |-> -1, longRead |-> -1]

SomeBackends ==
  [o |-> [type |-> "openai", ownUrl |-> FALSE, priceAs |-> "none"],
   a |-> [type |-> "anthropic", ownUrl |-> FALSE, priceAs |-> "none"],
   v |-> [type |-> "openai_compatible", ownUrl |-> TRUE, priceAs |-> "openai"],
   x |-> [type |-> "openai_compatible", ownUrl |-> TRUE, priceAs |-> "none"]]

SomeOverrides == [none |-> Flat]
SomeCatalog   == [openai |-> BigTier, anthropic |-> Flat]

CacheUse(w, w5, w1, r) == [written |-> w, w5 |-> w5, w1 |-> w1, read |-> r]

SomeCarries ==
  [start |-> [input |-> 1, cache |-> CacheUse(0, -1, -1, 1)],
   fresh |-> [input |-> 2, cache |-> CacheUse(2, 1, -1, 0)],
   text  |-> <<>>, delta |-> [output |-> 1], last |-> [output |-> 2, input |-> 2],
   usage |-> [input |-> 3, output |-> 2, cache |-> CacheUse(0, -1, -1, 2)],
   few   |-> [input |-> 2, output |-> 1, cache |-> CacheUse(0, -1, -1, 0)],
   wrote |-> [input |-> 3, output |-> 1, cache |-> CacheUse(1, -1, -1, 0)]]

SomeScripts ==
  [anthropic |-> {<<"start", "delta", "last">>, <<"fresh", "text", "last">>},
   openai |-> {<<"text", "usage", "text">>, <<"text", "few">>, <<"wrote">>, <<>>, <<"text">>}]

SomeAsks ==
  {[shape |-> "openai", stream |-> b, provider |-> p, chars |-> c, maxOut |-> 2] :
     b \in BOOLEAN, p \in {"o", "v", "x"}, c \in {6, 7, 9}}
    \cup {[shape |-> "anthropic", stream |-> b, provider |-> "a", chars |-> c, maxOut |-> 2] :
            b \in BOOLEAN, c \in {7, 9}}

\* BatchAnalysis: two cases, with a replayed row, a corrected one and unknown costs.
AttemptAt(w, id, n, s, t, c, f) ==
  [work |-> w, id |-> id, number |-> n, status |-> s, at |-> t, cost |-> c, confidence |-> f]

SomeAttemptRows ==
  {AttemptAt("w1", "a1", 1, "failed", 1, 1, 5), AttemptAt("w1", "a1", 1, "failed", 1, 2, 5),
   AttemptAt("w1", "a2", 2, "success", 2, 2, 9), AttemptAt("w1", "a3", 2, "failed", 3, -1, 9),
   AttemptAt("w2", "b1", 1, "failed", 1, 3, -1), AttemptAt("w2", "b0", 0, "failed", 1, 3, 5)}

ReviewAt(w, a, t, c) == [work |-> w, action |-> a, outcome |-> "accepted", at |-> t, cost |-> c]

SomeReviewRows ==
  {ReviewAt("w1", "human_review", 3, 2), ReviewAt("w1", "human_review", 3, 1),
   ReviewAt("w1", "retry", 4, -1), ReviewAt("w2", "human_review", 2, -1)}

\* ReceiptBook: a real receipt, a simulated one and one of unknown cost, imported.
Fact(w, s, c, d) == [work |-> w, status |-> s, cost |-> c, simulated |-> d]

SomeFacts == [a |-> Fact("w1", "success", 2, FALSE), b |-> Fact("w1", "error", 5, TRUE),
              o |-> Fact("none", "success", -1, FALSE)]
SomeFile  == <<"o">>

\* StoreOpening: calls that an old authority recorded, some of them repeated, one
\* with an event id that another delegation has used.
CallOf(k, d, e, a, p, n, o) ==
  [kind |-> k, delegation |-> d, event |-> e, agent |-> a, parent |-> p, amount |-> n, outcome |-> o]

SomeMade ==
  {CallOf("root", "d1", "e1", "x", "none", 5, "none"),
   CallOf("authority_grant", "d1", "e2", "x", "none", 2, "none"),
   CallOf("reservation", "d2", "e3", "y", "d1", 3, "none"),
   CallOf("settlement", "d2", "e4", "y", "d1", 0, "revoked")}

SomeRetried ==
  SomeMade \cup {CallOf("consumption", "d1", "e2", "x", "none", 2, "none"),
                 CallOf("consumption", "d1", "e4", "x", "none", 1, "none")}

SomeDelegated == [d1 |-> [agent |-> "x", parent |-> "none", authority |-> 7],
                  d2 |-> [agent |-> "y", parent |-> "d1", authority |-> 3]]

TwoColumns == <<"c1", "c2">>

\* RetryCosts: texts short, long and missing, a model without a list price.
InvoiceOf(c, i, o) == [chars |-> c, input |-> i, output |-> o]

SomeInvoices    == {InvoiceOf(9, 1, 2), InvoiceOf(40, 1, 2), InvoiceOf(-1, 1, 2), InvoiceOf(9, -1, -1)}
SomeUsages      == {[prompt |-> 1, completion |-> 1], [prompt |-> 2, completion |-> 2],
                    [prompt |-> 5, completion |-> 2]}
SomeReviewCosts == {-1, 1}

-----------------------------------------------------------------------------
\* One request for the job-safe search, with one payment.
Search == INSTANCE SearchPurchase WITH
  Requests <- {"r1"}, JobOf <- [r \in {"r1"} |-> "j1"], QueryOf <- [r \in {"r1"} |-> "q1"],
  Payments <- {"p1"}, Calls <- {"c1"}, Loop <- "loop", Jobs <- {"j1"},
  Budget <- [j \in {"j1"} |-> 2], Price <- 1, SupplierBound <- 1, FeeBound <- 0,
  RiskCeiling <- 6, Costs <- {0, 2}, RealizedFee <- 0, None <- Nothing, MaxCrashes <- 1,
  purchases <- sPurchases, committed <- sCommitted, aliases <- sAliases,
  observed <- sObserved, extra <- sExtra, chain <- sChain, supplied <- sSupplied,
  arrived <- sArrived, pc <- sPc, on <- sOn, about <- sAbout, row <- sRow, crashes <- sCrashes,
  recovers <- sRecovers

\* Where a part may begin in several ways, it does so only if it runs.
ServicesInit ==
  /\ service \in Services
  /\ TrialInit /\ PageInit /\ CaseInit /\ SaleInit /\ PingInit /\ BatchInit /\ BookInit
  /\ ExchangeInit /\ (service # "exchange" => ask = (CHOOSE a \in Asks : TRUE))
  /\ OpenInit /\ (service = "opening" <=> way # "none")
  /\ CostsInit /\ Search!Init /\ (service # "search" => sRecovers)

Stays(part, variables) == IF service = part THEN TRUE ELSE UNCHANGED variables

OthersStay ==
  /\ Stays("trial", trialVars) /\ Stays("pages", pageVars) /\ Stays("cases", caseVars)
  /\ Stays("sales", saleVars) /\ Stays("ping", pingVars) /\ Stays("exchange", exchangeVars)
  /\ Stays("batch", batchVars) /\ Stays("book", bookVars) /\ Stays("opening", openVars)
  /\ Stays("costs", costVars) /\ Stays("search", searchVars)

ServicesNext ==
  /\ \/ service = "trial"    /\ TrialNext
     \/ service = "pages"    /\ PageNext
     \/ service = "cases"    /\ CaseNext
     \/ service = "sales"    /\ SaleNext
     \/ service = "ping"     /\ PingNext
     \/ service = "exchange" /\ ExchangeNext
     \/ service = "batch"    /\ BatchNext
     \/ service = "book"     /\ BookNext
     \/ service = "opening"  /\ OpenNext
     \/ service = "costs"    /\ CostsNext
     \/ service = "search"   /\ Search!Next
  /\ UNCHANGED service
  /\ OthersStay

ServicesSpec == ServicesInit /\ [][ServicesNext]_allVars

\* A part that does not run has nothing that fairness could ask of it.
ServicesFairSpec ==
  /\ ServicesSpec
  /\ WF_trialVars(Sweep) /\ PageFairness /\ CaseFairness
  /\ Search!Fairness

(***************************************************************************)
(* Every variable of every part holds values of its kind.                  *)
(***************************************************************************)
ServicesTypeOK ==
  /\ TrialTypeOK /\ PageTypeOK /\ CaseTypeOK /\ SaleTypeOK /\ PingTypeOK
  /\ ExchangeTypeOK /\ BookTypeOK /\ OpenTypeOK /\ CostsTypeOK

(***************************************************************************)
(* The stores of facts: every variable is of its kind; readers of the      *)
(* receipts miss only what came late, and nothing counts twice; a store    *)
(* that is open has what its version needs.                                *)
(***************************************************************************)
StoresAreSound == ServicesTypeOK /\ ReadersMissOnlyTheLate /\ EvidenceAddsUp /\ OpenIsReady

(***************************************************************************)
(* What each part owes in the end: an expired trial is dropped, a read is  *)
(* answered, a retry does not stay in progress, a search is delivered,     *)
(* paid back or left to the operator (each stated with its part).          *)
(***************************************************************************)
ServicesSettle ==
  /\ ExpiredTrialsEnd /\ EveryReadEnds /\ NoRetryHangs /\ Search!PaymentsEnd
=============================================================================
