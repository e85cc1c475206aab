------------------------------ MODULE Exchange ------------------------------
(***************************************************************************)
(* One inference request through either engine of the gateway: the price   *)
(* it reserves, its attempts at the provider, the bytes it forwards, the   *)
(* usage it reads from them as they pass, and the receipt it leaves.       *)
(*                                                                         *)
(* A stream arrives in chunks cut anywhere, also inside the blank line     *)
(* that ends an event.  An event is one symbol: its text does not matter,  *)
(* only the usage fields it carries.  What admission decides is in         *)
(* BudgetAdmission; here it may always go either way.                      *)
(***************************************************************************)
EXTENDS Integers, FiniteSets, SequencesExt

CONSTANTS
  Asks,          \* requests: shape, stream, provider, chars, maxOut
  Backends,      \* provider -> type, ownUrl (a base_url of its own), priceAs
  Overrides,     \* the operator's price for some of the providers
  Catalog,       \* the built-in price for some of the types
  Million,       \* how many units of a price make one of a cost, per token
  Carries,       \* event -> the usage fields it carries
  Scripts,       \* shape -> the event sequences a provider may answer with
  Endings,       \* the line ends that providers use: "LF", "CRLF"
  MaxCallRetries

VARIABLES ask, stage, callAttempt, script, ending, wire, taken, buffer, book, got, filed, learnt

exchangeVars ==
  <<ask, stage, callAttempt, script, ending, wire, taken, buffer, book, got, filed, learnt>>

-----------------------------------------------------------------------------
(* Prices. *)

Unknown  == -1
NoPrice == [input |-> Unknown]

\* A vendor's list price is for that vendor's own API, or where the operator says so.
Resolve(p) ==
  LET vendor == IF Backends[p].ownUrl \/ Backends[p].type \notin DOMAIN Catalog
                THEN Backends[p].priceAs ELSE Backends[p].type
  IN  IF p \in DOMAIN Overrides THEN Overrides[p]
      ELSE IF vendor \in DOMAIN Catalog THEN Catalog[vendor] ELSE NoPrice

\* The long-context tier applies to the whole request.
ForInputTokens(price, tokens) ==
  IF price.above = Unknown \/ tokens <= price.above
  THEN price
  ELSE [price EXCEPT !.input = price.longInput, !.output = price.longOutput, !.read = price.longRead]

RoundHalfUp(n) == (2 * n + Million) \div (2 * Million)

NoCache == [written |-> 0, w5 |-> Unknown, w1 |-> Unknown, read |-> 0]

\* A breakdown that names one lifetime leaves nothing to the other.
Lifetime(known, other) == IF known = Unknown /\ other # Unknown THEN 0 ELSE known

SplitKnown(c) ==
  LET w5 == Lifetime(c.w5, c.w1)
      w1 == Lifetime(c.w1, c.w5)
  IN  c.written = 0 \/ (w5 # Unknown /\ w1 # Unknown /\ w5 + w1 = c.written)

\* Tokens and their rate, for a price already at its tier.
Parts(price, input, output, c) ==
  <<<<input - c.written - c.read, price.input>>, <<output, price.output>>, <<c.read, price.read>>,
    <<IF c.written = 0 THEN 0 ELSE Lifetime(c.w5, c.w1), price.w5>>,
    <<IF c.written = 0 THEN 0 ELSE Lifetime(c.w1, c.w5), price.w1>>>>

Cost(price, input, output, c) ==
  LET parts == Parts(ForInputTokens(price, input), input, output, c)
      of(i) == parts[i][1] * parts[i][2]
  IN  IF /\ SplitKnown(c)
         /\ \A i \in DOMAIN parts : parts[i][1] >= 0 /\ (parts[i][1] > 0 => parts[i][2] # Unknown)
      THEN RoundHalfUp(of(1) + of(2) + of(3) + of(4) + of(5))
      ELSE Unknown

TokensAtMost(chars) == (chars + 2) \div 3

EstimateUpperBound(price, a) ==
  LET tokens == TokensAtMost(a.chars)
      at == ForInputTokens(price, tokens)
  IN  RoundHalfUp(tokens * at.input + a.maxOut * at.output)

-----------------------------------------------------------------------------
(* Usage, read from what passes. *)

Unread == [input |-> Unknown, output |-> Unknown, cache |-> NoCache]

IsEvent(symbol) == symbol \notin {"CR", "LF", "dropped"}

\* Anthropic's counts are cumulative and come in parts, of which the last stands;
\* a usage block of OpenAI's is whole, and replaces what was known.
Tells(shape, symbol, field) ==
  /\ IsEvent(symbol)
  /\ IF shape = "anthropic" THEN field \in DOMAIN Carries[symbol] ELSE DOMAIN Carries[symbol] # {}

Told(event, field) == IF field \in DOMAIN Carries[event] THEN Carries[event][field] ELSE Unread[field]

UsageOf(shape, usage, symbols) ==
  [field \in DOMAIN Unread |->
     LET telling == {i \in DOMAIN symbols : Tells(shape, symbols[i], field)}
     IN  IF telling = {} THEN usage[field] ELSE Told(symbols[Max(telling)], field)]

\* Anthropic's input leaves out what passed through the cache.
TotalInput(shape, usage) ==
  IF shape = "openai" \/ usage.input = Unknown THEN usage.input
  ELSE usage.input + usage.cache.written + usage.cache.read

\* Cached tokens without a rate of their own stay at the input rate; cache
\* writes of OpenAI's have no known lifetime.
PricedCache(shape, price, c) ==
  IF \/ shape = "anthropic" \/ c.written > 0
     \/ c.read > 0 /\ price # NoPrice /\ price.read # Unknown
  THEN c ELSE NoCache

Eol(kind) == IF kind = "LF" THEN <<"LF">> ELSE <<"CR", "LF">>

\* An event and the blank line that ends it.
Width(kind) == 1 + 2 * Len(Eol(kind))

Wire(events, kind) ==
  [j \in 1 .. Width(kind) * Len(events) |->
     LET at == (j - 1) % Width(kind)
     IN  IF at = 0 THEN events[1 + ((j - 1) \div Width(kind))]
         ELSE Eol(kind)[1 + ((at - 1) % Len(Eol(kind)))]]

\* chunk.replace(b"\r\n", b"\n"): a pair cut by the end of the chunk stays.  A CR that
\* is taken out leaves a mark, so that what was read can be compared with what was sent.
Normalised(chunk) ==
  [i \in DOMAIN chunk |->
     IF chunk[i] = "CR" /\ i < Len(chunk) /\ chunk[i + 1] = "LF" THEN "dropped" ELSE chunk[i]]

EndsBlankLine(bytes, i) ==
  /\ bytes[i] = "LF"
  /\ \/ i > 1 /\ bytes[i - 1] = "LF"
     \/ i > 2 /\ bytes[i - 1] = "dropped" /\ bytes[i - 2] = "LF"

\* What a blank line ends is complete; the rest waits for its own.  (No provider sends
\* three line ends in a row, which would pair up from the first.)
Split(bytes) ==
  LET ends == {i \in DOMAIN bytes : EndsBlankLine(bytes, i)}
      last == IF ends = {} THEN 0 ELSE Max(ends)
  IN  [complete |-> SubSeq(bytes, 1, last), rest |-> SubSeq(bytes, last + 1, Len(bytes))]

\* Mutant: the whole buffer is read again with every chunk.
FeedsUnfinished(chunk) ==
  LET bytes == buffer \o Normalised(chunk)
  IN  [complete |-> bytes, rest |-> Split(bytes).rest]

Feeds(chunk) == Split(buffer \o Normalised(chunk))

-----------------------------------------------------------------------------
(* Numbers are not negative, prices are complete, and no event is a line end. *)

Counts == Nat \cup {Unknown}
Prices == [input : Nat, output : Nat, read : Counts, w5 : Counts, w1 : Counts,
           above : Counts, longInput : Counts, longOutput : Counts, longRead : Counts]
Caches == [written : Nat, w5 : Counts, w1 : Counts, read : Nat]

ExchangeAssumption ==
  /\ Million \in Nat \ {0} /\ Endings \subseteq {"LF", "CRLF"}
  /\ \A p \in DOMAIN Overrides : Overrides[p] \in Prices
  /\ \A vendor \in DOMAIN Catalog : Catalog[vendor] \in Prices
  /\ \A e \in DOMAIN Carries :
       /\ IsEvent(e) /\ DOMAIN Carries[e] \subseteq DOMAIN Unread
       /\ \A f \in DOMAIN Carries[e] : Carries[e][f] \in IF f = "cache" THEN Caches ELSE Counts
  /\ \A a \in Asks :
       /\ a.shape \in {"openai", "anthropic"} /\ a.chars \in Nat /\ a.maxOut \in Nat
       /\ Scripts[a.shape] \subseteq Seq(DOMAIN Carries)

ASSUME ExchangeAssumption

-----------------------------------------------------------------------------
ExchangeInit ==
  /\ ask \in Asks
  /\ stage = "admit" /\ callAttempt = 0
  /\ script = <<>> /\ ending = "LF" /\ wire = <<>> /\ taken = <<>> /\ buffer = <<>>
  /\ book = Unread /\ got = <<>>
  /\ filed = <<>> /\ learnt = "nothing"

Receipt(status, usage) ==
  LET price == Resolve(ask.provider)
      input == TotalInput(ask.shape, usage)
  IN  [status |-> status, usage |-> usage,
       cost |-> IF input = Unknown \/ usage.output = Unknown \/ price = NoPrice THEN Unknown
                ELSE Cost(price, input, usage.output, PricedCache(ask.shape, price, usage.cache))]

\* The request is over: it leaves a receipt, and the caller learns how it went.
Close(status, usage, outcome) ==
  /\ filed' = Append(filed, Receipt(status, usage))
  /\ learnt' = outcome
  /\ stage' = "done"

(***************************************************************************)
(* An unsupported request, an unknown route or provider, or a refusal by   *)
(* admission, which every attempt asks anew.                               *)
(***************************************************************************)
TurnAway ==
  /\ stage = "admit"
  /\ Close("error", Unread, "error")
  /\ UNCHANGED <<ask, callAttempt, script, ending, wire, taken, buffer, book, got>>

Send ==
  /\ stage = "admit"
  /\ stage' = "calling"
  /\ \E s \in Scripts[ask.shape], e \in Endings :
       /\ script' = s /\ ending' = e /\ wire' = Wire(s, e)
  /\ UNCHANGED <<ask, callAttempt, taken, buffer, book, got, filed, learnt>>

\* "busy": 429 or 5xx; "late": no answer in time; "rejected": any other
\* status, a spent upstream budget, a missing key; "lost": the transport
\* failed, or the answer makes no sense.
CallFailures == {"busy", "late", "rejected", "lost"}

RetryableFailure(f) == f \in {"busy", "late"}

TriesAgain(f) == RetryableFailure(f) /\ callAttempt < MaxCallRetries

Fail(f) ==
  /\ stage = "calling"
  /\ IF TriesAgain(f)
     THEN /\ stage' = "backoff"
          /\ UNCHANGED <<filed, learnt>>
     ELSE Close("error", Unread, "error")
  /\ UNCHANGED <<ask, callAttempt, script, ending, wire, taken, buffer, book, got>>

BackOff ==
  /\ stage = "backoff"
  /\ stage' = "admit"
  /\ callAttempt' = callAttempt + 1
  /\ UNCHANGED <<ask, script, ending, wire, taken, buffer, book, got, filed, learnt>>

Answer ==
  /\ stage = "calling" /\ ~ask.stream
  /\ Close("success", UsageOf(ask.shape, Unread, script), "response")
  /\ UNCHANGED <<ask, callAttempt, script, ending, wire, taken, buffer, book, got>>

\* The first chunk is taken before the response begins; an empty body is not retried.
Open ==
  /\ stage = "calling" /\ ask.stream
  /\ \E k \in 0 .. Len(wire) :
       /\ k = 0 => wire = <<>>
       /\ taken' = SubSeq(wire, 1, k)
       /\ wire' = SubSeq(wire, k + 1, Len(wire))
  /\ stage' = "opened"
  /\ UNCHANGED <<ask, callAttempt, script, ending, buffer, book, got, filed, learnt>>

Forwards(chunk) ==
  LET fed == Feeds(chunk)
  IN  /\ buffer' = fed.rest
      /\ book' = UsageOf(ask.shape, book, fed.complete)
      /\ got' = got \o chunk

Start ==
  /\ stage = "opened"
  /\ stage' = "forward"
  /\ Forwards(taken)
  /\ taken' = <<>>
  /\ UNCHANGED <<ask, callAttempt, script, ending, wire, filed, learnt>>

Forward ==
  /\ stage = "forward"
  /\ \E k \in 1 .. Len(wire) :
       /\ Forwards(SubSeq(wire, 1, k))
       /\ wire' = SubSeq(wire, k + 1, Len(wire))
  /\ UNCHANGED <<ask, stage, callAttempt, script, ending, taken, filed, learnt>>

End ==
  /\ stage = "forward" /\ wire = <<>>
  /\ Close("success", book, "ended")
  /\ UNCHANGED <<ask, callAttempt, script, ending, wire, taken, buffer, book, got>>

Interrupted == IF got = <<>> THEN "error" ELSE "partial"

\* The provider fails after the first chunk: the response just ends.
Break ==
  /\ stage = "forward"
  /\ Close(Interrupted, book, "ended")
  /\ UNCHANGED <<ask, callAttempt, script, ending, wire, taken, buffer, book, got>>

\* The client is gone at a chunk that was handed to it.
Leave ==
  /\ stage = "forward" /\ got # <<>>
  /\ Close(Interrupted, book, "left")
  /\ UNCHANGED <<ask, callAttempt, script, ending, wire, taken, buffer, book, got>>

\* The task is cancelled.  While it waits for a chunk nothing catches that
\* and the outcome is the one it began with; before the stream starts
\* nothing is written at all.
Cancel ==
  /\ stage \in {"calling", "backoff", "opened", "forward"}
  /\ IF stage = "forward" THEN Close("success", book, "cancelled")
     ELSE stage' = "done" /\ learnt' = "cancelled" /\ UNCHANGED filed
  /\ UNCHANGED <<ask, callAttempt, script, ending, wire, taken, buffer, book, got>>

ExchangeNext ==
  \/ TurnAway \/ Send \/ BackOff \/ Answer \/ Open \/ Start \/ Forward \/ End
  \/ Break \/ Leave \/ Cancel
  \/ \E f \in CallFailures : Fail(f)

ExchangeSpec == ExchangeInit /\ [][ExchangeNext]_exchangeVars

-----------------------------------------------------------------------------
ExchangeTypeOK ==
  /\ ask \in Asks
  /\ stage \in {"admit", "calling", "backoff", "opened", "forward", "done"}
  /\ callAttempt \in 0 .. MaxCallRetries
  /\ ending \in Endings \cup {"LF"}
  /\ learnt \in {"nothing", "error", "response", "ended", "left", "cancelled"}
  /\ Len(filed) <= 1

(***************************************************************************)
(* However the bytes were cut into chunks, the receipt of a stream records *)
(* the usage of exactly the events whose last byte the client was handed,  *)
(* and those bytes are of one answer, in its order.  With CRLF line ends a *)
(* blank line cut in two is not recognised: the usage is then that of the  *)
(* events before it, never of one that has not arrived (_SseBookkeeper and *)
(* _AnthropicSseBookkeeper, feed).                                         *)
(***************************************************************************)
ArrivedWhole == SubSeq(script, 1, Len(got) \div Width(ending))

UsageIsOfWhatArrived ==
  /\ IsPrefix(got, Wire(script, ending)) \/ stage \in {"calling", "backoff", "admit"}
  /\ stage = "forward" =>
       \E n \in 0 .. Len(ArrivedWhole) :
         /\ book = UsageOf(ask.shape, Unread, SubSeq(ArrivedWhole, 1, n))
         /\ ending = "LF" => n = Len(ArrivedWhole)
  /\ \A i \in DOMAIN filed :
       /\ filed[i].status = "success" /\ learnt = "ended" => got = Wire(script, ending)
       /\ filed[i].status = "partial" => got # <<>>

\* The dearer tier is dearer, and to read the cache is no dearer than to read afresh.
PriceIsOrdered(price) ==
  /\ price.read <= price.input
  /\ price.above # Unknown =>
       price.longInput >= price.input /\ price.longOutput >= price.output /\ price.longRead <= price.longInput

PricesAreOrdered ==
  /\ \A p \in DOMAIN Overrides : PriceIsOrdered(Overrides[p])
  /\ \A vendor \in DOMAIN Catalog : PriceIsOrdered(Catalog[vendor])

(***************************************************************************)
(* A call that stays within the tokens its estimate assumed costs no more  *)
(* than the estimate, so its reservation covered it, whatever tier it fell *)
(* in and however it was rounded -- unless it wrote to the prompt cache at *)
(* a rate above the input rate (estimate_upper_bound_usd).                 *)
(***************************************************************************)
ReservationCovers ==
  \A i \in DOMAIN filed :
    LET usage == filed[i].usage
    IN  /\ filed[i].cost # Unknown
        /\ TotalInput(ask.shape, usage) * 3 <= ask.chars + 2
        /\ usage.output <= ask.maxOut
        /\ usage.cache.written = 0
        => filed[i].cost <= EstimateUpperBound(Resolve(ask.provider), ask)

(***************************************************************************)
(* What is recorded of a call is what arrived, and what was reserved for   *)
(* it covers it.                                                           *)
(***************************************************************************)
CallIsMetered == UsageIsOfWhatArrived /\ ReservationCovers
=============================================================================
