----------------------------- MODULE ReceiptBook -----------------------------
(***************************************************************************)
(* The store of receipts and its readers.  Receipts are stamped when they  *)
(* are built and stored when the write lock is won, so not in the order    *)
(* of their stamps; a JSONL file may be imported meanwhile.  A client      *)
(* tails the store or pages through it, and the summaries are added up     *)
(* from its rows.                                                          *)
(***************************************************************************)
EXTENDS Integers, FiniteSets, SequencesExt

CONSTANTS
  Fresh,        \* receipts that the gateway builds
  Exported,     \* the receipts in the JSONL file, in its order
  Facts,        \* receipt -> its work item (or "none"), status, cost, simulated
  PageSize, MaxNow, MaxOutcomes

VARIABLES
  now,
  stamp,    \* receipt -> its timestamp, 0 before it is built
  rows,     \* the table, in the order of insertion
  importing,\* what the import has still to insert
  tail,     \* the SSE tail: whether it runs, its bound, what it sent, what it last found
  pager,    \* the client that pages: its offset, what it saw, and the rows when it began
  outcomeFile, \* the outcome file: which work item each line is about
  late      \* receipts stored after one with the same stamp or a later one

bookVars == <<now, stamp, rows, importing, tail, pager, outcomeFile, late>>

AllReceipts == Fresh \cup ToSet(Exported)

Unpaid == -1 \* a cost that is not known

BookAssumption ==
  /\ PageSize \in Nat \ {0} /\ MaxNow \in Nat \ {0}
  /\ Exported \in Seq(AllReceipts) /\ Fresh \cap ToSet(Exported) = {}

ASSUME BookAssumption

-----------------------------------------------------------------------------
(* Queries: every result is ordered by stamp, and by insertion within one. *)

ComesBefore(i, j) == \/ stamp[rows[i]] < stamp[rows[j]]
                     \/ stamp[rows[i]] = stamp[rows[j]] /\ i < j

Place(i, at) == 1 + Cardinality({j \in at : ComesBefore(j, i)})

Ordered(kept) ==
  LET at == {i \in DOMAIN rows : rows[i] \in kept}
  IN  [k \in 1 .. Cardinality(at) |-> rows[CHOOSE i \in at : Place(i, at) = k]]

NewerThan(r, since) == stamp[r] > since

Since(t) == Ordered({r \in AllReceipts : NewerThan(r, t)})

ReadAll == Ordered(AllReceipts)

Page(offset) ==
  LET last == offset + PageSize
  IN  SubSeq(ReadAll, offset + 1, IF last < Len(ReadAll) THEN last ELSE Len(ReadAll))

-----------------------------------------------------------------------------
(* Summaries. *)

SumCosts(receipts) == FoldLeft(LAMBDA sum, r : sum + Facts[r].cost, 0, receipts)

Status(receipts) ==
  LET statuses == {Facts[r].status : r \in ToSet(receipts)}
  IN  IF statuses = {} THEN "unknown"
      ELSE IF statuses \in {{"success"}, {"error"}} THEN CHOOSE s \in statuses : TRUE
      ELSE "partial"

Real(receipts) == SelectSeq(receipts, LAMBDA r : ~Facts[r].simulated)

Summarize(receipts) ==
  LET real == Real(receipts)
  IN  [known |-> SumCosts(SelectSeq(real, LAMBDA r : Facts[r].cost # Unpaid)),
       unknown |-> Len(SelectSeq(real, LAMBDA r : Facts[r].cost = Unpaid /\ Facts[r].status = "success")),
       real |-> Len(real),
       simulated |-> Len(receipts) - Len(real),
       status |-> Status(receipts)]

OfWork(w) == SelectSeq(ReadAll, LAMBDA r : Facts[r].work = w)

\* current_outcome_for_work: the last line of the file about w.
CurrentOutcome(w) ==
  LET mine == SelectInSeq(Reverse(outcomeFile), LAMBDA o : o = w)
  IN  IF mine = 0 THEN 0 ELSE Len(outcomeFile) + 1 - mine

WorksSeen == ({Facts[r].work : r \in ToSet(rows)} \ {"none"}) \cup ToSet(outcomeFile)

\* aggregate_work_summaries
WorkSummaries ==
  [w \in WorksSeen |-> [economics |-> Summarize(OfWork(w)), outcome |-> CurrentOutcome(w)]]

\* build_transaction, of a work item with receipts.
Transaction(w) == [events |-> OfWork(w), economics |-> Summarize(OfWork(w))]

-----------------------------------------------------------------------------
BookInit ==
  /\ now = 1
  /\ stamp = [r \in AllReceipts |-> IF r \in Fresh THEN 0 ELSE 1]
  /\ rows = <<>> /\ importing = <<>>
  /\ tail = [on |-> FALSE, since |-> 0, from |-> 0, sent |-> <<>>, found |-> <<>>, polled |-> {}]
  /\ pager = [on |-> FALSE, offset |-> 0, seen |-> <<>>, began |-> {}, shifted |-> FALSE]
  /\ outcomeFile = <<>>
  /\ late = {}

(* Writing. *)

Stamp(r) ==
  /\ stamp[r] = 0
  /\ stamp' = [stamp EXCEPT ![r] = now]
  /\ UNCHANGED <<now, rows, importing, tail, pager, outcomeFile, late>>

\* Mutant: INSERT without OR IGNORE on the key.
InsertsAnyway(r) == Append(rows, r)

Inserts(r) == IF r \in ToSet(rows) THEN rows ELSE Append(rows, r)

Overtaken(r) == r \notin ToSet(rows) /\ \E s \in ToSet(rows) : stamp[s] >= stamp[r]

Store(r) ==
  /\ rows' = Inserts(r)
  /\ late' = IF Overtaken(r) THEN late \cup {r} ELSE late
  /\ pager' = [pager EXCEPT !.shifted = @ \/ \E s \in ToSet(rows) : r \notin ToSet(rows) /\ stamp[s] > stamp[r]]

Emit(r) ==
  /\ r \in Fresh /\ stamp[r] # 0 /\ r \notin ToSet(rows)
  /\ Store(r)
  /\ UNCHANGED <<now, stamp, importing, tail, outcomeFile>>

\* inferrail receipts import: the file is read, then inserted row by row; it
\* may be killed on the way and run again.
BeginImport ==
  /\ importing = <<>>
  /\ importing' = Exported
  /\ UNCHANGED <<now, stamp, rows, tail, pager, outcomeFile, late>>

ImportRow ==
  /\ importing # <<>>
  /\ Store(Head(importing))
  /\ importing' = Tail(importing)
  /\ UNCHANGED <<now, stamp, tail, outcomeFile>>

KillImport ==
  /\ importing # <<>>
  /\ importing' = <<>>
  /\ UNCHANGED <<now, stamp, rows, tail, pager, outcomeFile, late>>

RecordOutcome ==
  /\ Len(outcomeFile) < MaxOutcomes
  /\ \E w \in {Facts[r].work : r \in AllReceipts} \ {"none"} : outcomeFile' = Append(outcomeFile, w)
  /\ UNCHANGED <<now, stamp, rows, importing, tail, pager, late>>

BookTick ==
  /\ now < MaxNow /\ now' = now + 1
  /\ UNCHANGED <<stamp, rows, importing, tail, pager, outcomeFile, late>>

(* Reading: one client, which tails or pages. *)

Subscribe ==
  /\ ~tail.on /\ ~pager.on /\ pager.seen = <<>>
  /\ tail' = [tail EXCEPT !.on = TRUE, !.since = now, !.from = now]
  /\ UNCHANGED <<now, stamp, rows, importing, pager, outcomeFile, late>>

\* One query; what it found is then sent, one at a time.
Poll ==
  /\ tail.on /\ tail.found = <<>>
  /\ tail' = [tail EXCEPT !.found = Since(tail.since), !.polled = ToSet(rows)]
  /\ UNCHANGED <<now, stamp, rows, importing, pager, outcomeFile, late>>

SendNext ==
  /\ tail.on /\ tail.found # <<>>
  /\ LET r == Head(tail.found) IN
       tail' = [tail EXCEPT !.sent = Append(@, r), !.found = Tail(@),
                            !.since = IF stamp[r] > @ THEN stamp[r] ELSE @]
  /\ UNCHANGED <<now, stamp, rows, importing, pager, outcomeFile, late>>

BeginPages ==
  /\ ~tail.on /\ ~pager.on /\ pager.seen = <<>>
  /\ pager' = [on |-> TRUE, offset |-> 0, seen |-> <<>>, began |-> ToSet(rows), shifted |-> FALSE]
  /\ UNCHANGED <<now, stamp, rows, importing, tail, outcomeFile, late>>

\* A page, and the total that says whether there is more.
NextPage ==
  /\ pager.on
  /\ pager' = [pager EXCEPT !.seen = @ \o Page(pager.offset), !.offset = @ + PageSize,
                            !.on = pager.offset + PageSize < Len(rows)]
  /\ UNCHANGED <<now, stamp, rows, importing, tail, outcomeFile, late>>

BookNext ==
  \/ \E r \in Fresh : Stamp(r) \/ Emit(r)
  \/ BeginImport \/ ImportRow \/ KillImport \/ RecordOutcome \/ BookTick
  \/ Subscribe \/ Poll \/ SendNext \/ BeginPages \/ NextPage

BookSpec == BookInit /\ [][BookNext]_bookVars

-----------------------------------------------------------------------------
BookTypeOK ==
  /\ now \in 1 .. MaxNow /\ stamp \in [AllReceipts -> 0 .. MaxNow]
  /\ ToSet(rows) \subseteq AllReceipts /\ late \subseteq ToSet(rows)
  /\ ToSet(tail.sent) \subseteq ToSet(rows) /\ ToSet(pager.seen) \subseteq ToSet(rows)

(***************************************************************************)
(* The tail sends nothing twice, in the order of the stamps, and of what   *)
(* its queries could see it leaves out only what was stored after a        *)
(* receipt with the same stamp or a later one; the pages show nothing      *)
(* twice and miss nothing that was there when the listing began, unless a  *)
(* receipt was stored before the end of the order meanwhile                *)
(* (_tail_new_receipts, list_receipts).                                    *)
(***************************************************************************)
NoRepeats(seq) == Cardinality(ToSet(seq)) = Len(seq)

ReadersMissOnlyTheLate ==
  /\ NoRepeats(tail.sent)
  /\ \A i, j \in DOMAIN tail.sent : i < j => stamp[tail.sent[i]] <= stamp[tail.sent[j]]
  /\ tail.found = <<>> =>
       \A r \in tail.polled :
         stamp[r] > tail.from => r \in ToSet(tail.sent) \cup late
  /\ ~pager.shifted => NoRepeats(pager.seen)
  /\ ~pager.on /\ pager.seen # <<>> /\ ~pager.shifted => pager.began \subseteq ToSet(pager.seen)

(***************************************************************************)
(* However often the file is imported, every stored receipt counts once:   *)
(* the summaries of the work items and of what belongs to none add up to   *)
(* the summary of everything, which is the real money of the receipts; a   *)
(* work item and the transaction over its receipts agree                   *)
(* (aggregate_work_summaries, build_transaction, import_jsonl).            *)
(***************************************************************************)
EvidenceAddsUp ==
  LET whole == Summarize(ReadAll)
      parts == {Facts[r].work : r \in AllReceipts}
      AddUp(field(_)) == FoldSet(LAMBDA w, sum : sum + field(Summarize(OfWork(w))), 0, parts)
      paid == {r \in ToSet(rows) : Facts[r].cost # Unpaid /\ ~Facts[r].simulated}
  IN  /\ AddUp(LAMBDA s : s.known) = whole.known
      /\ AddUp(LAMBDA s : s.unknown) = whole.unknown
      /\ AddUp(LAMBDA s : s.real + s.simulated) = Cardinality(ToSet(rows))
      /\ whole.known = FoldSet(LAMBDA r, sum : sum + Facts[r].cost, 0, paid)
      /\ \A w \in WorksSeen :
           /\ OfWork(w) # <<>> => WorkSummaries[w].economics = Transaction(w).economics
           /\ OfWork(w) = <<>> => WorkSummaries[w].outcome # 0
=============================================================================
