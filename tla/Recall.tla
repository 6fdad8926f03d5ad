-------------------------------- MODULE Recall --------------------------------
(***************************************************************************)
(* Recall and search (src/src/recall.rs, queries of src/src/store.rs).     *)
(* A recall reads in five statements, each of its own snapshot: three      *)
(* counts of what it will not show, a search, and a listing if the search  *)
(* finds nothing.  Writers come in between.  What the code counts is kept  *)
(* as the set of rows counted.  A listing or search is read in pages.      *)
(*                                                                         *)
(* One profile and workspace; a query is one word.  A row's kind holds     *)
(* what recall looks at and no writer here changes; its scores are one     *)
(* number, highest first, distinct within an instance.  Checkpoints,       *)
(* citations, provenance, and last_used_at, which orders nothing, are left *)
(* out.  A definition marked "Slip" is the next one with a mistake in it.  *)
(***************************************************************************)
EXTENDS Integers, Sequences, FiniteSetsExt

CONSTANTS
    Rows,
    KindOf,         \* of each row: see Kind
    FirstRows,      \* rows active at start
    Never,          \* NULL
    Now,            \* the moment at which a recall is evaluated
    Pool,           \* the limit of the candidates' query (200)
    Budget,         \* effective_max_tokens
    MostFacts,      \* 40
    PageLimit,      \* limit of a search
    MaxMoves, MaxRecalls    \* bounds: writes, recalls

Instants == 0 .. 2 * Now
Modes == {"now", "history"} \cup {"as_of"} \X Instants

Kind == [secret: BOOLEAN, policy: {"none", "quarantined", "unsafe", "superseded", "high_risk"},
         temporal: {"current", "historical", "planned"},
         from: Instants \cup {Never}, until: Instants \cup {Never},
         observed: Instants \cup {Never}, invalid: Instants \cup {Never},
         hit: BOOLEAN, excluded: BOOLEAN, cost: Nat, score: Nat]

ASSUME RecallAssumption ==
    /\ KindOf \in [Rows -> Kind] /\ FirstRows \subseteq Rows /\ IsFiniteSet(Rows)
    /\ \A i, j \in Rows : KindOf[i].score = KindOf[j].score => i = j
    /\ Now \in Nat /\ Never \notin Nat
    /\ Budget \in Nat
    /\ Pool \in Nat \ {0} /\ MostFacts \in Nat \ {0} /\ PageLimit \in Nat \ {0}

VARIABLES
    shelf,      \* memory_records
    reader,     \* the recall under way
    moved,      \* rows written since it, or since the first page, began
    pager,      \* the pages read so far
    shifted,    \* how writes have moved the listing since its first page (kept for PagesShowOnce)
    moves, recalls

recallVars == <<shelf, reader, moved, pager, shifted, moves, recalls>>

NoRecall == [pc |-> "idle", mode |-> "now", asks |-> FALSE, counted |-> << >>, pool |-> {}, facts |-> {}]
NoPages == [on |-> FALSE, asks |-> FALSE, offset |-> 0, shown |-> << >>]

RecallInit ==
    /\ shelf = [i \in Rows |-> [state |-> IF i \in FirstRows THEN "active" ELSE "none",
                                trusted |-> TRUE, stamp |-> KindOf[i].score]]
    /\ reader = NoRecall /\ pager = NoPages
    /\ moved = {} /\ shifted = {} /\ moves = 0 /\ recalls = 0
----------------------------------------------------------------------------
(* Queries *)

InStore == {i \in Rows : shelf[i].state # "none"}
Asked(i, asks) == asks => KindOf[i].hit

\* The filters every query of rows has.
Shown(i) == shelf[i].state = "active" /\ ~KindOf[i].secret /\ shelf[i].trusted

\* Slip: the row written last is listed last.
RecencyOldestFirst == [i \in Rows |-> 0 - shelf[i].stamp]

\* An order, highest first: ORDER BY updated_at DESC, and a search's own by relevance.
Recency == [i \in Rows |-> shelf[i].stamp]
Relevance == [i \in Rows |-> KindOf[i].score]

Ahead(order, S, i) == {j \in S : order[j] > order[i]}

\* LIMIT n
FirstBy(order, S, n) == {i \in S : Cardinality(Ahead(order, S, i)) < n}

Listed == {i \in InStore : Shown(i)}
Found == {i \in Listed : KindOf[i].hit}

Reasons == {"archived", "secret_blocked", "quarantined"}

\* Slip: rows are counted for each reason that applies.
CountsEach(reason, i) ==
    CASE reason = "archived" -> shelf[i].state = "archived"
      [] reason = "secret_blocked" -> KindOf[i].secret
      [] reason = "quarantined" -> ~shelf[i].trusted

Counts(reason, i) ==
    CASE reason = "archived" -> shelf[i].state = "archived" /\ ~KindOf[i].secret /\ shelf[i].trusted
      [] reason = "secret_blocked" -> KindOf[i].secret
      [] reason = "quarantined" -> ~KindOf[i].secret /\ ~shelf[i].trusted

\* count_recall_omission
Omitted(reason, asks) == {i \in InStore : Asked(i, asks) /\ Counts(reason, i)}
----------------------------------------------------------------------------
(* What is withheld from the candidates *)

After(t, moment) == t # Never /\ t > moment
Until(t, moment) == t # Never /\ t <= moment

PolicyDenies(k, current) ==
    IF k.policy = "none" \/ (k.policy = "superseded" /\ ~current) THEN {} ELSE {k.policy}

CurrentDenies(k) ==
    IF k.temporal = "planned" \/ After(k.from, Now) THEN {"planned"}
    ELSE IF k.temporal # "current" \/ Until(k.until, Now) \/ Until(k.invalid, Now) THEN {"historical"}
    ELSE {}

AsOfDenies(k, moment) ==
    IF After(k.from, moment) \/ After(k.observed, moment) THEN {"planned"}
    ELSE IF Until(k.until, moment) \/ Until(k.invalid, moment) THEN {"historical"}
    ELSE {}

\* recall_deny_reason: none or one.
Denies(k, mode) ==
    LET policy == PolicyDenies(k, mode = "now")
    IN  IF policy # {} THEN policy
        ELSE IF mode = "now" THEN CurrentDenies(k)
        ELSE IF mode = "history" THEN {}
        ELSE AsOfDenies(k, mode[2])

Scored(pool, mode) == {i \in pool : Denies(KindOf[i], mode) = {} /\ ~KindOf[i].excluded}

CostOf(S) == MapThenSumSet(LAMBDA i : KindOf[i].cost, S)

\* Slip: the first fact has to fit, too.
FitsAlways(S, i) == ~(CostOf(Ahead(Relevance, S, i) \cup {i}) > Budget)

\* A fact fits with all before it, or is the first.
Fits(S, i) == LET before == Ahead(Relevance, S, i) IN before = {} \/ ~(CostOf(before \cup {i}) > Budget)

\* The loop that packs stops at the first fact that does not fit.
Packed(S) ==
    {i \in FirstBy(Relevance, S, MostFacts) : \A j \in Ahead(Relevance, S, i) \cup {i} : Fits(S, j)}
----------------------------------------------------------------------------
(* A recall *)

Reads(next) == reader' = next /\ UNCHANGED <<shelf, pager, shifted, moves, recalls>>

BeginRecall ==
    /\ reader.pc = "idle" /\ recalls < MaxRecalls /\ ~pager.on
    /\ \E mode \in Modes, asks \in BOOLEAN :
          reader' = [NoRecall EXCEPT !.pc = "count", !.mode = mode, !.asks = asks]
    /\ recalls' = recalls + 1 /\ moved' = {}
    /\ UNCHANGED <<shelf, pager, shifted, moves>>

Order == <<"archived", "secret_blocked", "quarantined">>

CountOmitted ==
    /\ reader.pc = "count"
    /\ LET n == Len(reader.counted) + 1
       IN  Reads([reader EXCEPT !.counted = Append(@, Omitted(Order[n], reader.asks)),
                                !.pc = IF n < 3 THEN "count" ELSE IF reader.asks THEN "search" ELSE "list"])
    /\ UNCHANGED moved

SearchPool ==
    /\ reader.pc = "search"
    /\ Reads([reader EXCEPT !.pool = FirstBy(Relevance, Found, Pool), !.pc = IF Found = {} THEN "list" ELSE "pack"])
    /\ UNCHANGED moved

ListPool ==
    /\ reader.pc = "list"
    /\ Reads([reader EXCEPT !.pool = FirstBy(Recency, Listed, Pool), !.pc = "pack"])
    /\ UNCHANGED moved

\* The answer; touch_records writes last_used_at only.
PackFacts ==
    /\ reader.pc = "pack"
    /\ Reads([reader EXCEPT !.facts = Packed(Scored(reader.pool, reader.mode)), !.pc = "done"])
    /\ UNCHANGED moved

EndRecall ==
    /\ reader.pc = "done" /\ reader' = NoRecall /\ moved' = {}
    /\ UNCHANGED <<shelf, pager, shifted, moves, recalls>>
----------------------------------------------------------------------------
(* Pages *)

\* Slip: the extra row that tells of another page is shown with this one.
PageWithNext(order, S) == FirstBy(order, S, PageLimit + 1)

\* search: one row more than the limit is fetched and cut off.
Page(order, S) == FirstBy(order, S, PageLimit)
HasMore(order, S) == Cardinality(FirstBy(order, S, PageLimit + 1)) > PageLimit

\* Only the listing without a query takes the offset: search_fts and search_like do not.
PageRows(asks, offset) == IF asks THEN Found ELSE Listed \ FirstBy(Recency, Listed, offset)

ReadPage(asks) ==
    /\ reader.pc = "idle" /\ recalls < MaxRecalls
    /\ pager.on => pager.asks = asks
    /\ LET rows == PageRows(asks, pager.offset)
           order == IF asks THEN Relevance ELSE Recency
           more == HasMore(order, rows)
       IN  /\ pager.offset < Cardinality(Rows)
           /\ pager' = [on |-> more, asks |-> asks,
                        offset |-> IF more THEN pager.offset + PageLimit ELSE 0,
                        shown |-> Append(IF pager.on THEN pager.shown ELSE << >>, Page(order, rows))]
    /\ recalls' = IF pager'.on THEN recalls ELSE recalls + 1
    /\ moved' = IF pager.on THEN moved ELSE {}
    /\ shifted' = IF pager.on THEN shifted ELSE {}
    /\ UNCHANGED <<shelf, reader, moves>>
----------------------------------------------------------------------------
(* Writers *)

Highest == Max({0} \cup {shelf[i].stamp : i \in Rows})

\* A write takes a row out of the listing, or has brought it to the front of it.
Shifts(i) == {way \in {"out", "front"} :
                 pager.on /\ IF way = "out" THEN i \in Listed /\ i \notin Listed' ELSE i \in Listed'}

\* A row is added, edited, archived, restored, quarantined or deleted: updated_at is now.
Write(i) ==
    /\ moves < MaxMoves /\ moves' = moves + 1
    /\ \E s \in {"none", "active", "archived"}, t \in BOOLEAN :
          /\ shelf[i].state = "none" => s = "active"
          /\ shelf' = [shelf EXCEPT ![i] = [state |-> s, trusted |-> t, stamp |-> Highest + 1]]
    /\ moved' = moved \cup {i} /\ shifted' = shifted \cup Shifts(i)
    /\ UNCHANGED <<reader, pager, recalls>>

RecallNext ==
    \/ BeginRecall \/ CountOmitted \/ SearchPool \/ ListPool \/ PackFacts \/ EndRecall
    \/ \E asks \in BOOLEAN : ReadPage(asks)
    \/ \E i \in Rows : Write(i)

RecallSpec == RecallInit /\ [][RecallNext]_recallVars
----------------------------------------------------------------------------
(* What recall promises (SPEC.md sections 6 and 8, README.md on withheld). *)

\* The rows and the two readers stay within their types.
RecallTypeOK ==
    /\ shelf \in [Rows -> [state: {"none", "active", "archived"}, trusted: BOOLEAN, stamp: Nat]]
    /\ reader.pc \in {"idle", "count", "search", "list", "pack", "done"}
    /\ moved \subseteq Rows /\ shifted \subseteq {"out", "front"}

CountedIn(i) == {n \in DOMAIN reader.counted : i \in reader.counted[n]}

\* A row that matches the query and that nobody writes while the recall reads is accounted
\* for exactly once, though it reads in five snapshots: it is counted under one reason of
\* the store, or is a candidate, which is then shown, or withheld for one reason.  Only a
\* pool that is cut off may leave rows out.
MatchesAreAccountedOnce ==
    reader.pc = "done" /\ Cardinality(reader.pool) < Pool =>
        \A i \in InStore \ moved : Asked(i, reader.asks) =>
            Cardinality(CountedIn(i)) + (IF i \in reader.pool THEN 1 ELSE 0) = 1

\* Whatever is shown outranks what is left out for room, the budget is kept by all but a
\* single fact, and room is not left for the best of what is withheld.
BestAreShown ==
    reader.pc = "done" =>
        LET facts == reader.facts
            rest == Scored(reader.pool, reader.mode) \ facts
        IN  /\ Cardinality(facts) > 1 => ~(CostOf(facts) > Budget)
            /\ \A i \in facts, j \in rest : KindOf[i].score > KindOf[j].score
            /\ rest # {} => facts # {}
            /\ \A j \in rest : Ahead(Relevance, rest, j) = {} =>
                  Cardinality(facts) = MostFacts \/ CostOf(facts \cup {j}) > Budget

TimesShown(i) == Cardinality({n \in DOMAIN pager.shown : i \in pager.shown[n]})

\* The cursor of a listing is an offset into rows ordered by updated_at, and rows are written while its
\* pages are read.  A row that nobody writes is on some page, unless a write took another row out of the
\* listing; and on no two, unless a write brought another row to its front.  (A write of the one kind
\* may hide, of the other repeat, rows that it does not touch.)
PagesShowOnce ==
    [][recalls' # recalls /\ ~pager'.on /\ ReadPage(FALSE) =>
          \A i \in Listed \ moved' :
              /\ "out" \in shifted' \/ TimesShown(i)' >= 1
              /\ "front" \in shifted' \/ TimesShown(i)' <= 1]_recallVars
=============================================================================
