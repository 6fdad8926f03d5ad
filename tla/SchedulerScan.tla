--------------------------- MODULE SchedulerScan ---------------------------
(***************************************************************************)
(* How the Dreamer scheduler walks the evidence: a run takes at most       *)
(* max_batch_size rows from five tables (src/src/dream.rs), the daemon and *)
(* the CLI start runs (Service::scheduled_dream), and a run that succeeds  *)
(* leaves a cursor in dream_runs from which the next one goes on.  A       *)
(* cursor scans a band: rows stamped up to `upper` whose scheduler rowid   *)
(* is at most `upperIds`, newest first, one position per table; the rows   *)
(* behind `lower` and `lowerIds` belong to earlier bands.  Memory records  *)
(* changed in place come back through their mutation sequence.             *)
(*                                                                         *)
(* Every query is its own transaction, so writers step in between.  Times  *)
(* are numbers and 0 is no time at all.  Legacy cursors without a band end *)
(* or a mutation range, and runs under a simulated clock, are left out.    *)
(* A definition marked "Slip" is the next one with a mistake in it.        *)
(***************************************************************************)
EXTENDS Integers, Sequences, FiniteSets

CONSTANTS
    Rows,       \* rows of all tables
    TableOf,    \* row -> its table
    Chats,      \* visible turns a ChatGPT import brought, usable as candidates
    Stages,     \* the queries of a run in order: a table, or "chatgpt_export"
    Runners,    \* whoever runs scheduled_dream: the daemon's loop, a CLI
    Base,       \* watermark of an earlier manual dream, or NoTime
    MaxBatch,   \* max_batch_size
    MaxTime, MaxMut,    \* bounds on the clock and on the mutation counter
    NoPos, NoId

NoTime  == 0
Records == "memory_records"
Table(stage) == IF stage = "chatgpt_export" THEN "visible_turns" ELSE stage
Tables  == {Table(Stages[k]) : k \in DOMAIN Stages}

ASSUME ScanAssumption ==
    /\ IsFiniteSet(Rows)
    /\ Stages \in Seq(STRING)
    /\ \A k \in DOMAIN Stages : \E n \in DOMAIN Stages : Stages[n] = Table(Stages[k])
    /\ TableOf \in [Rows -> Tables]
    /\ Records \in Tables
    /\ Chats \subseteq {i \in Rows : TableOf[i] = "visible_turns"}
    /\ MaxBatch \in Nat \ {0} /\ MaxTime \in Nat /\ MaxMut \in Nat
    /\ Base \in 0 .. MaxTime
    /\ NoId \notin Nat /\ NoPos \notin [ts: Nat, id: Rows, rowid: Nat \cup {NoId}]

VARIABLES
    clock,
    rows,
    rowseq,     \* scheduler_source_rowid_counter
    mutseq,     \* active_memory_mutation_counter
    saved,      \* the row of dream_runs scheduled_dream_cursor returns
    run,        \* what each run has read
    seen        \* history: versions of rows a recorded run selected

vars == <<clock, rows, rowseq, mutseq, saved, run, seen>>

Free == [life |-> "free", ts |-> NoTime, rowid |-> 0, mseq |-> 0, eligible |-> FALSE]

NoPositions == [t \in Tables |-> NoPos]
NoIds == [t \in Tables |-> 0]

\* `late` is history: versions stamped past the end of a band that took in their rowid.
Opening == [lower |-> Base, upper |-> NoTime, lowerIds |-> NoIds, upperIds |-> NoIds,
            mlow |-> 0, mup |-> 0, post |-> FALSE, pos |-> NoPositions, late |-> {}]

Idle == [pc |-> "idle", now |-> NoTime, cursor |-> Opening, stage |-> 1, left |-> MaxBatch,
         window |-> {}]

Stored(i)  == rows[i].life = "stored"
Version(i) == <<i, rows[i].mseq>>

Init ==
    /\ clock = IF Base = NoTime THEN 1 ELSE Base
    /\ rows = [i \in Rows |-> Free]
    /\ rowseq = 0
    /\ mutseq = 0
    /\ saved = [at |-> NoTime, cursor |-> Opening]
    /\ run = [r \in Runners |-> Idle]
    /\ seen = {}
----------------------------------------------------------------------------
(* Bands *)

Later(s, t) == IF s < t THEN t ELSE s

\* scheduler_rowid_frontier: the largest rowid of each table as it stands.
Frontier == [t \in Tables |->
    LET ids == {rows[i].rowid : i \in {j \in Rows : Stored(j) /\ TableOf[j] = t}} \cup {0}
    IN  CHOOSE n \in ids : \A m \in ids : m <= n]

\* History: c, with the versions its band takes in by rowid and leaves out by time.
Noting(c) ==
    [c EXCEPT !.late = @ \cup {Version(i) : i \in {j \in Rows :
        /\ Stored(j)
        /\ rows[j].rowid \in (c.lowerIds[TableOf[j]] + 1) .. c.upperIds[TableOf[j]]
        /\ rows[j].ts > c.upper
        /\ TableOf[j] = Records => rows[j].mseq <= c.mlow}}]

\* scheduler_cursor_for_run: a band in progress is resumed as it was saved; else a
\* band that ends now is opened behind the one that was completed.
ForRun(c, now) ==
    IF c = Opening
    THEN Noting([c EXCEPT !.upper = now, !.upperIds = Frontier, !.mup = mutseq,
                          !.mlow = IF Base = NoTime THEN 0 ELSE mutseq])
    ELSE IF c.upper = NoTime
    THEN Noting([c EXCEPT !.upper = Later(now, c.lower), !.upperIds = Frontier,
                          !.mup = mutseq, !.post = TRUE])
    ELSE c

\* A position whose row was gone when it was saved has no rowid to resume from.
Legacy(c) == \E t \in Tables : c.pos[t] # NoPos /\ c.pos[t].rowid = NoId

\* dream::run rewinds such a cursor for its own queries.
View(c) == IF Legacy(c) THEN [c EXCEPT !.pos = NoPositions, !.lowerIds = NoIds] ELSE c

InBand(c, i) ==
    LET t == TableOf[i]
    IN  /\ c.lowerIds[t] < rows[i].rowid /\ rows[i].rowid <= c.upperIds[t]
        /\ rows[i].ts <= c.upper
        /\ c.lower <= rows[i].ts \/ c.post

Remaining(c, i) ==
    LET p == c.pos[TableOf[i]]
    IN  p # NoPos => \/ rows[i].ts < p.ts
                     \/ rows[i].ts = p.ts /\ rows[i].rowid > p.rowid

\* query_dream_rows and query_memory_records_with_frontier: what a query may return.
Admitted(c, i) ==
    /\ Stored(i)
    /\ Remaining(c, i)
    /\ IF TableOf[i] = Records
       THEN /\ rows[i].eligible /\ rows[i].mseq <= c.mup
            /\ InBand(c, i) \/ c.mlow < rows[i].mseq
       ELSE InBand(c, i)

\* ORDER BY timestamp DESC, scheduler_rowid ASC LIMIT n
Ahead(j, i) == \/ rows[j].ts > rows[i].ts
               \/ rows[j].ts = rows[i].ts /\ rows[j].rowid < rows[i].rowid

Page(S, n) == {i \in S : Cardinality({j \in S : Ahead(j, i)}) < n}

\* Slip: every query may take a whole batch.
SelectedUnshared(c, stage, left) ==
    LET S == {i \in Rows : TableOf[i] = Table(stage) /\ Admitted(View(c), i)}
    IN  IF stage = "chatgpt_export" THEN Page(Page(S, MaxBatch) \cap Chats, MaxBatch)
        ELSE Page(S, MaxBatch)

\* One query of a run with room for `left` rows.  Imported chat turns are picked from
\* a page of turns of their own.
Selected(c, stage, left) ==
    LET S == {i \in Rows : TableOf[i] = Table(stage) /\ Admitted(View(c), i)}
    IN  IF stage = "chatgpt_export" THEN Page(Page(S, MaxBatch) \cap Chats, left)
        ELSE Page(S, left)
----------------------------------------------------------------------------
(* The cursor a run leaves *)

Position(e) == [ts |-> e.ts, id |-> e.id,
                rowid |-> IF Stored(e.id) THEN rows[e.id].rowid ELSE NoId]

\* update_cursor_position over a page: down to the oldest row and, among equals, the
\* largest rowid.  Equals of which one has no rowid go by id, which says nothing of age.
Moves(p, S) ==
    LET all == S \cup ({p} \ {NoPos})
        low == {q \in all : \A o \in all : q.ts <= o.ts}
    IN  IF S = {} THEN {p}
        ELSE IF \E q \in low : q.rowid = NoId THEN low
        ELSE {q \in low : \A o \in low : o.rowid <= q.rowid}

\* update_scheduler_cursor
Advanced(c, W) ==
    {[c EXCEPT !.pos = f] : f \in {g \in [Tables -> {NoPos} \cup UNION {
            {c.pos[t] : t \in Tables}, {Position(e) : e \in W}}] :
        \A t \in Tables :
            g[t] \in Moves(c.pos[t], {Position(e) : e \in {d \in W : TableOf[d.id] = t}})}}

\* The band is scanned again up to a new frontier.
Restarted(c) == Noting([c EXCEPT !.pos = NoPositions, !.upperIds = Frontier, !.mup = mutseq])

\* Slip: the new band starts behind the frontier just read.
FollowingFresh(c, now) ==
    Noting([c EXCEPT !.lower = c.upper, !.upper = now, !.lowerIds = Frontier,
                     !.upperIds = Frontier, !.mlow = c.mup, !.mup = mutseq, !.post = TRUE,
                     !.pos = NoPositions])

\* The band is done and time has moved on: the next one is open already.
Following(c, now) ==
    Noting([c EXCEPT !.lower = c.upper, !.upper = now, !.lowerIds = c.upperIds,
                     !.upperIds = Frontier, !.mlow = c.mup, !.mup = mutseq, !.post = TRUE,
                     !.pos = NoPositions])

\* Slip: the mutation range stays open at its lower end.
CompletedOpen(c) ==
    [c EXCEPT !.lower = c.upper, !.upper = NoTime, !.lowerIds = c.upperIds,
              !.upperIds = NoIds, !.post = TRUE, !.pos = NoPositions]

Completed(c) ==
    [c EXCEPT !.lower = c.upper, !.upper = NoTime, !.lowerIds = c.upperIds,
              !.upperIds = NoIds, !.mlow = c.mup, !.post = TRUE, !.pos = NoPositions]

\* Slip: a full batch begins the band over.
AfterBeginning(c, W, now, full) ==
    IF Legacy(c) \/ full THEN {Restarted(c)}
    ELSE IF now > c.upper THEN {Following(c, now)}
    ELSE {Completed(c)}

\* scheduler_watermark_after
After(c, W, now, full) ==
    IF Legacy(c) THEN {Restarted(c)}
    ELSE IF full THEN Advanced(c, W)
    ELSE IF now > c.upper THEN {Following(c, now)}
    ELSE {Completed(c)}
----------------------------------------------------------------------------
(* Runs *)

\* scheduled_dream reads the saved cursor and the time.
Begin(r) ==
    /\ run[r].pc = "idle"
    /\ run' = [run EXCEPT ![r] = [Idle EXCEPT !.pc = "pin", !.now = clock,
                                              !.cursor = saved.cursor]]
    /\ UNCHANGED <<clock, rows, rowseq, mutseq, saved, seen>>

Pin(r) ==
    /\ run[r].pc = "pin"
    /\ run' = [run EXCEPT ![r].pc = "read", ![r].cursor = ForRun(run[r].cursor, run[r].now)]
    /\ UNCHANGED <<clock, rows, rowseq, mutseq, saved, seen>>

\* dream::run and build_evidence_window, one query at a time.
Read(r) ==
    /\ run[r].pc = "read"
    /\ LET S == Selected(run[r].cursor, Stages[run[r].stage], run[r].left)
       IN  run' = [run EXCEPT
               ![r].window = run[r].window \cup
                                 {[id |-> i, ts |-> rows[i].ts, mseq |-> rows[i].mseq] : i \in S},
               ![r].left = run[r].left - Cardinality(S),
               ![r].stage = run[r].stage + 1,
               ![r].pc = IF run[r].stage = Len(Stages) THEN "record" ELSE "read"]
    /\ UNCHANGED <<clock, rows, rowseq, mutseq, saved, seen>>

\* The run succeeded within its limits; the newest start wins, then the last to end.
Record(r) ==
    /\ run[r].pc = "record"
    /\ \E c \in After(run[r].cursor, run[r].window, run[r].now, run[r].left = 0) :
          saved' = IF run[r].now >= saved.at THEN [at |-> run[r].now, cursor |-> c] ELSE saved
    /\ seen' = seen \cup {<<e.id, e.mseq>> : e \in run[r].window}
    /\ run' = [run EXCEPT ![r] = Idle]
    /\ UNCHANGED <<clock, rows, rowseq, mutseq>>

\* An error, a candidate or runtime limit, or a crash: the cursor stays.  Until it
\* records a run has only read, so one that ends earlier is one that ends here.
Abandon(r) ==
    /\ run[r].pc = "record"
    /\ run' = [run EXCEPT ![r] = Idle]
    /\ UNCHANGED <<clock, rows, rowseq, mutseq, saved, seen>>
----------------------------------------------------------------------------
(* Writers *)

Tick ==
    /\ clock < MaxTime
    /\ clock' = clock + 1
    /\ UNCHANGED <<rows, rowseq, mutseq, saved, run, seen>>

\* Turns carry the time their client gives; every other row is stamped on arrival.
Insert(i, t) ==
    /\ rows[i].life = "free"
    /\ TableOf[i] = "visible_turns" \/ t = clock
    /\ rowseq' = rowseq + 1
    /\ rows' = [rows EXCEPT ![i] = [life |-> "stored", ts |-> t, rowid |-> rowseq + 1,
                                    mseq |-> 0, eligible |-> TRUE]]
    /\ UNCHANGED <<clock, mutseq, saved, run, seen>>

\* Provenance merged into an eligible record, or a record reused by a consolidation,
\* restored, promoted or taken back by an undo.
Change(i) ==
    /\ Stored(i) /\ TableOf[i] = Records
    /\ mutseq < MaxMut
    /\ mutseq' = mutseq + 1
    /\ rows' = [rows EXCEPT ![i] = [rows[i] EXCEPT !.ts = clock, !.mseq = mutseq + 1,
                                                   !.eligible = TRUE]]
    /\ UNCHANGED <<clock, rowseq, saved, run, seen>>

\* Archived or quarantined.
Retire(i) ==
    /\ Stored(i) /\ TableOf[i] = Records /\ rows[i].eligible
    /\ rows' = [rows EXCEPT ![i] = [rows[i] EXCEPT !.ts = clock, !.eligible = FALSE]]
    /\ UNCHANGED <<clock, rowseq, mutseq, saved, run, seen>>

\* The delete trigger drops the scheduler rowid; the counter never gives it again.
Delete(i) ==
    /\ Stored(i) /\ TableOf[i] = Records
    /\ rows' = [rows EXCEPT ![i] = [Free EXCEPT !.life = "deleted"]]
    /\ UNCHANGED <<clock, rowseq, mutseq, saved, run, seen>>
----------------------------------------------------------------------------
Next ==
    \/ \E r \in Runners : Begin(r) \/ Pin(r) \/ Read(r) \/ Record(r) \/ Abandon(r)
    \/ Tick
    \/ \E i \in Rows, t \in 1 .. MaxTime : Insert(i, t)
    \/ \E i \in Rows : Change(i) \/ Retire(i) \/ Delete(i)

Spec == Init /\ [][Next]_vars

\* The daemon's loop ticks for as long as it lives (server.rs:488), and its runs are not
\* all abandoned for ever.
Fairness == \A r \in Runners : /\ WF_vars(Begin(r)) /\ WF_vars(Pin(r)) /\ WF_vars(Read(r))
                               /\ SF_vars(Record(r))

FairSpec == Spec /\ Fairness
=============================================================================
