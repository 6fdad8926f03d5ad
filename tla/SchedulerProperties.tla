------------------------- MODULE SchedulerProperties -------------------------
(* What the scheduler's walk over the evidence must guarantee.               *)
EXTENDS SchedulerScan

RowRecords  == [life: {"free", "stored", "deleted"}, ts: Nat, rowid: Nat, mseq: Nat,
                eligible: BOOLEAN]
RowVersions == Rows \X Nat
Positions   == [ts: Nat, id: Rows, rowid: Nat \cup {NoId}]
Cursors == [lower: Nat, upper: Nat, lowerIds: [Tables -> Nat], upperIds: [Tables -> Nat],
            mlow: Nat, mup: Nat, post: BOOLEAN, pos: [Tables -> Positions \cup {NoPos}],
            late: SUBSET RowVersions]
Entries == [id: Rows, ts: Nat, mseq: Nat]
Runs    == [pc: {"idle", "pin", "read", "record"}, now: Nat, cursor: Cursors,
            stage: 1 .. Len(Stages) + 1, left: 0 .. MaxBatch, window: SUBSET Entries]

\* Every variable holds what its column or local may hold; above all, a run never takes
\* more rows than its batch has room for.
TypeOK ==
    /\ clock \in Nat /\ rowseq \in Nat /\ mutseq \in Nat
    /\ rows \in [Rows -> RowRecords]
    /\ saved \in [at: Nat, cursor: Cursors]
    /\ run \in [Runners -> Runs]
    /\ seen \in SUBSET RowVersions
----------------------------------------------------------------------------
\* The saved cursor claims the row for a band that is over.
Behind(i) ==
    /\ Stored(i) /\ rows[i].eligible
    /\ rows[i].rowid <= saved.cursor.lowerIds[TableOf[i]]
    /\ TableOf[i] = Records => rows[i].mseq <= saved.cursor.mlow
    /\ rows[i].ts >= Base

\* Paging, restarts, abandoned runs and writers between the queries lose no row: what a
\* finished band claims was selected by a recorded run, unless it was stamped past the
\* band's end when the band's frontier was read.
OnlyLateRowsAreMissed ==
    \A i \in Rows : Behind(i) => Version(i) \in seen \cup saved.cursor.late

\* "Boundary evidence is not selected twice": as long as no row was deleted under a
\* cursor, a version of a row is recorded once.  This is for one runner at a time: two
\* that begin from the same saved cursor read the same band.
NothingIsSelectedTwice ==
    [][\A r \in Runners :
          Record(r) /\ (\A i \in Rows : rows[i].life # "deleted")
          => {<<e.id, e.mseq>> : e \in run[r].window} \cap seen = {}]_vars

\* The row as it stands has not been selected yet.
Waiting(i) == Stored(i) /\ rows[i].eligible /\ Version(i) \notin seen \cup saved.cursor.late

\* However often it changes, a row that stays eligible is at last selected as it stands:
\* a band that is not yet done is always taken up again.
EveryRowIsSelected == \A i \in Rows : Waiting(i) ~> ~Waiting(i)
----------------------------------------------------------------------------
(* What the documentation says and the code does not do *)

\* A position "continues" a stream "rather than skipping": within the band of the saved
\* cursor, the rows its position has passed were selected.
NothingIsPassedOver ==
    \A i \in Rows :
        LET c == saved.cursor
        IN  /\ TableOf[i] # Records /\ Stored(i) /\ ~Legacy(c)
            /\ InBand(c, i) /\ ~Remaining(c, i)
            => Version(i) \in seen
=============================================================================
