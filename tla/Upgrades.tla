------------------------------- MODULE Upgrades -------------------------------
(***************************************************************************)
(* The opening of a store of any age (Store::open and migrate in           *)
(* src/src/store.rs): every migration is replayed on every open, each      *)
(* statement a transaction of its own but for the numbering of the         *)
(* sources, while other processes open the same file, write and scan it.   *)
(*                                                                         *)
(* One column stands for the columns added together, and one stream of     *)
(* sources for the five, of which the scans keep one position.  A build    *)
(* from before the numbering scans by SQLite's rowid, which is given out   *)
(* again after a deletion.  Nothing leaves the file, so that statements    *)
(* whose effect is there are passed over at once.                          *)
(* A definition marked "Slip" is the next one with a mistake in it.        *)
(***************************************************************************)
EXTENDS Integers, Sequences, SequencesExt, FiniteSetsExt

CONSTANTS
    Openers,        \* processes
    Sources,        \* rows the scheduler reads
    Ages,           \* migrations the builds before this one had
    MaxInserts,     \* bound on rows ever inserted
    MaxFailures     \* bound on locks that stay held, full disks and kills

\* The statements of migrate, in order.
Script == <<"init", "refs", "meta", "runs", "ledger", "trust", "procedures", "lifecycle", "temporal",
            "bundles", "proposals", "frontier", "rowids", "sequence", "applied", "instance", "fts">>
Steps == ToSet(Script)

\* The migration each came with.
Since == [s \in Steps |->
    CASE s \in {"init", "meta"} -> 1 [] s = "fts" -> 2 [] s = "runs" -> 3 [] s = "ledger" -> 4
      [] s = "refs" -> 5 [] s = "trust" -> 6 [] s = "procedures" -> 7 [] s = "lifecycle" -> 8
      [] s = "temporal" -> 10 [] s \in {"bundles", "instance"} -> 12 [] s \in {"proposals", "applied"} -> 13
      [] s \in {"frontier", "sequence"} -> 14 [] s = "rowids" -> 15]

\* Without which it fails.
Needs == [s \in Steps |->
    CASE s \in {"init", "meta", "runs", "ledger", "procedures", "bundles", "proposals", "frontier"} -> {}
      [] s \in {"refs", "temporal", "sequence", "fts"} -> {"init"}
      [] s = "trust" -> {"init", "ledger"} [] s = "lifecycle" -> {"procedures"}
      [] s = "rowids" -> {"init", "meta", "runs"} [] s = "applied" -> {"proposals"}
      [] s = "instance" -> {"bundles"}]

\* Looked for, and added in a second statement that fails when it is there.
Added == {"refs", "trust", "lifecycle", "temporal", "sequence", "applied", "instance"}

ASSUME UpgradesAssumption == Ages \subseteq 0 .. 15 /\ MaxInserts \in Nat /\ MaxFailures \in Nat

VARIABLES
    file,       \* the statements whose effect is in the file
    rows,       \* the rowid of each source, or the number it was given; 0 when there is none
    counter,    \* scheduler_source_rowid_counter
    cursor,     \* the position of the last scan
    inserts,    \* how many rows have ever been inserted
    passed,     \* numbered rows that came in where scans had already been
    openers, failures

upgradeVars == <<file, rows, counter, cursor, inserts, passed, openers, failures>>

Stored == {k \in Sources : rows[k] # 0}
Furthest == Max({0} \cup {rows[k] : k \in Stored})
Numbered == "rowids" \in file

UpgradesInit ==
    /\ \E v \in Ages : file = {s \in Steps : Since[s] <= v}
    /\ rows = [k \in Sources |-> 0] /\ counter = 0 /\ cursor = 0 /\ inserts = 0 /\ passed = {}
    /\ openers = [o \in Openers |-> [pc |-> 0, adding |-> FALSE, crowded |-> FALSE]]
    /\ failures = 0
----------------------------------------------------------------------------
(* migrate *)

Closed == 0
Open == Len(Script) + 1
Failed == Open + 1
Opening(o) == openers[o].pc \in 1 .. Len(Script)
StandsAt(o, steps) == Opening(o) /\ Script[openers[o].pc] \in steps
StepOf(o) == Script[openers[o].pc]

\* Slip: a column that is there is added once more.
MissingAlways(s, f) == s \in Steps

\* ensure_column, ensure_instance_metadata: what is looked for.
IsMissing(s, f) == s \notin f

\* The next statement that does something to file f; the last is always tried.
Pending(i, f) ==
    Min({j \in i .. Len(Script) :
            \/ j = Len(Script)
            \/ IF Script[j] \in Added THEN IsMissing(Script[j], f) ELSE Script[j] \notin f})

Go(o, pc, adding) == openers' = [openers EXCEPT ![o] = [pc |-> pc, adding |-> adding, crowded |-> @.crowded]]
Goes(o) == Go(o, Pending(openers[o].pc + 1, file'), FALSE)
Fails(o) == Go(o, Failed, FALSE)
SourcesStay == UNCHANGED <<rows, counter, cursor, inserts, passed>>

\* Store::open; who opens meanwhile, or meets another who does, may be in the way.
Begin(o) ==
    /\ openers[o].pc \in {Closed, Failed, Open}
    /\ LET others == {x \in Openers : Opening(x)}
       IN  openers' = [x \in Openers |->
               IF x = o THEN [pc |-> Pending(1, file), adding |-> FALSE, crowded |-> others # {}]
               ELSE IF x \in others THEN [openers[x] EXCEPT !.crowded = TRUE] ELSE openers[x]]
    /\ SourcesStay /\ UNCHANGED <<file, failures>>

\* execute_batch of what exists already does nothing.
RunScript(o) ==
    /\ StandsAt(o, Steps \ (Added \cup {"rowids", "fts"}))
    /\ IF Needs[StepOf(o)] \subseteq file THEN file' = file \cup {StepOf(o)} /\ Goes(o)
       ELSE UNCHANGED file /\ Fails(o)
    /\ SourcesStay /\ UNCHANGED failures

LookFor(o) ==
    /\ StandsAt(o, Added) /\ ~openers[o].adding
    /\ SourcesStay /\ UNCHANGED <<file, failures>>
    /\ IF IsMissing(StepOf(o), file) THEN Go(o, openers[o].pc, TRUE) ELSE Goes(o)

\* ALTER TABLE, or INSERT under a primary key.
Add(o) ==
    /\ StandsAt(o, Added) /\ openers[o].adding
    /\ IF StepOf(o) \notin file /\ Needs[StepOf(o)] \subseteq file
       THEN file' = file \cup {StepOf(o)} /\ Goes(o)
       ELSE UNCHANGED file /\ Fails(o)
    /\ SourcesStay /\ UNCHANGED failures

\* Slip: the counter starts from the rows that are there.
SeededByRows == Furthest

\* The counter starts past every row, and past what any saved cursor has seen.
Seeded == Max({Furthest, cursor})

\* migrate_scheduler_source_rowids, one transaction: rows keep their rowid as their number.
NumberRows(o) ==
    /\ StandsAt(o, {"rowids"})
    /\ IF Numbered THEN UNCHANGED <<file, counter>> /\ Goes(o)
       ELSE IF Needs["rowids"] \subseteq file
       THEN file' = file \cup {"rowids"} /\ counter' = Seeded /\ Goes(o)
       ELSE UNCHANGED <<file, counter>> /\ Fails(o)
    /\ UNCHANGED <<rows, cursor, inserts, passed, failures>>

\* The probe for FTS5: without it, the store is searched otherwise.
Probe(o) ==
    /\ StandsAt(o, {"fts"})
    /\ file' \in {file, file \cup {"fts"}}
    /\ Go(o, Open, FALSE)
    /\ SourcesStay /\ UNCHANGED failures

Breaks(o) ==
    /\ Opening(o) /\ failures < MaxFailures /\ failures' = failures + 1
    /\ Go(o, Closed, FALSE)
    /\ SourcesStay /\ UNCHANGED file

----------------------------------------------------------------------------
(* Writes and scans meanwhile, of this build or an earlier one *)

\* A row takes SQLite's next rowid; once there are triggers, the next number.
Insert(k) ==
    /\ "init" \in file /\ rows[k] = 0 /\ inserts < MaxInserts /\ inserts' = inserts + 1
    /\ LET at == IF Numbered THEN counter + 1 ELSE Furthest + 1
       IN  /\ rows' = [rows EXCEPT ![k] = at]
           /\ counter' = IF Numbered THEN at ELSE counter
           /\ passed' = IF Numbered /\ at <= cursor THEN passed \cup {k} ELSE passed
    /\ UNCHANGED <<file, cursor, openers, failures>>

Delete(k) ==
    /\ rows[k] # 0
    /\ rows' = [rows EXCEPT ![k] = 0] /\ passed' = passed \ {k}
    /\ UNCHANGED <<file, counter, cursor, inserts, openers, failures>>

\* A scan saves the last position it has seen.
Scan ==
    /\ "runs" \in file /\ cursor' = Max({cursor, Furthest})
    /\ UNCHANGED <<file, rows, counter, inserts, passed, openers, failures>>

UpgradesNext ==
    \/ \E o \in Openers : \/ Begin(o) \/ RunScript(o) \/ LookFor(o) \/ Add(o) \/ NumberRows(o) \/ Probe(o)
                          \/ Breaks(o)
    \/ \E k \in Sources : Insert(k) \/ Delete(k)
    \/ Scan

UpgradesSpec == UpgradesInit /\ [][UpgradesNext]_upgradeVars
----------------------------------------------------------------------------
(* What the opening of a store promises ("Idempotent", store.rs:1637). *)

\* The state stays within its types.
UpgradesTypeOK ==
    /\ file \subseteq Steps
    /\ rows \in [Sources -> Nat] /\ inserts \in 0 .. MaxInserts
    /\ counter \in Nat /\ cursor \in Nat /\ passed \subseteq Sources
    /\ openers \in [Openers -> [pc: 0 .. Failed, adding: BOOLEAN, crowded: BOOLEAN]]
    /\ failures \in 0 .. MaxFailures

\* A store that is open lacks nothing, however old it was and wherever earlier openings were cut off,
\* and has kept its name; only full-text search may be missing.
OpenIsComplete ==
    \A o \in Openers : openers[o].pc = Open => Steps \ {"fts"} \subseteq file

\* An opening that nobody else's came across does not fail of itself.
AloneOpens == \A o \in Openers : openers[o].pc = Failed => openers[o].crowded

\* "concurrent inserts cannot receive IDs below an already-persisted cursor", and no two rows have one.
NumbersAreFresh ==
    /\ passed = {}
    /\ Numbered => \A k, l \in Stored : rows[k] <= counter /\ (rows[k] = rows[l] => k = l)

UpgradesAreWhole == OpenIsComplete /\ AloneOpens /\ NumbersAreFresh
=============================================================================
