------------------------------- MODULE PccReplay -------------------------------
(***************************************************************************)
(* The replay of captured sessions from another program                    *)
(* (src/src/pcc_import.rs): one stream of lines is consumed, nothing is    *)
(* stored, and the receipt carries a cursor and keys for the next call.    *)
(*                                                                         *)
(* The producer hands out a stream for every cursor; a file may hold less  *)
(* or more of it.  The caller keeps the receipts, and may lose one.  A     *)
(* digest is the value it digests; of the checks on a record the model     *)
(* keeps whether it is well formed and belongs here, and whether the       *)
(* policy accepts it.                                                      *)
(* A definition marked "Slip" is the next one with a mistake in it.        *)
(***************************************************************************)
EXTENDS Integers, Sequences, SequencesExt, FiniteSets

CONSTANTS
    Streams,            \* what the producer hands out for a cursor
    NoCursor,           \* no cursor: from the beginning
    MostLines, MostRecords, MostKeys,   \* MAX_LINES, MAX_RECORDS, MAX_REPORT_KEYS
    MaxFiles, MaxLost   \* bounds on calls, and on receipts that are lost

Cursors == DOMAIN Streams
LinesOf(c) == {Streams[c][n] : n \in DOMAIN Streams[c]}
LeadsTo(c) == {l.next : l \in {x \in LinesOf(c) : x.type = "summary"}}

ASSUME PccAssumption ==
    /\ NoCursor \in Cursors /\ IsFiniteSet(Cursors)
    /\ {MostLines, MostRecords, MostKeys} \subseteq Nat /\ MostRecords <= MostKeys
    /\ MaxFiles \in Nat /\ MaxLost \in Nat

\* What the producer hands out ends with its only summary, which leads on to a cursor that no other
\* stream leads to, or to none.
ASSUME ProducerAssumption ==
    \A c \in Cursors :
        /\ Streams[c] \in Seq(LinesOf(c)) /\ Streams[c] # <<>>
        /\ \A l \in LinesOf(c) : l.type \in {"record", "quarantine", "summary"}
        /\ \A n \in DOMAIN Streams[c] : Streams[c][n].type = "summary" <=> n = Len(Streams[c])
        /\ LeadsTo(c) \subseteq Cursors
        /\ \A b \in Cursors : LeadsTo(b) \cap LeadsTo(c) \subseteq {NoCursor} \/ b = c

VARIABLES
    at,         \* the cursor the caller passes
    seen,       \* the keys the caller passes
    receipt,    \* what the last call has answered, and from where it went
    read, lost

pccVars == <<at, seen, receipt, read, lost>>

NoReceipt == [from |-> NoCursor, to |-> NoCursor, keys |-> <<>>, known |-> {}, skipped |-> 0, reasons |-> {},
              all |-> 0, theirs |-> 0]

PccInit == at = NoCursor /\ seen = {} /\ receipt = NoReceipt /\ read = 0 /\ lost = 0
----------------------------------------------------------------------------
(* One line; st: Report and the variables of run_reader *)

Start(keys) == [ended |-> FALSE, lines |-> 0, records |-> 0, seen |-> keys, keys |-> <<>>, skipped |-> 0,
                all |-> 0, theirs |-> 0, indexes |-> {}, reasons |-> {}, summed |-> FALSE, next |-> {}]

\* quarantine
Quarantine(st, reason) == [st EXCEPT !.all = @ + 1, !.reasons = @ \cup {reason}]

\* Slip: one key fewer is reported.
ReportFewer(st, key) == IF Len(st.keys) + 1 < MostKeys THEN Append(st.keys, key) ELSE st.keys

\* No more keys than MAX_REPORT_KEYS are reported.
Reported(st, key) == IF Len(st.keys) < MostKeys THEN Append(st.keys, key) ELSE st.keys

\* consume_record; one that was seen is skipped.
ConsumeRecord(st, l) ==
    LET now == [st EXCEPT !.records = @ + 1, !.indexes = @ \cup {l.index}]
    IN  CASE now.records > MostRecords -> [Quarantine(now, "record-limit") EXCEPT !.ended = TRUE]
          [] now.records <= MostRecords /\ ~l.ours -> Quarantine(now, "profile-mismatch")
          [] now.records <= MostRecords /\ l.ours /\ ~l.safe -> Quarantine(now, "policy-denied")
          [] OTHER -> IF l.key \in now.seen THEN [now EXCEPT !.skipped = @ + 1]
                      ELSE [now EXCEPT !.seen = @ \cup {l.key}, !.keys = Reported(now, l.key)]

\* consume_quarantine: what the producer keeps back.
ConsumeQuarantine(st, l) ==
    IF ~l.ours THEN Quarantine(st, "quarantine-invalid")
    ELSE [Quarantine(st, l.reason) EXCEPT !.theirs = @ + 1, !.indexes = @ \cup {l.index}]

\* consume_summary: the counts have to agree.
ConsumeSummary(st, l) ==
    LET now == [st EXCEPT !.summed = TRUE]
    IN  CASE st.records = 0 /\ st.theirs = 0 -> Quarantine(now, "summary-no-scope")
          [] st.records + st.theirs > 0 /\ <<l.records, l.theirs, l.indexes>>
                                             # <<st.records, st.theirs, Cardinality(st.indexes)>>
                -> Quarantine(now, "summary-mismatch")
          [] OTHER -> [now EXCEPT !.next = {l.next}]

\* run_reader, one turn of its loop; an endless line is one that is too long.
Consume(st, l) ==
    CASE st.ended -> st
      [] ~st.ended /\ st.lines >= MostLines -> [Quarantine(st, "input-limit") EXCEPT !.ended = TRUE]
      [] OTHER ->
            LET now == [st EXCEPT !.lines = @ + 1]
            IN  CASE l.type = "endless" -> [Quarantine(now, "line-too-large") EXCEPT !.ended = TRUE]
                  [] l.type = "garbled" -> Quarantine(now, "invalid-json")
                  [] l.type \notin {"endless", "garbled"} /\ st.summed -> Quarantine(now, "trailing-after-summary")
                  [] l.type = "record" /\ ~st.summed -> ConsumeRecord(now, l)
                  [] l.type = "quarantine" /\ ~st.summed -> ConsumeQuarantine(now, l)
                  [] l.type = "summary" /\ ~st.summed -> ConsumeSummary(now, l)

\* The whole file, line by line.
ReadThrough(keys, file) ==
    LET st[n \in 0 .. Len(file)] == IF n = 0 THEN Start(keys) ELSE Consume(st[n - 1], file[n])
    IN  st[Len(file)]
----------------------------------------------------------------------------
(* Calls *)

\* Slip: a summary is enough.
CleanOnceSummed(st) == st.summed /\ st.next # {}

\* Only a stream that was read to its end without fault moves the cursor.
Clean(st) == ~st.ended /\ st.summed /\ st.next # {} /\ st.all = st.theirs

\* run_reader, after its loop: the receipt.
ReceiptFor(st) ==
    LET told == IF st.ended \/ st.next = {} THEN Quarantine(st, "missing-summary") ELSE st
        next == IF Clean(told) THEN CHOOSE c \in told.next : TRUE ELSE at
        same == Clean(told) /\ next = at /\ next # NoCursor
        last == IF same THEN Quarantine(told, "cursor-unchanged") ELSE told
    IN  [from |-> at, to |-> next, keys |-> last.keys, known |-> seen, skipped |-> last.skipped,
         reasons |-> last.reasons, all |-> last.all, theirs |-> last.theirs]

\* The file at hand: the stream, the beginning of it with a torn or an endless line or not, it twice over,
\* or with another one after it.
FilesOf(stream) ==
    {stream, stream \o stream} \cup {SubSeq(stream, 1, n) : n \in 0 .. Len(stream)}
        \cup {Append(SubSeq(stream, 1, n), [type |-> "garbled"]) : n \in 0 .. Len(stream) - 1}
        \cup {Append(SubSeq(stream, 1, n), [type |-> "endless"]) : n \in 0 .. Len(stream) - 1}
        \cup {stream \o Streams[c] : c \in Cursors}

\* run: the caller keeps the receipt.
Replay(file) ==
    /\ read < MaxFiles /\ read' = read + 1
    /\ receipt' = ReceiptFor(ReadThrough(seen, file))
    /\ at' = receipt'.to /\ seen' = seen \cup ToSet(receipt'.keys)
    /\ UNCHANGED lost

\* The caller stops before it has noted what the call answered.
ReplayLost(file) ==
    /\ read < MaxFiles /\ read' = read + 1 /\ lost < MaxLost /\ lost' = lost + 1
    /\ receipt' = ReceiptFor(ReadThrough(seen, file))
    /\ UNCHANGED <<at, seen>>

\* The stream asked for, or the first one again.
PccNext == \E c \in {at, NoCursor} : \E file \in FilesOf(Streams[c]) : Replay(file) \/ ReplayLost(file)

PccSpec == PccInit /\ [][PccNext]_pccVars
----------------------------------------------------------------------------
(* What the receipts of a replay promise the one who carries them *)
(* (README.md, "Josh Room PCC replay import"). *)

RecordsOf(c) == {l \in LinesOf(c) : l.type = "record"}
KeysOf(c) == {l.key : l \in RecordsOf(c)}

\* The state stays within its types.
PccTypeOK ==
    /\ at \in Cursors /\ seen \subseteq UNION {KeysOf(c) : c \in Cursors}
    /\ receipt.from \in Cursors /\ receipt.to \in Cursors /\ receipt.known \subseteq seen \cup receipt.known
    /\ ToSet(receipt.keys) \subseteq UNION {KeysOf(c) : c \in Cursors}
    /\ receipt.skipped \in Nat /\ receipt.theirs \in 0 .. receipt.all
    /\ read \in 0 .. MaxFiles /\ lost \in 0 .. MaxLost

\* The streams on the way from the beginning to a cursor.
Before(c) ==
    LET back[n \in 0 .. Cardinality(Cursors)] ==
            IF n = 0 THEN {b \in Cursors : c \in LeadsTo(b)} ELSE
                back[n - 1] \cup {b \in Cursors : LeadsTo(b) \cap (back[n - 1] \ {NoCursor}) # {}}
    IN  back[Cardinality(Cursors)]

\* Whatever files were read, and read again, on the way to a cursor, the caller has the key of every record
\* that lies before it, and none of them is one this store may not have.
PassedIsImported ==
    at # NoCursor => \A c \in Before(at) :
        KeysOf(c) \subseteq seen /\ \A l \in RecordsOf(c) : l.ours /\ l.safe

\* No record is imported twice under the keys the caller has.
ImportedOnceByKey == IsInjective(receipt.keys) /\ ToSet(receipt.keys) \cap receipt.known = {}

\* A cursor that stands still has a reason that is not the producer's.
StandingHasAReason == receipt.to = receipt.from /\ receipt.from # NoCursor => receipt.all > receipt.theirs

ReceiptsAreTrue == PassedIsImported /\ ImportedOnceByKey /\ StandingHasAReason
=============================================================================
