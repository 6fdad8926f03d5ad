-------------------------- MODULE PortableBundles --------------------------
(***************************************************************************)
(* Bundles of memories between stores (src/src/portable_bundle.rs): a      *)
(* store exports memories with the sources they rest on under references   *)
(* that travel; an importer looks at a plan first and applies it later, in *)
(* one transaction, if the plan is still the same.  In between the stores  *)
(* are edited, and bundles come back to where their memories came from.    *)
(*                                                                         *)
(* A body stands for its digest; a content hash is the text, a source's    *)
(* key its path and hash.  One workspace of one profile on either side.    *)
(* Left out: subjects and episodes, which no operation of the program      *)
(* attaches to a record; ledger entries, inserted or ignored by their key; *)
(* the rules that keep memories out of a bundle, other profiles, and the   *)
(* checks of the file's form, which only refuse.                           *)
(* A definition marked "Slip" is the next one with a mistake in it.        *)
(***************************************************************************)
EXTENDS Integers, Sequences, FiniteSets, SequencesExt

CONSTANTS
    Instances,      \* stores
    Texts,          \* contents of memories
    Sources,        \* paths and hashes of sources
    RestsOn,        \* the sources a text comes from
    Gone,           \* no object
    MaxIds, MaxBundles, MaxEdits    \* bounds

ASSUME PortableBundlesAssumption ==
    /\ MaxIds \in Nat \ {0} /\ MaxBundles \in Nat /\ MaxEdits \in Nat
    /\ Texts \cap Sources = {} /\ Gone \notin Texts \cup Sources
    /\ RestsOn \in [Texts -> SUBSET Sources] /\ \A text \in Texts : IsFiniteSet(RestsOn[text])

VARIABLES
    objects,        \* of each store: memories and sources by their id
    origins,        \* of each store: what references it has imported became
    receipts,       \* of each store: the bundles it has applied
    bundles,        \* exported files
    import,         \* what an operator imports: the plan shown, what became of it
    made, edits     \* ids given and edits so far

bundleVars == <<objects, origins, receipts, bundles, import, made, edits>>

Ids == 1 .. MaxIds
Refs == [at: Instances, id: Ids]

Absent == [key |-> Gone]
NoImport == [pc |-> "idle"]

\* born stands for the times and tags a record is created with, edited for its update.
NewObject(i, n, key, from, over) ==
    [key |-> key, born |-> [at |-> i, id |-> n], edited |-> 0, current |-> TRUE,
     from |-> from, over |-> over, by |-> {}, ext |-> {}]

\* Stores are empty, or one has a source left whose memory was erased.
BundlesInit ==
    /\ made \in {0, 1}
    /\ \E home \in Instances, s \in Sources :
          objects = [i \in Instances |-> [n \in Ids |->
              IF i = home /\ n <= made THEN NewObject(i, n, s, {}, {}) ELSE Absent]]
    /\ origins = [i \in Instances |-> << >>]
    /\ receipts = [i \in Instances |-> {}]
    /\ bundles = << >> /\ import = NoImport
    /\ edits = 0

Held(i) == {n \in Ids : objects[i][n].key # Gone}
Memories(i) == {n \in Held(i) : objects[i][n].key \in Texts}
Keyed(i, key) == {n \in Held(i) : objects[i][n].key = key}
Linked(o) == o.over # {} \/ o.by # {}
----------------------------------------------------------------------------
(* Export *)

Own(i, n) == [at |-> i, id |-> n]
OriginsOf(i, n) == {r \in DOMAIN origins[i] : origins[i][r].local = n}

\* Slip: an imported object keeps its reference whatever has become of it.
RefOfAny(i, n, body) == IF OriginsOf(i, n) = {} THEN Own(i, n) ELSE CHOOSE r \in OriginsOf(i, n) : TRUE

\* choose_export_ref: the reference it was imported under, if it is still the same.
RefOf(i, n, body) ==
    LET same == {r \in OriginsOf(i, n) : origins[i][r].body = body}
    IN  IF same = {} THEN Own(i, n) ELSE CHOOSE r \in same : TRUE

\* preferred_export_ref: under which links to a selected memory refer to it.
Preferred(i, n) == IF OriginsOf(i, n) = {} THEN Own(i, n) ELSE CHOOSE r \in OriginsOf(i, n) : TRUE

SourceBody(i, n) == objects[i][n]
SourceRef(i, n) == RefOf(i, n, SourceBody(i, n))

\* memory_body: links to memories that are not selected become inert.
MemoryBody(i, n, M) ==
    LET o == objects[i][n]
        ToRefs(L) == {Preferred(i, l) : l \in L \cap M}
    IN  [o EXCEPT !.from = {SourceRef(i, s) : s \in o.from},
                  !.over = ToRefs(o.over), !.by = ToRefs(o.by),
                  !.ext = o.ext \cup {Own(i, l) : l \in (o.over \cup o.by) \ M}]

Envelope(ref, aliases, body) == [ref |-> ref, names |-> {ref} \cup aliases, body |-> body]

SourceEnvelope(i, n) == Envelope(SourceRef(i, n), {}, SourceBody(i, n))

\* Slip: a memory that has changed loses the name that links to it use.
MemoryEnvelopeOnce(i, n, M) ==
    LET body == MemoryBody(i, n, M) IN Envelope(RefOf(i, n, body), {}, body)

MemoryEnvelope(i, n, M) ==
    LET body == MemoryBody(i, n, M) IN Envelope(RefOf(i, n, body), {Preferred(i, n)}, body)

\* build_export_payload: the selected memories and the sources they rest on.
Payload(i, M) ==
    [by |-> i,
     sources |-> {SourceEnvelope(i, s) : s \in UNION {objects[i][n].from : n \in M}},
     memories |-> {MemoryEnvelope(i, n, M) : n \in M}]

Carried(b) == b.sources \cup b.memories
NamesIn(b) == UNION {e.names : e \in Carried(b)}

\* validate_payload_objects: no name twice, ...
NamesAreUnique(b) == \A e, f \in Carried(b) : e # f => e.names \cap f.names = {}

\* ... validate_reference_present: what is referred to is there or known to be elsewhere, ...
NothingDangles(b) ==
    \A e \in b.memories : e.body.from \cup e.body.over \cup e.body.by \subseteq NamesIn(b) \cup e.body.ext

\* ... validate_external_refs: and what is elsewhere is not there.
NothingIsBothHereAndElsewhere(b) == \A e \in b.memories : e.body.ext \cap NamesIn(b) = {}

\* read_bundle_from_reader
Readable(b) == NamesAreUnique(b) /\ NothingDangles(b) /\ NothingIsBothHereAndElsewhere(b)

\* export_write: the file is published once it has been read back.
Export(i, M) ==
    /\ Len(bundles) < MaxBundles /\ M # {} /\ M \subseteq Memories(i)
    /\ Readable(Payload(i, M))
    /\ bundles' = Append(bundles, Payload(i, M))
    /\ UNCHANGED <<objects, origins, receipts, import, made, edits>>
----------------------------------------------------------------------------
(* What an import would do *)

Decision(what, to) == [what |-> what, to |-> to]
Create == Decision("create", 0)
Conflict(to) == Decision("conflict", to)
Reuse(to) == Decision("reuse", to)

\* lookup_origin
Mapped(i, r) == origins[i][r].local
Unchanged(i, e) == origins[i][e.ref].body = e.body

\* plan_source
DecideSource(i, e) ==
    IF e.ref \in DOMAIN origins[i]
    THEN IF Unchanged(i, e) THEN Reuse(Mapped(i, e.ref)) ELSE Conflict(Mapped(i, e.ref))
    ELSE IF Keyed(i, e.body.key) # {} THEN Reuse(CHOOSE n \in Keyed(i, e.body.key) : TRUE)
    ELSE Create

\* The local ids a plan knows for references.
Known(i, b) ==
    LET found == {e \in b.sources : DecideSource(i, e).to # 0}
    IN  [r \in {e.ref : e \in found} |-> DecideSource(i, CHOOSE e \in found : e.ref = r).to]

Translated(map, refs) == {map[r] : r \in refs \cap DOMAIN map}

\* memory_graph_matches
Matches(o, e, map) ==
    /\ o.key # Gone
    /\ o.current = e.body.current
    /\ o.from = Translated(map, e.body.from)
    /\ ~Linked(o) /\ ~Linked(e.body)

\* What an import knows of a memory it has imported before.
DecideMapped(i, b, e) ==
    LET n == Mapped(i, e.ref)
    IN  IF Unchanged(i, e) /\ Matches(objects[i][n], e, Known(i, b)) THEN Reuse(n) ELSE Conflict(n)

\* Slip: what is there under another reference is not looked for.
DecideMemoryByOrigin(i, b, e) ==
    IF e.ref \in DOMAIN origins[i] THEN DecideMapped(i, b, e) ELSE Create

\* plan_memory
DecideMemory(i, b, e) ==
    IF e.ref \in DOMAIN origins[i] THEN DecideMapped(i, b, e)
    ELSE IF Keyed(i, e.body.key) # {}
    THEN LET n == CHOOSE n \in Keyed(i, e.body.key) : TRUE
         IN  IF Matches(objects[i][n], e, Known(i, b)) THEN Reuse(n) ELSE Conflict(n)
    ELSE Create

\* plan_import.  The decisions, with the ids they name, are the plan's identity.
Plan(i, b) ==
    [e \in Carried(b) |->
        IF e \in b.sources THEN DecideSource(i, e) ELSE DecideMemory(i, b, e)]

Safe(plan) == \A e \in DOMAIN plan : plan[e].what # "conflict"
----------------------------------------------------------------------------
(* The two calls of an import *)

\* import_preview
PreviewImport(i, b) ==
    /\ import.pc # "shown"
    /\ import' = [pc |-> "shown", at |-> i, bundle |-> b, plan |-> Plan(i, bundles[b])]
    /\ UNCHANGED <<objects, origins, receipts, bundles, made, edits>>

Answer(result) == import' = [pc |-> result]

\* Where every object of a plan ends up: new ones under the next ids.
Placed(plan) ==
    LET new == SetToSeq({e \in DOMAIN plan : plan[e].what = "create"})
    IN  [e \in DOMAIN plan |-> IF plan[e].what = "create"
                               THEN made + (CHOOSE k \in DOMAIN new : new[k] = e)
                               ELSE plan[e].to]

IdsByName(placed) ==
    LET names == UNION {e.names : e \in DOMAIN placed}
    IN  [r \in names |-> placed[CHOOSE e \in DOMAIN placed : r \in e.names]]

\* Slip: names are learnt as the objects are inserted.
NamesBefore(at, e) == IdsByName([f \in {g \in DOMAIN at : at[g] <= at[e]} |-> at[f]])

\* The names a record may refer to: those of all objects of the bundle.
NamesFor(at, e) == IdsByName(at)

\* memory_record_from_body
Localised(body, map) ==
    [body EXCEPT !.from = Translated(map, body.from),
                 !.over = Translated(map, body.over), !.by = Translated(map, body.by)]

\* apply_plan, and insert_receipt, in the transaction of import_apply.
Carry(i, b, plan) ==
    LET at == Placed(plan)
        new == {e \in DOMAIN plan : plan[e].what = "create"}
        unmapped == {e \in DOMAIN plan : e.ref \notin DOMAIN origins[i]}
        Envelopes(n) == {e \in new : at[e] = n}
    IN  /\ made + Cardinality(new) <= MaxIds
        /\ made' = made + Cardinality(new)
        /\ objects' = [objects EXCEPT ![i] = [n \in Ids |->
               IF Envelopes(n) = {} THEN @[n]
               ELSE LET e == CHOOSE e \in Envelopes(n) : TRUE IN Localised(e.body, NamesFor(at, e))]]
        /\ origins' = [origins EXCEPT ![i] = [r \in DOMAIN @ \cup {e.ref : e \in unmapped} |->
               IF r \in DOMAIN @ THEN @[r]
               ELSE LET e == CHOOSE e \in unmapped : e.ref = r
                    IN  [local |-> at[e], body |-> e.body]]]
        /\ receipts' = [receipts EXCEPT ![i] = @ \cup {b}]

\* Slip: the plan of before is applied as it stands.
HoldsAlways(shown, now) == Safe(shown)
Holds(shown, now) == shown = now /\ Safe(now)

\* Slip: no receipt is asked for.
RepeatedNever(i, b) == FALSE
\* lookup_receipt
Repeated(i, b) == b \in receipts[i]

\* import_apply
ApplyImport ==
    /\ import.pc = "shown"
    /\ LET i == import.at
           b == import.bundle
       IN  IF Repeated(i, b)
           THEN Answer("repeated") /\ UNCHANGED <<objects, origins, receipts, made>>
           ELSE IF Holds(import.plan, Plan(i, bundles[b]))
           THEN Answer("applied") /\ Carry(i, b, import.plan)
           ELSE Answer("refused") /\ UNCHANGED <<objects, origins, receipts, made>>
    /\ UNCHANGED <<bundles, edits>>
----------------------------------------------------------------------------
(* The stores' own life *)

\* A new memory, with the sources it rests on, each stored once.
Remember(i, text) ==
    /\ Keyed(i, text) = {}
    /\ LET there == UNION {Keyed(i, s) : s \in RestsOn[text]}
           new == SetToSeq({s \in RestsOn[text] : Keyed(i, s) = {}})
           m == made + Len(new) + 1
       IN  /\ m <= MaxIds
           /\ made' = m
           /\ objects' = [objects EXCEPT ![i] = [n \in Ids |->
                  IF n = m THEN NewObject(i, m, text, there \cup ((made + 1) .. (m - 1)), {})
                  ELSE IF n \in (made + 1) .. (m - 1) THEN NewObject(i, n, new[n - made], {}, {})
                  ELSE @[n]]]
    /\ UNCHANGED <<origins, receipts, bundles, import, edits>>

\* A memory that supersedes another (Consolidation).
Supersede(i, old, text) ==
    /\ old \in Memories(i) /\ objects[i][old].current /\ Keyed(i, text) = {}
    /\ made < MaxIds /\ edits < MaxEdits
    /\ made' = made + 1 /\ edits' = edits + 1
    /\ objects' = [objects EXCEPT
           ![i][old] = [@ EXCEPT !.current = FALSE, !.by = {made + 1}, !.edited = edits + 1],
           ![i][made + 1] = NewObject(i, made + 1, text, {}, {old})]
    /\ UNCHANGED <<origins, receipts, bundles, import>>

\* Archiving, tags, patches: anything that is updated and leaves the text.
Touch(i, m) ==
    /\ m \in Memories(i) /\ edits < MaxEdits
    /\ objects' = [objects EXCEPT ![i][m].edited = edits + 1]
    /\ edits' = edits + 1
    /\ UNCHANGED <<origins, receipts, bundles, import, made>>

\* delete_records
Erase(i, m) ==
    /\ m \in Memories(i) /\ edits < MaxEdits
    /\ objects' = [objects EXCEPT ![i][m] = Absent]
    /\ edits' = edits + 1
    /\ UNCHANGED <<origins, receipts, bundles, import, made>>

BundlesNext ==
    \/ \E i \in Instances :
          \/ \E M \in SUBSET Memories(i) : Export(i, M)
          \/ \E b \in DOMAIN bundles : PreviewImport(i, b)
          \/ \E text \in Texts : Remember(i, text)
          \/ \E m \in Ids : Touch(i, m) \/ Erase(i, m) \/ \E text \in Texts : Supersede(i, m, text)
    \/ ApplyImport

BundlesSpec == BundlesInit /\ [][BundlesNext]_bundleVars
=============================================================================
