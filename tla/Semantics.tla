------------------------------- MODULE Semantics -------------------------------
(***************************************************************************)
(* Aliases and relations of subjects: their reviewed import                *)
(* (src/src/semantic_import.rs), one entry at a time and each write on its *)
(* own, the tables they go to, and the subjects reached over them          *)
(* (src/src/store.rs).                                                     *)
(*                                                                         *)
(* Subjects, aliases and relations are only ever added.  An entry is       *)
(* complete or it is not; which field it lacks, its evidence and the       *)
(* records of the subjects reached are left out.  A preview reads at one    *)
(* moment.                                                                 *)
(* A definition marked "Slip" is the next one with a mistake in it.        *)
(***************************************************************************)
EXTENDS Integers, Sequences, SequencesExt, FiniteSets

CONSTANTS
    Curators,           \* who imports, at the same time
    Beings, RealmOf, KeyOf,     \* subjects, with their profile and workspace, and their subject_key
    FirstBeings,        \* there from the beginning
    Aliases,            \* other names
    SemanticFiles,      \* files to import: a realm and entries
    Unnamed,            \* no subject
    MostReached,        \* 64
    MaxReads, MaxStopped    \* bounds on imports, and on imports that are killed

Realms == {RealmOf[s] : s \in Beings}
ASSUME SemanticsAssumption ==
    /\ Unnamed \notin Beings /\ FirstBeings \subseteq Beings /\ IsFiniteSet(Beings)
    /\ MostReached \in Nat \ {0} /\ MaxReads \in Nat /\ MaxStopped \in Nat
    /\ \A f \in SemanticFiles : \A e \in ToSet(f.entries) :
          /\ e.complete \in BOOLEAN /\ e.kind \in {"alias", "relation"}
          /\ e.kind = "alias" => e.key \in Aliases

VARIABLES
    beings,     \* subjects
    aliases,    \* subject_aliases
    relations,  \* relations, all active
    reviews,    \* the imports under way, or the last of each curator
    reads, stopped

semanticVars == <<beings, aliases, relations, reviews, reads, stopped>>

NoReview == [pc |-> "none", realm |-> Unnamed, plan |-> {}, applied |-> {}, present |-> {},
             rejected |-> {}]

SemanticsInit ==
    /\ beings = FirstBeings /\ relations = {}
    /\ aliases = [r \in Realms |-> [k \in Aliases |-> Unnamed]]
    /\ reviews = [c \in Curators |-> NoReview] /\ reads = 0 /\ stopped = 0
----------------------------------------------------------------------------
(* Subjects *)

\* insert_or_get_subject: one subject of a key in a realm.
HasSubject(s) == \E t \in beings : RealmOf[t] = RealmOf[s] /\ KeyOf[t] = KeyOf[s]

\* create_subject
CreateSubject(s) ==
    /\ ~HasSubject(s)
    /\ beings' = beings \cup {s}
    /\ UNCHANGED <<aliases, relations, reviews, reads, stopped>>

\* subject_exists_in_scope
InScope(realm, s) == s \in beings /\ RealmOf[s] = realm
----------------------------------------------------------------------------
(* Imports *)

Tie(realm, e) == [realm |-> realm, from |-> e.from, type |-> e.type, to |-> e.to]

\* validate_aliases, validate_relations: what is to be done with an entry as things are now.
Verdict(realm, e) ==
    CASE ~e.complete -> "rejected"
      [] e.complete /\ e.kind = "alias" ->
            IF ~InScope(realm, e.to) THEN "rejected"
            ELSE IF aliases[realm][e.key] = Unnamed THEN "plan"
            ELSE IF aliases[realm][e.key] = e.to THEN "present" ELSE "rejected"
      [] e.complete /\ e.kind = "relation" ->
            IF ~(InScope(realm, e.from) /\ InScope(realm, e.to)) THEN "rejected"
            ELSE IF Tie(realm, e) \in relations THEN "present" ELSE "plan"

\* preview_semantic_import
PreviewEntries(c, f) ==
    LET Found(v) == {e \in ToSet(f.entries) : Verdict(f.realm, e) = v}
        places == {i \in DOMAIN f.entries : f.entries[i] \in Found("plan")}
    IN  /\ reviews[c].pc \in {"none", "done", "failed"} /\ reads < MaxReads /\ reads' = reads + 1
        /\ reviews' = [reviews EXCEPT ![c] =
               [NoReview EXCEPT !.pc = "write", !.realm = f.realm,
                                !.plan = {[at |-> i, entry |-> f.entries[i]] : i \in places},
                                !.present = Found("present"), !.rejected = Found("rejected")]]
        /\ UNCHANGED <<beings, aliases, relations, stopped>>

\* Slip: the last import has the name.
NamedAnew(realm, e) == [aliases EXCEPT ![realm][e.key] = e.to]

\* insert_or_get_subject_alias: DO NOTHING when the name is taken.
Named(realm, e) == [aliases EXCEPT ![realm][e.key] = IF @ = Unnamed THEN e.to ELSE @]

\* insert_or_get_relation: OR IGNORE under the unique index.
Related(realm, e) == relations \cup {Tie(realm, e)}

\* apply_semantic_import, in the order of the file: a name that was taken meanwhile, or earlier in
\* the file, ends it.
WriteEntry(c) == \E x \in reviews[c].plan :
    /\ reviews[c].pc = "write" /\ \A y \in reviews[c].plan : x.at <= y.at
    /\ LET e == x.entry
           realm == reviews[c].realm
           rest == [reviews[c] EXCEPT !.plan = @ \ {x}]
           Noted(new) == [rest EXCEPT !.applied = IF new THEN @ \cup {e} ELSE @,
                                     !.present = IF new THEN @ ELSE @ \cup {e}]
       IN  \/ /\ e.kind = "alias"
              /\ aliases' = Named(realm, e)
              /\ reviews' = [reviews EXCEPT ![c] =
                     IF aliases'[realm][e.key] # e.to THEN [rest EXCEPT !.pc = "failed"]
                     ELSE Noted(aliases' # aliases)]
              /\ UNCHANGED relations
           \/ /\ e.kind = "relation"
              /\ relations' = Related(realm, e)
              /\ reviews' = [reviews EXCEPT ![c] = Noted(relations' # relations)]
              /\ UNCHANGED aliases
    /\ UNCHANGED <<beings, reads, stopped>>

ReportReview(c) ==
    /\ reviews[c].pc = "write" /\ reviews[c].plan = {}
    /\ reviews' = [reviews EXCEPT ![c].pc = "done"]
    /\ UNCHANGED <<beings, aliases, relations, reads, stopped>>

KillReview(c) ==
    /\ reviews[c].pc = "write" /\ stopped < MaxStopped /\ stopped' = stopped + 1
    /\ reviews' = [reviews EXCEPT ![c] = NoReview]
    /\ UNCHANGED <<beings, aliases, relations, reads>>
----------------------------------------------------------------------------
(* Subjects reached over relations *)

\* In one realm, to subjects of that realm.
NextTo(realm, s) ==
    {r.to : r \in {x \in relations : x.realm = realm /\ x.from = s /\ InScope(realm, x.to)}}

\* One subject from the queue; st: the queue, those seen and those reached.
\* Slip: the limit is looked at too late.
VisitDeeper(st, realm, depth) ==
    LET at == Head(st.queue)
        new == IF at.depth > depth \/ Len(st.reached) >= MostReached THEN <<>>
               ELSE SetToSeq({[to |-> t, depth |-> at.depth + 1] : t \in NextTo(realm, at.to) \ st.seen})
    IN  [queue |-> Tail(st.queue) \o new, seen |-> st.seen \cup {n.to : n \in ToSet(new)},
         reached |-> st.reached \o new]

Visit(st, realm, depth) ==
    LET at == Head(st.queue)
        new == IF at.depth >= depth \/ Len(st.reached) >= MostReached THEN <<>>
               ELSE SetToSeq({[to |-> t, depth |-> at.depth + 1] : t \in NextTo(realm, at.to) \ st.seen})
    IN  [queue |-> Tail(st.queue) \o new, seen |-> st.seen \cup {n.to : n \in ToSet(new)},
         reached |-> st.reached \o new]

\* The visits one after the other, until the queue is empty: no subject is visited twice.
Visits(realm, seeds, depth) ==
    LET start == [queue |-> SetToSeq({[to |-> s, depth |-> 0] : s \in seeds}), seen |-> seeds,
                  reached |-> <<>>]
        after[n \in 0 .. Cardinality(Beings)] ==
            IF n = 0 THEN start
            ELSE IF after[n - 1].queue = <<>> THEN after[n - 1] ELSE Visit(after[n - 1], realm, depth)
    IN  after

\* relation_expanded_subjects: the depth is at least 1 and at most 3.
Reached(realm, seeds, most) ==
    LET depth == IF most < 1 THEN 1 ELSE IF most > 3 THEN 3 ELSE most
    IN  Visits(realm, seeds, depth)[Cardinality(Beings)].reached

SemanticsNext ==
    \/ \E s \in Beings : CreateSubject(s)
    \/ \E c \in Curators : \/ \E f \in SemanticFiles : PreviewEntries(c, f)
                           \/ WriteEntry(c) \/ ReportReview(c) \/ KillReview(c)

SemanticsSpec == SemanticsInit /\ [][SemanticsNext]_semanticVars
----------------------------------------------------------------------------
(* What aliases and relations promise (docs/semantic-layer.md). *)

EntriesOf(f) == ToSet(f.entries)
AllEntries == UNION {EntriesOf(f) : f \in SemanticFiles}

\* The state stays within its types.
SemanticsTypeOK ==
    /\ beings \subseteq Beings
    /\ aliases \in [Realms -> [Aliases -> Beings \cup {Unnamed}]]
    /\ relations \subseteq [realm: Realms, from: Beings, to: Beings,
                      type: {e.type : e \in {x \in AllEntries : x.kind = "relation"}}]
    /\ \A c \in Curators :
          /\ reviews[c].pc \in {"none", "write", "done", "failed"}
          /\ reviews[c].realm \in {f.realm : f \in SemanticFiles} \cup {Unnamed}
          /\ {x.entry : x \in reviews[c].plan} \cup reviews[c].applied
                \cup reviews[c].present \cup reviews[c].rejected \subseteq AllEntries
    /\ reads \in 0 .. MaxReads /\ stopped \in 0 .. MaxStopped

\* Whether the store says what the entry says.
Says(realm, e) ==
    IF e.kind = "alias" THEN aliases[realm][e.key] = e.to ELSE Tie(realm, e) \in relations

\* What an import reports as written or there already is so, and stays so whatever others import;
\* of two imports only one has written it.
ReportsHold ==
    /\ \A c \in Curators : \A e \in reviews[c].applied \cup reviews[c].present : Says(reviews[c].realm, e)
    /\ \A c, d \in Curators : c # d /\ reviews[c].realm = reviews[d].realm =>
           reviews[c].applied \cap reviews[d].applied = {}

\* "from_subject and to_subject must be in the same profile/workspace", and so must the subject of a name.
NothingLeavesItsRealm ==
    /\ \A r \in relations : InScope(r.realm, r.from) /\ InScope(r.realm, r.to)
    /\ \A realm \in Realms, k \in Aliases :
           aliases[realm][k] # Unnamed => InScope(realm, aliases[realm][k])

\* The subjects at the end of some walk of n steps, ...
Walks(realm, s) ==
    LET at[n \in 0 .. 3] == IF n = 0 THEN {s} ELSE UNION {NextTo(realm, t) : t \in at[n - 1]}
    IN  at

\* ... and those that are n steps away, and no fewer.
Near(realm, s) ==
    [n \in 1 .. 3 |-> Walks(realm, s)[n] \ UNION {Walks(realm, s)[m] : m \in 0 .. n - 1}]

\* Those within a depth, each at its distance.
Within(realm, s, depth) ==
    {x \in [to: Beings, depth: 1 .. depth] : x.to \in Near(realm, s)[x.depth]}

\* Asking for the subjects around one yields each within the depth once, at its distance and from its
\* realm, unless there are too many of them.
ReachIsExact ==
    \A s \in beings, depth \in 1 .. 3 :
        LET got == Reached(RealmOf[s], {s}, depth)
            due == Within(RealmOf[s], s, depth)
        IN  /\ IsInjective(got) /\ ToSet(got) \subseteq due
            /\ Len(got) < MostReached => ToSet(got) = due

SemanticsHold == ReportsHold /\ NothingLeavesItsRealm
=============================================================================
