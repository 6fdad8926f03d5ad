--------------------- MODULE PortableBundlesProperties ---------------------
(* What bundles promise (docs/portable-memory-bundles.md).                   *)
EXTENDS PortableBundles

ObjectOf(Links) ==
    [key: Texts \cup Sources, born: Refs, edited: 0 .. MaxEdits, current: BOOLEAN,
     from: SUBSET Links, over: SUBSET Links, by: SUBSET Links, ext: SUBSET Refs]

TypedEnvelope(e) == e.ref \in Refs /\ e.names \in SUBSET Refs /\ e.body \in ObjectOf(Refs)

\* The state stays within its types; what a memory rests on is in its store.
BundlesTypeOK ==
    /\ \A i \in Instances :
          /\ \A n \in Held(i) : objects[i][n] \in ObjectOf(1 .. made)
          /\ \A n \in Memories(i) : objects[i][n].from \subseteq Held(i) \ Memories(i)
          /\ \A r \in DOMAIN origins[i] :
                r \in Refs /\ origins[i][r].local \in 1 .. made /\ origins[i][r].body \in ObjectOf(Refs)
          /\ receipts[i] \subseteq DOMAIN bundles
    /\ \A b \in DOMAIN bundles : \A e \in Carried(bundles[b]) : TypedEnvelope(e)
    /\ import.pc \in {"idle", "shown", "applied", "refused", "repeated"}
    /\ made \in 0 .. MaxIds /\ edits \in 0 .. MaxEdits

\* An import duplicates nothing: a store has one memory of a text and one source of a key,
\* whether it wrote them itself, imported them, or got its own back.
NothingIsDuplicated ==
    \A i \in Instances : \A key \in Texts \cup Sources : Cardinality(Keyed(i, key)) <= 1

\* Supersession arrives whole or not at all: of two memories in a store, one supersedes
\* the other exactly if the other says so, and one that is no longer current still says
\* what replaced it.
SupersessionTravelsWhole ==
    \A i \in Instances : \A m, n \in Memories(i) :
        /\ n \in objects[i][m].over <=> m \in objects[i][n].by
        /\ n \in objects[i][m].over => ~objects[i][n].current
        /\ ~objects[i][m].current => objects[i][m].by # {} \/ objects[i][m].ext # {}

\* What the operator was shown is what happens, whatever was written in between: an
\* object that was to be created is new, and one that was to be reused was there.
ShownIsDone ==
    \A i \in Instances : \A r \in DOMAIN origins'[i] \ DOMAIN origins[i] :
        \E e \in DOMAIN import.plan :
            /\ e.ref = r
            /\ import.plan[e].what = "create" <=> origins'[i][r].local \notin Held(i)
            /\ import.plan[e].what = "create" => Keyed(i, e.body.key) = {}

\* "Repeating an applied bundle returns the original receipt without creating rows",
\* also with a plan that is no longer true.
RepeatsAreAnswered ==
    \A i \in Instances : \A b \in receipts[i] :
        (import.pc = "shown" /\ import.at = i /\ import.bundle = b /\ import'.pc # "shown")
            => import'.pc = "repeated" /\ UNCHANGED <<objects, origins>>

\* An import does what its preview showed, and a bundle applied before gets its first answer.
ImportsAreAsShown == [][ShownIsDone /\ RepeatsAreAnswered]_bundleVars

\* A reference of another store names what that store exported under it: "a locally
\* modified object instead receives the destination instance identity".
ForeignNamesAreTrue ==
    \A b \in DOMAIN bundles : \A e \in Carried(bundles[b]) :
        e.ref.at # bundles[b].by =>
            \E c \in 1 .. (b - 1) :
                bundles[c].by = e.ref.at /\ \E f \in Carried(bundles[c]) :
                                              f.ref = e.ref /\ f.body = e.body

\* What a memory names that is not here: what it came with, and what it was linked to and was erased.
NotHere(i, m) ==
    objects[i][m].ext \cup {Own(i, l) : l \in (objects[i][m].over \cup objects[i][m].by) \ Held(i)}

\* Whatever a store holds can be exported, alone or together, in a file that is read back: no
\* name is given twice and no reference dangles, unless one memory names as elsewhere what
\* another one is here.
SharedIsReadable ==
    \A i \in Instances : \A M \in SUBSET Memories(i) :
        \/ Readable(Payload(i, M))
        \/ \E m, n \in M : NotHere(i, m) \cap ({Own(i, n)} \cup OriginsOf(i, n)) # {}

\* "Destination origin mappings preserve an unchanged imported reference across re-export": what a
\* store has taken in, it can give on as a whole.
ImportedIsSharedOn == \A i \in Instances : Readable(Payload(i, Memories(i)))
=============================================================================
