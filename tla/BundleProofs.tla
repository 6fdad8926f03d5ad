---------------------------- MODULE BundleProofs ----------------------------
(* What stores promise of each other's bundles (src/src/portable_bundle.rs),  *)
(* for any number of stores, texts, sources, files and steps.  The invariant  *)
(* has four parts: a store has one object of each key, and its links are both *)
(* ways; a name an object once had is that of this object or of none; what    *)
(* has come in under a reference is what some bundle carried under it; and a  *)
(* bundle is as whole as a store.                                             *)
EXTENDS RecallProofs

----------------------------------------------------------------------------
(* Stores *)

HeldIn(o) == {n \in Ids : o[n].key # Gone}
MemoriesIn(o) == {n \in HeldIn(o) : o[n].key \in Texts}

Things(top) == {Absent} \cup ObjectOf(1 .. top)

HasNoLinks(x) == x.from = {} /\ x.over = {} /\ x.by = {}

\* Of two memories one supersedes the other if the other says so, and one that is not current was
\* superseded.
LinksStand(o, M) ==
    /\ \A n \in M : o[n].current => o[n].by = {}
    /\ \A n \in M : ~o[n].current => o[n].by # {} \/ o[n].ext # {}
    /\ \A m, n \in M : n \in o[m].over <=> m \in o[n].by
    /\ \A m, n \in M : n \in o[m].over => ~o[n].current

StoreStands(o, top) ==
    /\ o \in [Ids -> Things(top)]
    /\ \A n \in HeldIn(o) : n \in 1 .. top
    /\ \A m, n \in HeldIn(o) : o[m].key = o[n].key => m = n
    /\ \A n \in HeldIn(o) \ MemoriesIn(o) : HasNoLinks(o[n])
    /\ \A n \in MemoriesIn(o) : o[n].from \subseteq HeldIn(o) \ MemoriesIn(o)
    /\ LinksStand(o, MemoriesIn(o))

\* What was there is there or has gone.
Stays(o, p, top) ==
    \A n \in 1 .. top : p[n].key \in {o[n].key, Gone} /\ (o[n].key \in Sources => p[n].key = o[n].key)

\* What a memory names afterwards: what it named, something that is no source, or one of X.
NamesGo(o, p, t, X) ==
    \A n \in MemoriesIn(p) :
        /\ \A l \in p[n].over \cup p[n].by :
              (n \in MemoriesIn(o) /\ l \in o[n].over \cup o[n].by) \/ (l \in 1 .. t /\ p[l].key \notin Sources)
        /\ \A r \in p[n].ext : r \in X \/ (n \in MemoriesIn(o) /\ r \in o[n].ext)

LEMMA TopIs == MaxIds \in Nat /\ Ids = 1 .. MaxIds
BY PortableBundlesAssumption DEF Ids

LEMMA NoKeyIsGone == Gone \notin Texts /\ Gone \notin Sources /\ \A k \in Texts : k \notin Sources
BY PortableBundlesAssumption

LEMMA ObjectIs ==
    ASSUME NEW S, NEW x \in ObjectOf(S)
    PROVE  /\ x.key \in Texts \cup Sources /\ x.key # Gone /\ x.born \in Refs /\ x.edited \in 0 .. MaxEdits
           /\ x.current \in BOOLEAN /\ x.from \in SUBSET S /\ x.over \in SUBSET S /\ x.by \in SUBSET S
           /\ x.ext \in SUBSET Refs
BY PortableBundlesAssumption DEF ObjectOf

LEMMA ObjectsGrow ==
    ASSUME NEW S, NEW T, S \subseteq T
    PROVE  ObjectOf(S) \subseteq ObjectOf(T)
BY DEF ObjectOf

LEMMA ThingIs ==
    ASSUME NEW top, NEW x \in Things(top), x.key # Gone
    PROVE  x \in ObjectOf(1 .. top)
BY DEF Things, Absent

IsNew(x, i, n, key, from, over) ==
    /\ x.key = key /\ x.born = [at |-> i, id |-> n] /\ x.current = TRUE /\ x.from = from /\ x.over = over
    /\ x.by = {} /\ x.ext = {}

LEMMA NewObjectIs ==
    ASSUME NEW i \in Instances, NEW n \in Ids, NEW key \in Texts \cup Sources, NEW S,
           NEW from \in SUBSET S, NEW over \in SUBSET S, NEW x, x = NewObject(i, n, key, from, over)
    PROVE  x \in ObjectOf(S) /\ IsNew(x, i, n, key, from, over)
<1>1. /\ x.key = key /\ x.born = [at |-> i, id |-> n] /\ x.edited = 0 /\ x.current = TRUE /\ x.from = from
      /\ x.over = over /\ x.by = {} /\ x.ext = {}
  BY DEF NewObject
<1>2. [at |-> i, id |-> n] \in Refs /\ 0 \in 0 .. MaxEdits
  BY PortableBundlesAssumption DEF Refs
<1>3. x \in ObjectOf(S)
  <2> HIDE DEF Refs
  <2> QED
    BY <1>2, PortableBundlesAssumption DEF NewObject, ObjectOf
<1> QED
  BY <1>1, <1>3 DEF IsNew

\* An empty place, and one above.
LEMMA StoreHolds ==
    ASSUME NEW top \in Nat, NEW o, StoreStands(o, top), NEW n \in Ids
    PROVE  /\ o[n].key # Gone => n \in HeldIn(o) /\ o[n] \in ObjectOf(1 .. top)
           /\ n > top => o[n].key = Gone
<1>1. o[n] \in Things(top)
  BY DEF StoreStands
<1>2. o[n].key # Gone => o[n] \in ObjectOf(1 .. top)
  BY <1>1, ThingIs
<1>3. n > top => n \notin 1 .. top
  OBVIOUS
<1> QED
  BY <1>2, <1>3 DEF StoreStands, HeldIn
----------------------------------------------------------------------------
(* The life of a store *)

HaveSameLinks(o, p, L) ==
    \A n \in L : p[n].current = o[n].current /\ p[n].over = o[n].over /\ p[n].by = o[n].by /\ p[n].ext = o[n].ext

LEMMA LinksStay ==
    ASSUME NEW o, NEW M, LinksStand(o, M), NEW p, NEW L, L \subseteq M, HaveSameLinks(o, p, L)
    PROVE  LinksStand(p, L)
<1> USE DEF HaveSameLinks
<1>1. ASSUME NEW n \in L
      PROVE  (p[n].current => p[n].by = {}) /\ (~p[n].current => p[n].by # {} \/ p[n].ext # {})
  <2>1. n \in M
    OBVIOUS
  <2> QED
    BY <2>1 DEF LinksStand
<1>2. ASSUME NEW m \in L, NEW n \in L
      PROVE  (n \in p[m].over <=> m \in p[n].by) /\ (n \in p[m].over => ~p[n].current)
  <2>1. m \in M /\ n \in M
    OBVIOUS
  <2>2. (n \in o[m].over <=> m \in o[n].by) /\ (n \in o[m].over => ~o[n].current)
    BY <2>1 DEF LinksStand
  <2> QED
    BY <2>2
<1> QED
  BY <1>1, <1>2 DEF LinksStand

LEMMA TouchStands ==
    ASSUME NEW top \in Nat, NEW o, StoreStands(o, top), NEW m \in MemoriesIn(o), NEW t \in 0 .. MaxEdits,
           NEW p, p = [o EXCEPT ![m].edited = t]
    PROVE  StoreStands(p, top) /\ Stays(o, p, top) /\ NamesGo(o, p, top, {})
<1>1. o \in [Ids -> Things(top)] /\ m \in Ids /\ o[m].key # Gone
  BY DEF StoreStands, MemoriesIn, HeldIn
<1>2. PICK x : x = o[m] /\ x \in ObjectOf(1 .. top)
  BY <1>1, StoreHolds
<1>3. PICK y : y = [x EXCEPT !.edited = t]
  OBVIOUS
<1>4. /\ y.key = x.key /\ y.current = x.current /\ y.from = x.from /\ y.over = x.over /\ y.by = x.by
      /\ y.ext = x.ext /\ y \in ObjectOf(1 .. top)
  BY <1>2, <1>3 DEF ObjectOf
<1>5. p = [n \in Ids |-> IF n = m THEN y ELSE o[n]]
  BY <1>1, <1>2, <1>3
<1>6. p \in [Ids -> Things(top)]
  <2>1. y \in Things(top)
    BY <1>4 DEF Things
  <2> QED
    BY <1>1, <1>5, <2>1
<1>7. \A n \in Ids : /\ p[n].key = o[n].key /\ p[n].current = o[n].current /\ p[n].from = o[n].from
                     /\ p[n].over = o[n].over /\ p[n].by = o[n].by /\ p[n].ext = o[n].ext
  BY <1>2, <1>4, <1>5
<1>8. HeldIn(p) = HeldIn(o) /\ MemoriesIn(p) = MemoriesIn(o) /\ HeldIn(o) \subseteq Ids
      /\ MemoriesIn(o) \subseteq HeldIn(o)
  BY <1>7 DEF HeldIn, MemoriesIn
<1>9. LinksStand(p, MemoriesIn(p))
  <2>1. LinksStand(o, MemoriesIn(o))
    BY DEF StoreStands
  <2>2. MemoriesIn(o) \subseteq MemoriesIn(o)
    OBVIOUS
  <2>3. HaveSameLinks(o, p, MemoriesIn(o))
    BY <1>7, <1>8 DEF HaveSameLinks
  <2>4. LinksStand(p, MemoriesIn(o))
    BY <2>1, <2>2, <2>3, LinksStay
  <2> QED
    BY <1>8, <2>4
<1>10. \A n \in HeldIn(p) \ MemoriesIn(p) : HasNoLinks(p[n])
  <2>1. \A n \in HeldIn(o) \ MemoriesIn(o) : HasNoLinks(o[n])
    BY DEF StoreStands
  <2> QED
    BY <1>7, <1>8, <2>1 DEF HasNoLinks
<1>11. /\ \A n \in HeldIn(p) : n \in 1 .. top
       /\ \A k, n \in HeldIn(p) : p[k].key = p[n].key => k = n
       /\ \A n \in MemoriesIn(p) : p[n].from \subseteq HeldIn(p) \ MemoriesIn(p)
  <2>1. /\ \A n \in HeldIn(o) : n \in 1 .. top
        /\ \A k, n \in HeldIn(o) : o[k].key = o[n].key => k = n
        /\ \A n \in MemoriesIn(o) : o[n].from \subseteq HeldIn(o) \ MemoriesIn(o)
    BY DEF StoreStands
  <2>2. \A k, n \in HeldIn(p) : p[k].key = p[n].key => k = n
    BY <1>7, <1>8, <2>1
  <2>3. \A n \in MemoriesIn(p) : p[n].from \subseteq HeldIn(p) \ MemoriesIn(p)
    BY <1>7, <1>8, <2>1
  <2> QED
    BY <1>8, <2>1, <2>2, <2>3
<1>12. Stays(o, p, top)
  <2>1. \A n \in 1 .. top : p[n].key = o[n].key
    BY <1>5, <1>2, <1>4, <1>1
  <2> QED
    BY <2>1 DEF Stays
<1>13. NamesGo(o, p, top, {})
  BY <1>7, <1>8 DEF NamesGo
<1> QED
  BY <1>6, <1>9, <1>10, <1>11, <1>12, <1>13 DEF StoreStands

LEMMA EraseStands ==
    ASSUME NEW top \in Nat, NEW o, StoreStands(o, top), NEW m \in MemoriesIn(o),
           NEW p, p = [o EXCEPT ![m] = Absent]
    PROVE  StoreStands(p, top) /\ Stays(o, p, top) /\ NamesGo(o, p, top, {})
<1>1. o \in [Ids -> Things(top)] /\ m \in Ids /\ o[m].key # Gone /\ o[m].key \in Texts
  BY DEF StoreStands, MemoriesIn, HeldIn
<1>2. \A n \in Ids \ {m} : p[n] = o[n]
  BY <1>1
<1>3. p[m] = Absent /\ p[m].key = Gone
  BY <1>1 DEF Absent
<1>4. p \in [Ids -> Things(top)]
  <2>1. Absent \in Things(top)
    BY DEF Things
  <2> HIDE DEF Absent
  <2> QED
    BY <1>1, <2>1
<1>5. HeldIn(p) = HeldIn(o) \ {m} /\ MemoriesIn(p) = MemoriesIn(o) \ {m} /\ HeldIn(o) \subseteq Ids
      /\ MemoriesIn(o) \subseteq HeldIn(o)
  BY <1>2, <1>3, NoKeyIsGone DEF HeldIn, MemoriesIn
<1>6. HeldIn(p) \ MemoriesIn(p) = HeldIn(o) \ MemoriesIn(o)
  BY <1>5
<1>7. \A n \in HeldIn(p) : p[n] = o[n]
  BY <1>2, <1>5
<1>8. LinksStand(p, MemoriesIn(p))
  <2>1. LinksStand(o, MemoriesIn(o))
    BY DEF StoreStands
  <2> QED
    BY ZenonT(30), <1>5, <1>7, <2>1 DEF LinksStand
<1>9. Stays(o, p, top)
  <2>1. \A n \in 1 .. top : p[n].key \in {o[n].key, Gone} /\ (n # m => p[n].key = o[n].key)
    BY <1>1, <1>3
  <2> QED
    BY <1>1, <2>1, NoKeyIsGone DEF Stays
<1>10. /\ \A n \in HeldIn(p) : n \in 1 .. top
       /\ \A k, n \in HeldIn(p) : p[k].key = p[n].key => k = n
  BY <1>5, <1>7 DEF StoreStands
<1>11. /\ \A n \in HeldIn(p) \ MemoriesIn(p) : HasNoLinks(p[n])
       /\ \A n \in MemoriesIn(p) : p[n].from \subseteq HeldIn(p) \ MemoriesIn(p)
  BY <1>5, <1>6, <1>7 DEF StoreStands
<1>12. NamesGo(o, p, top, {})
  BY <1>5, <1>7 DEF NamesGo
<1> QED
  BY <1>4, <1>8, <1>9, <1>10, <1>11, <1>12 DEF StoreStands

LEMMA SupersedeStands ==
    ASSUME NEW i \in Instances, NEW top \in Nat, NEW o, StoreStands(o, top), NEW old \in MemoriesIn(o),
           o[old].current, NEW text \in Texts, \A n \in HeldIn(o) : o[n].key # text, top < MaxIds,
           NEW t \in 0 .. MaxEdits, NEW x, x = top + 1,
           NEW p, p = [o EXCEPT ![old] = [@ EXCEPT !.current = FALSE, !.by = {x}, !.edited = t],
                                ![x] = NewObject(i, x, text, {}, {old})]
    PROVE  StoreStands(p, x) /\ Stays(o, p, top) /\ NamesGo(o, p, x, {})
<1>1. /\ o \in [Ids -> Things(top)] /\ old \in Ids /\ old \in HeldIn(o) /\ o[old].key # Gone /\ o[old].key \in Texts
      /\ old \in 1 .. top /\ x \in Ids /\ x \notin 1 .. top /\ x \in Nat /\ 1 .. top \subseteq 1 .. x /\ x \in 1 .. x
  BY TopIs DEF StoreStands, MemoriesIn, HeldIn
<1>2. PICK y : y = o[old] /\ y \in ObjectOf(1 .. top)
  BY <1>1, StoreHolds
<1>3. PICK z : z = [y EXCEPT !.current = FALSE, !.by = {x}, !.edited = t]
  OBVIOUS
<1>4. z.key = y.key /\ z.current = FALSE /\ z.from = y.from /\ z.over = y.over /\ z.by = {x} /\ z.ext = y.ext
  BY <1>2, <1>3 DEF ObjectOf
<1>5. z \in ObjectOf(1 .. x)
  <2>1. y \in ObjectOf(1 .. x)
    BY <1>1, <1>2, ObjectsGrow
  <2>2. {x} \in SUBSET (1 .. x)
    BY <1>1
  <2> DEFINE S == 1 .. x
  <2> HIDE DEF S
  <2>3. y \in ObjectOf(S) /\ {x} \in SUBSET S
    BY <2>1, <2>2 DEF S
  <2>4. z \in ObjectOf(S)
    BY <1>3, <2>3 DEF ObjectOf
  <2> QED
    BY <2>4 DEF S
<1>6. PICK w : w = NewObject(i, x, text, {}, {old})
  OBVIOUS
<1>7. /\ w \in ObjectOf(1 .. x) /\ w.key = text /\ w.current = TRUE /\ w.from = {} /\ w.over = {old}
      /\ w.by = {} /\ w.ext = {}
  <2> DEFINE S == 1 .. x
  <2>1. {} \in SUBSET S /\ {old} \in SUBSET S
    BY <1>1
  <2>2. text \in Texts \cup Sources
    OBVIOUS
  <2> HIDE DEF S
  <2>3. w \in ObjectOf(S) /\ IsNew(w, i, x, text, {}, {old})
    BY <1>1, <1>6, <2>1, <2>2, NewObjectIs
  <2> QED
    BY <2>3 DEF S, IsNew
<1>8. p = [n \in Ids |-> IF n = x THEN w ELSE IF n = old THEN z ELSE o[n]]
  BY <1>1, <1>2, <1>3, <1>6
<1>9. p[x] = w /\ p[old] = z /\ \A n \in Ids \ {x, old} : p[n] = o[n]
  BY <1>1, <1>8
<1>10. p \in [Ids -> Things(x)]
  <2>1. z \in Things(x) /\ w \in Things(x)
    BY <1>5, <1>7 DEF Things
  <2>2. Things(top) \subseteq Things(x)
    BY <1>1, ObjectsGrow DEF Things
  <2>3. \A n \in Ids : o[n] \in Things(x)
    BY <1>1, <2>2
  <2> QED
    BY <1>8, <2>1, <2>3
<1>11. /\ HeldIn(p) = HeldIn(o) \cup {x} /\ MemoriesIn(p) = MemoriesIn(o) \cup {x}
       /\ HeldIn(o) \subseteq Ids /\ HeldIn(o) \subseteq 1 .. top /\ MemoriesIn(o) \subseteq HeldIn(o)
       /\ x \notin HeldIn(o)
  <2>1. HeldIn(o) \subseteq 1 .. top
    BY DEF StoreStands
  <2>2. \A n \in Ids : n \in HeldIn(p) <=> n \in HeldIn(o) \/ n = x
    BY <1>1, <1>2, <1>4, <1>7, <1>9, NoKeyIsGone DEF HeldIn
  <2>3. HeldIn(p) \subseteq Ids /\ HeldIn(o) \subseteq Ids /\ MemoriesIn(o) \subseteq HeldIn(o)
        /\ MemoriesIn(p) \subseteq HeldIn(p)
    BY DEF HeldIn, MemoriesIn
  <2>4. HeldIn(p) = HeldIn(o) \cup {x}
    BY <1>1, <2>2, <2>3
  <2>5. \A n \in HeldIn(p) : n \in MemoriesIn(p) <=> n \in MemoriesIn(o) \/ n = x
    <3>1. \A n \in HeldIn(o) : n # x /\ n \in Ids
      BY <1>1, <2>1, <2>3
    <3>2. \A n \in HeldIn(o) : p[n].key = o[n].key
      BY <1>2, <1>4, <1>9, <3>1
    <3>3. p[x].key \in Texts
      BY <1>7, <1>9
    <3> QED
      BY <2>4, <3>1, <3>2, <3>3 DEF MemoriesIn
  <2>6. MemoriesIn(p) = MemoriesIn(o) \cup {x}
    BY <2>3, <2>4, <2>5
  <2> QED
    BY <1>1, <2>1, <2>3, <2>4, <2>6
<1>12. HeldIn(p) \ MemoriesIn(p) = HeldIn(o) \ MemoriesIn(o)
  BY <1>11
<1>13. Stays(o, p, top)
  <2>1. \A n \in 1 .. top : p[n].key = o[n].key
    BY <1>1, <1>2, <1>4, <1>8, TopIs
  <2> QED
    BY <2>1 DEF Stays
<1>14. \A k, n \in HeldIn(p) : p[k].key = p[n].key => k = n
  <2>1. ASSUME NEW n \in HeldIn(o) PROVE p[n].key = o[n].key /\ p[n].key # text
    <3>1. n \in Ids /\ n # x /\ o[n].key # text
      BY <1>11
    <3> QED
      BY <1>2, <1>4, <1>9, <3>1
  <2>2. \A k, n \in HeldIn(o) : o[k].key = o[n].key => k = n
    BY DEF StoreStands
  <2>3. p[x].key = text
    BY <1>7, <1>9
  <2>4. ASSUME NEW k \in HeldIn(p), NEW n \in HeldIn(p), p[k].key = p[n].key PROVE k = n
    <3>1. (k \in HeldIn(o) \/ k = x) /\ (n \in HeldIn(o) \/ n = x)
      BY <1>11
    <3> QED
      BY <2>1, <2>2, <2>3, <2>4, <3>1
  <2> QED
    BY <2>4
<1>15. \A n \in HeldIn(p) \ MemoriesIn(p) : p[n] = o[n] /\ HasNoLinks(p[n])
  <2>1. \A n \in HeldIn(o) \ MemoriesIn(o) : n \notin {x, old} /\ n \in Ids /\ HasNoLinks(o[n])
    BY <1>11 DEF StoreStands
  <2> QED
    BY <1>9, <1>12, <2>1
<1>16. \A n \in MemoriesIn(p) : p[n].from \subseteq HeldIn(p) \ MemoriesIn(p)
  <2>1. ASSUME NEW n \in MemoriesIn(o) PROVE p[n].from = o[n].from
    <3>1. n \in Ids /\ n # x
      BY <1>11
    <3> QED
      BY <1>2, <1>4, <1>9, <3>1
  <2>2. \A n \in MemoriesIn(o) : o[n].from \subseteq HeldIn(o) \ MemoriesIn(o)
    BY DEF StoreStands
  <2>3. p[x].from = {}
    BY <1>7, <1>9
  <2> QED
    BY <1>11, <1>12, <2>1, <2>2, <2>3
<1>17. LinksStand(p, MemoriesIn(p))
  <2> DEFINE M == MemoriesIn(o)
  <2>1. LinksStand(o, M)
    BY DEF StoreStands
  <2>2. y.by = {}
    BY <1>2, <2>1 DEF LinksStand
  <2>3. \A n \in M : n # x /\ n \in Ids /\ (n # old => p[n] = o[n])
    BY <1>9, <1>11
  <2>4. \A n \in M : x \notin o[n].over /\ x \notin o[n].by
    <3> SUFFICES ASSUME NEW n \in M PROVE x \notin o[n].over /\ x \notin o[n].by
      OBVIOUS
    <3>1. n \in Ids /\ o[n].key # Gone
      BY DEF MemoriesIn, HeldIn
    <3>2. o[n] \in ObjectOf(1 .. top)
      BY <3>1, StoreHolds
    <3>3. o[n].over \in SUBSET (1 .. top) /\ o[n].by \in SUBSET (1 .. top)
      BY <3>2, ObjectIs
    <3> QED
      BY <1>1, <3>3
  <2>5. \A n \in M : p[n].over = o[n].over /\ p[n].ext = o[n].ext
    BY <1>2, <1>4, <1>9, <2>3
  <2>6. MemoriesIn(p) = M \cup {x}
    BY <1>11
  <2>7. \A n \in M : old \notin o[n].over
    BY <1>2, <2>1, <2>2 DEF LinksStand
  <2> HIDE DEF M
  <2>8. ASSUME NEW n \in M \cup {x}
        PROVE  (p[n].current => p[n].by = {}) /\ (~p[n].current => p[n].by # {} \/ p[n].ext # {})
    <3>1. CASE n = x
      BY <1>7, <1>9, <3>1
    <3>2. CASE n = old
      BY <1>4, <1>9, <3>2
    <3>3. CASE n \in M /\ n # old
      BY <2>1, <2>3, <3>3 DEF LinksStand
    <3> QED
      BY <2>8, <3>1, <3>2, <3>3
  <2>9. ASSUME NEW m \in M \cup {x}, NEW n \in M \cup {x}
        PROVE  (n \in p[m].over <=> m \in p[n].by) /\ (n \in p[m].over => ~p[n].current)
    <3>1. CASE m = x
      <4>1. n \in p[m].over <=> n = old
        <5>1. p[x].over = {old}
          BY <1>7, <1>9
        <5> QED
          BY <3>1, <5>1
      <4>2. m \in p[n].by <=> n = old
        BY <1>4, <1>7, <1>9, <2>3, <2>4, <2>9, <3>1
      <4> QED
        BY <1>4, <1>9, <4>1, <4>2
    <3>2. CASE m \in M /\ n = x
      BY <1>7, <1>9, <2>4, <2>5, <3>2
    <3>3. CASE m \in M /\ n = old
      BY <1>4, <1>9, <2>3, <2>5, <2>7, <3>3
    <3>4. CASE m \in M /\ n \in M /\ n # old
      BY <2>1, <2>3, <2>5, <3>4 DEF LinksStand
    <3> QED
      BY <2>9, <3>1, <3>2, <3>3, <3>4
  <2> QED
    BY ZenonT(30), <2>6, <2>8, <2>9 DEF LinksStand
<1>18. \A n \in HeldIn(p) : n \in 1 .. x
  BY <1>1, <1>11
<1>19. NamesGo(o, p, x, {})
  <2>1. p[old].key \notin Sources /\ p[x].key \notin Sources /\ old \in 1 .. x
    BY <1>1, <1>2, <1>4, <1>7, <1>9, NoKeyIsGone
  <2>2. p[x].over = {old} /\ p[x].by = {} /\ p[x].ext = {}
    BY <1>7, <1>9
  <2>3. p[old].over = o[old].over /\ p[old].by = {x} /\ p[old].ext = o[old].ext
    BY <1>2, <1>4, <1>9
  <2>4. \A n \in MemoriesIn(o) : n \notin {x, old} => p[n] = o[n]
    BY <1>9, <1>11
  <2>5. x \in 1 .. x /\ MemoriesIn(p) = MemoriesIn(o) \cup {x}
    BY <1>1, <1>11
  <2> SUFFICES ASSUME NEW n \in MemoriesIn(p)
               PROVE  /\ \A l \in p[n].over \cup p[n].by : \/ n \in MemoriesIn(o) /\ l \in o[n].over \cup o[n].by
                                                           \/ l \in 1 .. x /\ p[l].key \notin Sources
                      /\ \A r \in p[n].ext : n \in MemoriesIn(o) /\ r \in o[n].ext
    BY DEF NamesGo
  <2>6. CASE n = x
    BY <2>1, <2>2, <2>6
  <2>7. CASE n = old
    BY <2>1, <2>3, <2>5, <2>7
  <2>8. CASE n \in MemoriesIn(o) /\ n \notin {x, old}
    BY <2>4, <2>8
  <2> QED
    BY <2>5, <2>6, <2>7, <2>8
<1> QED
  BY <1>10, <1>13, <1>14, <1>15, <1>16, <1>17, <1>18, <1>19 DEF StoreStands
\* What lies above is linked to by none.
LEMMA LinksAreBelow ==
    ASSUME NEW top \in Nat, NEW o, StoreStands(o, top), NEW n \in MemoriesIn(o)
    PROVE  o[n].over \subseteq 1 .. top /\ o[n].by \subseteq 1 .. top
<1>1. n \in Ids /\ o[n].key # Gone
  BY DEF MemoriesIn, HeldIn
<1>2. o[n] \in ObjectOf(1 .. top)
  BY <1>1, StoreHolds
<1> QED
  BY <1>2, ObjectIs

IsRemembered(o, p, i, text, top, m, there, new) ==
    p = [n \in Ids |->
            IF n = m THEN NewObject(i, m, text, there \cup ((top + 1) .. (m - 1)), {})
            ELSE IF n \in (top + 1) .. (m - 1) THEN NewObject(i, n, new[n - top], {}, {})
            ELSE o[n]]

LEMMA RememberStands ==
    ASSUME NEW i \in Instances, NEW top \in Nat, NEW o, StoreStands(o, top), NEW text \in Texts,
           \A n \in HeldIn(o) : o[n].key # text,
           NEW there, there = {n \in HeldIn(o) : o[n].key \in RestsOn[text]},
           NEW new, Enumerates(new, {s \in RestsOn[text] : \A n \in HeldIn(o) : o[n].key # s}),
           NEW m, m = top + Len(new) + 1, m <= MaxIds,
           NEW p, IsRemembered(o, p, i, text, top, m, there, new)
    PROVE  m \in Ids /\ StoreStands(p, m) /\ Stays(o, p, top) /\ NamesGo(o, p, m, {})
<1> USE DEF IsRemembered
<1> DEFINE fresh == (top + 1) .. (m - 1)
           lacking == {s \in RestsOn[text] : \A n \in HeldIn(o) : o[n].key # s}
           H == HeldIn(o)
           M == MemoriesIn(o)
<1>1. new \in Seq(lacking) /\ Len(new) \in Nat /\ DOMAIN new = 1 .. Len(new)
  BY DEF Enumerates
<1>2. /\ \A k \in 1 .. Len(new) : new[k] \in lacking
      /\ \A k, l \in 1 .. Len(new) : new[k] = new[l] => k = l
  <2>1. \A k \in 1 .. Len(new) : new[k] \in lacking
    <3> HIDE DEF lacking
    <3> QED
      BY <1>1
  <2>2. \A k, l \in DOMAIN new : new[k] = new[l] => k = l
    BY DEF Enumerates
  <2> QED
    BY <1>1, <2>1, <2>2
<1>3. RestsOn[text] \subseteq Sources /\ text \in Texts \cup Sources
  BY PortableBundlesAssumption
<1>4. m \in Nat /\ m > top /\ m \in 1 .. m /\ m \in Ids /\ fresh \subseteq Ids /\ 1 .. top \subseteq 1 .. m
      /\ fresh \subseteq 1 .. m
  BY <1>1, TopIs
<1>5. \A n \in fresh : n - top \in 1 .. Len(new) /\ n \notin 1 .. top /\ n # m
  BY <1>1, <1>4
<1>6. o \in [Ids -> Things(top)] /\ H \subseteq Ids /\ H \subseteq 1 .. top /\ M \subseteq H /\ m \notin H
      /\ H \cap fresh = {} /\ m \notin fresh
  <2>1. o \in [Ids -> Things(top)] /\ H \subseteq 1 .. top
    BY DEF StoreStands
  <2>2. M \subseteq H /\ H \subseteq Ids
    BY DEF MemoriesIn, HeldIn
  <2> QED
    BY <1>4, <1>5, <2>1, <2>2
<1>7. PICK w : w = NewObject(i, m, text, there \cup fresh, {})
  OBVIOUS
<1>8. w \in ObjectOf(1 .. m) /\ w.key = text /\ w.current = TRUE /\ w.from = there \cup fresh
      /\ w.over = {} /\ w.by = {} /\ w.ext = {}
  <2> DEFINE S == 1 .. m
             from == there \cup fresh
  <2>1. from \in SUBSET S /\ {} \in SUBSET S
    <3>1. there \subseteq H
      OBVIOUS
    <3> HIDE DEF H, fresh
    <3> QED
      BY <1>4, <1>6, <3>1
  <2> HIDE DEF S, from
  <2>2. w \in ObjectOf(S) /\ IsNew(w, i, m, text, from, {})
    <3>1. w = NewObject(i, m, text, from, {})
      BY <1>7 DEF from
    <3> QED
      BY <1>3, <1>4, <2>1, <3>1, NewObjectIs
  <2> QED
    BY <2>2 DEF S, IsNew, from
<1>9. ASSUME NEW n \in fresh
      PROVE  /\ p[n] \in ObjectOf(1 .. m) /\ p[n].key = new[n - top] /\ p[n].key \in lacking /\ HasNoLinks(p[n])
  <2>1. n \in Ids /\ n # m /\ new[n - top] \in lacking /\ new[n - top] \in Texts \cup Sources
    BY <1>2, <1>3, <1>4, <1>5
  <2>2. PICK x : x = NewObject(i, n, new[n - top], {}, {})
    OBVIOUS
  <2>3. p[n] = x
    BY <2>1, <2>2
  <2> DEFINE S == 1 .. m
  <2>4. {} \in SUBSET S
    OBVIOUS
  <2> HIDE DEF S, lacking, fresh
  <2>5. x \in ObjectOf(S) /\ IsNew(x, i, n, new[n - top], {}, {})
    BY <2>1, <2>2, <2>4, NewObjectIs
  <2> QED
    BY <2>1, <2>3, <2>5 DEF S, IsNew, HasNoLinks
<1>10. p[m] = w /\ \A n \in Ids \ (fresh \cup {m}) : p[n] = o[n]
  BY <1>4, <1>7
<1>11. p \in [Ids -> Things(m)]
  <2>1. Things(top) \subseteq Things(m)
    BY <1>4, ObjectsGrow DEF Things
  <2>2. \A n \in Ids : p[n] \in Things(m)
    <3> SUFFICES ASSUME NEW n \in Ids PROVE p[n] \in Things(m)
      OBVIOUS
    <3>1. CASE n = m
      BY <1>8, <1>10, <3>1 DEF Things
    <3>2. CASE n \in fresh
      BY <1>9, <3>2 DEF Things
    <3>3. CASE n \notin fresh \cup {m}
      BY <1>6, <1>10, <2>1, <3>3
    <3> QED
      BY <3>1, <3>2, <3>3
  <2>3. p = [n \in Ids |-> p[n]]
    OBVIOUS
  <2> QED
    BY <2>2, <2>3
<1> HIDE DEF fresh, lacking
<1>12. \A n \in H : p[n] = o[n] /\ n \in Ids
  BY <1>6, <1>10
<1>13. HeldIn(p) = H \cup fresh \cup {m}
  <2>1. \A n \in fresh : p[n].key # Gone
    BY ZenonT(30), <1>3, <1>9, NoKeyIsGone DEF lacking
  <2>2. p[m].key # Gone
    BY <1>8, <1>10, NoKeyIsGone
  <2> QED
    BY <1>4, <1>6, <1>10, <2>1, <2>2 DEF HeldIn
<1>14. MemoriesIn(p) = M \cup {m}
  <2>1. \A n \in fresh : p[n].key \notin Texts
    BY <1>3, <1>9, NoKeyIsGone DEF lacking
  <2>2. p[m].key \in Texts
    BY <1>8, <1>10
  <2> QED
    BY <1>12, <1>13, <2>1, <2>2 DEF MemoriesIn
<1>15. HeldIn(p) \ MemoriesIn(p) = (H \ M) \cup fresh
  BY <1>6, <1>13, <1>14
<1>16. \A n \in HeldIn(p) : n \in 1 .. m
  BY <1>4, <1>6, <1>13
<1>17. ASSUME NEW k \in HeldIn(p), NEW n \in HeldIn(p), p[k].key = p[n].key PROVE k = n
  <2>1. \A a, b \in H : p[a].key = p[b].key => a = b
    BY <1>12 DEF StoreStands
  <2>2. \A a \in H : p[a].key # text
    BY <1>12
  <2>3. ASSUME NEW a \in fresh, NEW b \in H PROVE p[a].key # p[b].key
    <3>1. p[a].key \in lacking /\ p[b] = o[b]
      BY <1>9, <1>12
    <3> QED
      BY <3>1 DEF lacking
  <2>4. \A a \in fresh : p[a].key # text
    BY ZenonT(30), <1>3, <1>9, NoKeyIsGone DEF lacking
  <2>5. ASSUME NEW a \in fresh, NEW b \in fresh, p[a].key = p[b].key PROVE a = b
    <3>1. new[a - top] = new[b - top]
      BY <1>9, <2>5
    <3>2. a - top = b - top
      BY <1>2, <1>5, <3>1
    <3> QED
      BY <3>2 DEF fresh
  <2>6. p[m].key = text
    BY <1>8, <1>10
  <2> HIDE DEF H
  <2>7. CASE k \in H
    <3>1. n \in H
      BY <1>13, <1>17, <2>2, <2>3, <2>6, <2>7
    <3> QED
      BY <1>17, <2>1, <2>7, <3>1
  <2>8. CASE k \in fresh
    <3>1. n \in fresh
      BY ZenonT(30), <1>13, <1>17, <2>3, <2>4, <2>6, <2>8
    <3> QED
      BY <1>17, <2>5, <2>8, <3>1
  <2>9. CASE k = m
    <3>1. n = m
      BY <1>13, <1>17, <2>2, <2>4, <2>6, <2>9
    <3> QED
      BY <2>9, <3>1
  <2> QED
    BY <1>13, <2>7, <2>8, <2>9
<1>18. \A n \in HeldIn(p) \ MemoriesIn(p) : HasNoLinks(p[n])
  <2>1. \A n \in H \ M : HasNoLinks(o[n])
    BY DEF StoreStands
  <2> QED
    BY <1>9, <1>12, <1>15, <2>1
<1>19. \A n \in MemoriesIn(p) : p[n].from \subseteq HeldIn(p) \ MemoriesIn(p)
  <2>1. \A n \in M : o[n].from \subseteq H \ M
    BY DEF StoreStands
  <2>2. there \subseteq H \ M
    BY <1>3, NoKeyIsGone DEF MemoriesIn
  <2>3. p[m].from = there \cup fresh
    BY <1>8, <1>10
  <2> HIDE DEF H, M
  <2> QED
    BY <1>6, <1>12, <1>14, <1>15, <2>1, <2>2, <2>3
<1>20. LinksStand(p, MemoriesIn(p))
  <2>1. LinksStand(o, M)
    BY DEF StoreStands
  <2>2. HaveSameLinks(o, p, M)
    BY <1>6, <1>12 DEF HaveSameLinks
  <2>3. LinksStand(p, M)
    <3>1. M \subseteq M
      OBVIOUS
    <3> HIDE DEF M
    <3> QED
      BY <2>1, <2>2, <3>1, LinksStay
  <2>4. \A n \in M : m \notin p[n].over /\ m \notin p[n].by
    <3> SUFFICES ASSUME NEW n \in M PROVE m \notin p[n].over /\ m \notin p[n].by
      OBVIOUS
    <3>1. o[n].over \subseteq 1 .. top /\ o[n].by \subseteq 1 .. top
      BY LinksAreBelow
    <3>2. m \notin 1 .. top
      BY <1>4
    <3>3. p[n].over = o[n].over /\ p[n].by = o[n].by
      BY <2>2 DEF HaveSameLinks
    <3> QED
      BY <3>1, <3>2, <3>3
  <2>5. p[m].over = {} /\ p[m].by = {} /\ p[m].current = TRUE
    BY <1>8, <1>10
  <2> HIDE DEF M
  <2>6. ASSUME NEW n \in M \cup {m}
        PROVE  (p[n].current => p[n].by = {}) /\ (~p[n].current => p[n].by # {} \/ p[n].ext # {})
    BY <2>3, <2>5, <2>6 DEF LinksStand
  <2>7. ASSUME NEW k \in M \cup {m}, NEW n \in M \cup {m}
        PROVE  (n \in p[k].over <=> k \in p[n].by) /\ (n \in p[k].over => ~p[n].current)
    <3>1. CASE k = m
      BY <2>4, <2>5, <2>7, <3>1
    <3>2. CASE n = m
      BY <2>4, <2>5, <2>7, <3>2
    <3>3. CASE k \in M /\ n \in M
      BY <2>3, <3>3 DEF LinksStand
    <3> QED
      BY <2>7, <3>1, <3>2, <3>3
  <2> QED
    BY <1>14, <2>6, <2>7 DEF LinksStand, M
<1>21. Stays(o, p, top)
  <2>1. \A n \in 1 .. top : n \in Ids /\ n # m /\ n \notin fresh
    BY <1>4, <1>5, TopIs
  <2>2. \A n \in 1 .. top : p[n] = o[n]
    BY <1>10, <2>1
  <2> QED
    BY <2>2 DEF Stays
<1>22. NamesGo(o, p, m, {})
  <2>1. p[m].over = {} /\ p[m].by = {} /\ p[m].ext = {}
    BY <1>8, <1>10
  <2> QED
    BY <1>6, <1>12, <1>14, <2>1 DEF NamesGo
<1> QED
  BY <1>4, <1>11, <1>16, <1>17, <1>18, <1>19, <1>20, <1>21, <1>22 DEF StoreStands
----------------------------------------------------------------------------
(* What stands about stores, origins and bundles *)

\* An object may have gone, but is never another one, and a source never goes.
KeyStands(r, key) ==
    /\ r \in [at: Instances, id: 1 .. made] /\ objects[r.at][r.id].key \in {key, Gone}
    /\ key \in Sources => objects[r.at][r.id].key = key

\* What has come in under a reference is what a bundle carried under it.
OriginStands(i, r, x) ==
    /\ x.local \in 1 .. made /\ x.body \in ObjectOf(Refs) /\ KeyStands(r, x.body.key)
    /\ objects[i][x.local].key \in {x.body.key, Gone}
    /\ x.body.key \in Sources => objects[i][x.local].key = x.body.key
    /\ \E c \in DOMAIN bundles : bundles[c].by = r.at /\ \E f \in Carried(bundles[c]) : f.ref = r /\ f.body = x.body

Envelopes == [ref: Refs, names: SUBSET Refs, body: ObjectOf(Refs)]
Bundles == [by: Instances, sources: SUBSET Envelopes, memories: SUBSET Envelopes]

EnvelopeStands(e) == e.ref \in e.names /\ \A r \in e.names : KeyStands(r, e.body.key)

NamesOf(S) == UNION {e.names : e \in S}

\* Of two memories in a bundle one supersedes the other if the other says so.
LinksAreWhole(b) ==
    /\ \A e \in b.memories :
          /\ e.body.from \subseteq NamesOf(b.sources) /\ e.body.over \cup e.body.by \subseteq NamesOf(b.memories)
          /\ e.body.current => e.body.by = {}
          /\ ~e.body.current => e.body.by # {} \/ e.body.ext # {}
    /\ \A e, f \in b.memories :
          /\ e.body.over \cap f.names # {} <=> f.body.by \cap e.names # {}
          /\ e.body.over \cap f.names # {} => ~f.body.current

HasOneOfEach(b) ==
    /\ IsFiniteSet(Carried(b))
    /\ \A e \in b.sources : e.body.key \in Sources /\ HasNoLinks(e.body)
    /\ \A e \in b.memories : e.body.key \in Texts
    /\ \A e, f \in Carried(b) : e.body.key = f.body.key => e = f
    /\ NamesAreUnique(b)

BundleStands(b) == HasOneOfEach(b) /\ LinksAreWhole(b) /\ \A e \in Carried(b) : EnvelopeStands(e)

OwnOf(i, L) == {Own(i, l) : l \in L}

IsNoSource(r) == r \in [at: Instances, id: 1 .. made] /\ objects[r.at][r.id].key \notin Sources

\* What a memory names as elsewhere, or is linked to, is a memory or was one.
NamesStand(i, x) == \A r \in x.ext \cup OwnOf(i, x.over \cup x.by) : IsNoSource(r)

NamedIsMemory ==
    /\ \A i \in Instances : \A n \in MemoriesIn(objects[i]) : NamesStand(i, objects[i][n])
    /\ \A b \in DOMAIN bundles : \A e \in bundles[b].memories : \A r \in e.body.ext : IsNoSource(r)

BundlesInv ==
    /\ made \in 0 .. MaxIds /\ edits \in 0 .. MaxEdits
    /\ objects = [i \in Instances |-> objects[i]] /\ \A i \in Instances : StoreStands(objects[i], made)
    /\ origins = [i \in Instances |-> origins[i]]
    /\ \A i \in Instances : \A r \in DOMAIN origins[i] : OriginStands(i, r, origins[i][r])
    /\ receipts \in [Instances -> SUBSET DOMAIN bundles]
    /\ bundles \in Seq(Bundles) /\ \A b \in DOMAIN bundles : BundleStands(bundles[b])
    /\ import.pc \in {"idle", "shown", "applied", "refused", "repeated"}
    /\ import.pc = "shown" => import.at \in Instances /\ import.bundle \in DOMAIN bundles
    /\ ForeignNamesAreTrue /\ NamedIsMemory

\* A step by which nothing becomes something else.
NothingTurns ==
    /\ made \in Nat /\ made' \in Nat /\ made <= made'
    /\ \A i \in Instances : Stays(objects[i], objects'[i], made)
    /\ \A c \in DOMAIN bundles : c \in DOMAIN bundles' /\ bundles'[c] = bundles[c]

LEMMA KeyStays ==
    ASSUME NothingTurns, NEW r, NEW key, KeyStands(r, key)
    PROVE  KeyStands(r, key)'
<1>1. /\ r.at \in Instances /\ r.id \in 1 .. made /\ r \in [at: Instances, id: 1 .. made]
      /\ objects[r.at][r.id].key \in {key, Gone}
      /\ key \in Sources => objects[r.at][r.id].key = key
  BY DEF KeyStands
<1>2. 1 .. made \subseteq 1 .. made'
  BY DEF NothingTurns
<1>3. /\ objects'[r.at][r.id].key \in {objects[r.at][r.id].key, Gone}
      /\ objects[r.at][r.id].key \in Sources => objects'[r.at][r.id].key = objects[r.at][r.id].key
  BY <1>1 DEF NothingTurns, Stays
<1>4. r \in [at: Instances, id: 1 .. made']
  BY <1>1, <1>2
<1> QED
  BY <1>1, <1>3, <1>4 DEF KeyStands

LEMMA NoSourceStays ==
    ASSUME NothingTurns, NEW r, IsNoSource(r)
    PROVE  IsNoSource(r)'
<1>1. r.at \in Instances /\ r.id \in 1 .. made
      /\ r \in [at: Instances, id: 1 .. made] /\ objects[r.at][r.id].key \notin Sources
  BY DEF IsNoSource
<1>2. 1 .. made \subseteq 1 .. made'
  BY DEF NothingTurns
<1>3. objects'[r.at][r.id].key \in {objects[r.at][r.id].key, Gone}
  BY <1>1 DEF NothingTurns, Stays
<1>4. r \in [at: Instances, id: 1 .. made']
  BY <1>1, <1>2
<1> QED
  BY <1>1, <1>3, <1>4, NoKeyIsGone DEF IsNoSource

LEMMA NamesStay ==
    ASSUME NamedIsMemory, NothingTurns, bundles' = bundles, NEW i \in Instances, NEW p, objects'[i] = p,
           \A j \in Instances : j # i => objects'[j] = objects[j],
           NEW X, \A r \in X : IsNoSource(r), NamesGo(objects[i], p, made', X)
    PROVE  NamedIsMemory'
<1>1. ASSUME NEW j \in Instances, NEW n \in MemoriesIn(objects[j]), NEW r,
             r \in objects[j][n].ext \/ \E l \in objects[j][n].over \cup objects[j][n].by : r = Own(j, l)
      PROVE  IsNoSource(r)'
  <2>1. IsNoSource(r)
    BY <1>1 DEF NamedIsMemory, NamesStand, OwnOf
  <2> QED
    BY <2>1, NoSourceStays
<1>2. ASSUME NEW j \in Instances, NEW n \in MemoriesIn(objects'[j]), NEW r,
             r \in objects'[j][n].ext \/ \E l \in objects'[j][n].over \cup objects'[j][n].by : r = Own(j, l)
      PROVE  IsNoSource(r)'
  <2>1. CASE j # i
    BY <1>1, <1>2, <2>1
  <2>2. CASE j = i /\ r \in p[n].ext
    <3>1. r \in X \/ (n \in MemoriesIn(objects[i]) /\ r \in objects[i][n].ext)
      BY <2>2 DEF NamesGo
    <3>2. CASE r \in X
      <4>1. IsNoSource(r)
        BY <3>2
      <4> QED
        BY <4>1, NoSourceStays
    <3> QED
      BY <1>1, <3>1, <3>2
  <2>3. CASE j = i /\ \E l \in p[n].over \cup p[n].by : r = Own(i, l)
    <3>1. PICK l \in p[n].over \cup p[n].by : r = Own(i, l)
      BY <2>3
    <3>2. (n \in MemoriesIn(objects[i]) /\ l \in objects[i][n].over \cup objects[i][n].by) \/ (l \in 1 .. made' /\ p[l].key \notin Sources)
      BY <2>3 DEF NamesGo
    <3>3. CASE l \in 1 .. made' /\ p[l].key \notin Sources
      BY <3>1, <3>3 DEF Own, IsNoSource
    <3> QED
      BY <1>1, <3>1, <3>2, <3>3
  <2> QED
    BY <1>2, <2>1, <2>2, <2>3
<1>3. ASSUME NEW b \in DOMAIN bundles, NEW e \in bundles[b].memories, NEW r \in e.body.ext PROVE IsNoSource(r)'
  <2>1. IsNoSource(r)
    BY DEF NamedIsMemory
  <2> QED
    BY <2>1, NoSourceStays
<1>4. \A j \in Instances : \A n \in MemoriesIn(objects'[j]) :
         \A r \in objects'[j][n].ext \cup {Own(j, l) : l \in objects'[j][n].over \cup objects'[j][n].by} : IsNoSource(r)'
  BY <1>2
<1> QED
  BY <1>3, <1>4 DEF NamedIsMemory, NamesStand, OwnOf, Own

LEMMA OriginStays ==
    ASSUME NothingTurns, NEW i \in Instances, NEW r, NEW x, OriginStands(i, r, x)
    PROVE  OriginStands(i, r, x)'
<1>1. x.local \in 1 .. made /\ x.local \in 1 .. made'
  BY DEF NothingTurns, OriginStands
<1>2. KeyStands(r, x.body.key)'
  BY KeyStays DEF OriginStands
<1>3. /\ objects'[i][x.local].key \in {objects[i][x.local].key, Gone}
      /\ objects[i][x.local].key \in Sources => objects'[i][x.local].key = objects[i][x.local].key
  BY <1>1 DEF NothingTurns, Stays
<1>4. \E c \in DOMAIN bundles' : bundles'[c].by = r.at /\ \E f \in Carried(bundles'[c]) : f.ref = r /\ f.body = x.body
  BY DEF NothingTurns, OriginStands
<1>5. objects[i][x.local].key \in {x.body.key, Gone}
      /\ (x.body.key \in Sources => objects[i][x.local].key = x.body.key) /\ x.body \in ObjectOf(Refs)
  BY DEF OriginStands
<1> QED
  BY <1>1, <1>2, <1>3, <1>4, <1>5 DEF OriginStands

LEMMA BundleStays ==
    ASSUME NothingTurns, NEW b, BundleStands(b)
    PROVE  BundleStands(b)'
<1>1. ASSUME NEW e \in Carried(b) PROVE EnvelopeStands(e)'
  <2>1. EnvelopeStands(e)
    BY DEF BundleStands
  <2>2. ASSUME NEW r \in e.names PROVE KeyStands(r, e.body.key)'
    BY <2>1, KeyStays DEF EnvelopeStands
  <2> QED
    BY <2>1, <2>2 DEF EnvelopeStands
<1>2. HasOneOfEach(b)' /\ LinksAreWhole(b)'
  BY DEF BundleStands, HasOneOfEach, LinksAreWhole, Carried, NamesAreUnique
<1> QED
  BY <1>1, <1>2 DEF BundleStands, Carried

LEMMA StoreGrows ==
    ASSUME NEW top \in Nat, NEW o, StoreStands(o, top), NEW t \in Nat, top <= t
    PROVE  StoreStands(o, t)
<1>1. 1 .. top \subseteq 1 .. t
  OBVIOUS
<1>2. Things(top) \subseteq Things(t)
  BY <1>1, ObjectsGrow DEF Things
<1>3. o \in [Ids -> Things(t)]
  BY <1>2 DEF StoreStands
<1>4. \A n \in HeldIn(o) : n \in 1 .. t
  BY <1>1 DEF StoreStands
<1> QED
  BY <1>3, <1>4 DEF StoreStands

LEMMA MadeIs == ASSUME BundlesInv PROVE made \in Nat /\ made <= MaxIds /\ 1 .. made \subseteq Ids
BY TopIs DEF BundlesInv

\* A store that lives its own life.
LEMMA StoreStepStands ==
    ASSUME BundlesInv, NEW i \in Instances, NEW p, objects' = [objects EXCEPT ![i] = p],
           made' \in 0 .. MaxIds, made <= made', StoreStands(p, made'), Stays(objects[i], p, made),
           NamesGo(objects[i], p, made', {}),
           edits' \in 0 .. MaxEdits, UNCHANGED <<origins, receipts, bundles, import>>
    PROVE  BundlesInv'
<1>1. made \in Nat /\ made' \in Nat
  BY MadeIs, TopIs
<1>2. objects = [j \in Instances |-> objects[j]]
  BY DEF BundlesInv
<1>3. objects'[i] = p /\ \A j \in Instances : j # i => objects'[j] = objects[j]
  BY <1>2
<1>4. NothingTurns
  <2>1. \A j \in Instances : Stays(objects[j], objects'[j], made)
    BY <1>3 DEF Stays
  <2> QED
    BY <1>1, <2>1 DEF NothingTurns
<1>5. ASSUME NEW j \in Instances PROVE StoreStands(objects'[j], made')
  <2>1. CASE j = i
    BY <1>3, <2>1
  <2>2. CASE j # i
    <3>1. StoreStands(objects[j], made)
      BY DEF BundlesInv
    <3> QED
      BY <1>1, <1>3, <2>2, <3>1, StoreGrows
  <2> QED
    BY <2>1, <2>2
<1>6. ASSUME NEW j \in Instances, NEW r \in DOMAIN origins'[j] PROVE OriginStands(j, r, origins[j][r])'
  <2>1. OriginStands(j, r, origins[j][r])
    BY DEF BundlesInv
  <2>2. PICK x : x = origins[j][r]
    OBVIOUS
  <2>3. OriginStands(j, r, x)'
    BY <1>4, <2>1, <2>2, OriginStays
  <2> QED
    BY <2>2, <2>3
<1>7. ASSUME NEW b \in DOMAIN bundles' PROVE BundleStands(bundles[b])'
  <2>1. BundleStands(bundles[b])
    BY DEF BundlesInv
  <2>2. PICK x : x = bundles[b]
    OBVIOUS
  <2>3. BundleStands(x)'
    BY <1>4, <2>1, <2>2, BundleStays
  <2> QED
    BY <2>2, <2>3
<1>8. objects' = [j \in Instances |-> objects'[j]]
  BY <1>2
<1>9. NamedIsMemory'
  <2>1. NamedIsMemory /\ bundles' = bundles /\ \A r \in {} : IsNoSource(r)
    BY DEF BundlesInv
  <2> QED
    BY <1>3, <1>4, <2>1, NamesStay
<1> QED
  BY <1>5, <1>6, <1>7, <1>8, <1>9 DEF BundlesInv, ForeignNamesAreTrue

LEMMA BundlesStart ==
    ASSUME BundlesInit
    PROVE  BundlesInv
<1>1. PICK owner \in Instances, s \in Sources :
          objects = [i \in Instances |-> [n \in Ids |->
              IF i = owner /\ n <= made THEN NewObject(i, n, s, {}, {}) ELSE Absent]]
  BY DEF BundlesInit
<1>2. made \in {0, 1} /\ made \in 0 .. MaxIds /\ made \in Nat /\ edits = 0 /\ 0 \in 0 .. MaxEdits
  BY PortableBundlesAssumption DEF BundlesInit
<1>3. ASSUME NEW i \in Instances PROVE StoreStands(objects[i], made) /\ MemoriesIn(objects[i]) = {}
  <2>1. PICK o : o = objects[i]
    OBVIOUS
  <2>2. o = [n \in Ids |-> IF i = owner /\ n <= made THEN NewObject(i, n, s, {}, {}) ELSE Absent]
    BY <1>1, <2>1
  <2>3. ASSUME NEW n \in Ids
        PROVE  /\ o[n] \in Things(made)
               /\ o[n].key # Gone => n = 1 /\ n \in 1 .. made /\ o[n].key \notin Texts /\ HasNoLinks(o[n])
    <3>1. CASE i = owner /\ n <= made
      <4>1. n = 1 /\ made = 1 /\ n \in 1 .. made
        BY <1>2, <3>1, TopIs
      <4>2. PICK x : x = NewObject(i, n, s, {}, {})
        OBVIOUS
      <4> DEFINE S == 1 .. made
      <4>3. {} \in SUBSET S
        OBVIOUS
      <4> HIDE DEF S
      <4>4. x \in ObjectOf(S) /\ IsNew(x, i, n, s, {}, {})
        BY <4>2, <4>3, NewObjectIs
      <4>5. o[n] = x
        BY <2>2, <3>1, <4>2
      <4> QED
        BY <4>1, <4>4, <4>5, NoKeyIsGone DEF S, IsNew, HasNoLinks, Things
    <3>2. CASE ~(i = owner /\ n <= made)
      <4>1. o[n] = Absent
        BY <2>2, <3>2
      <4> QED
        BY <4>1 DEF Absent, Things
    <3> QED
      BY <3>1, <3>2
  <2>4. MemoriesIn(o) = {} /\ \A n \in HeldIn(o) : n = 1 /\ n \in 1 .. made /\ HasNoLinks(o[n])
    BY <2>3 DEF HeldIn, MemoriesIn
  <2>5. o \in [Ids -> Things(made)]
    BY <2>2, <2>3
  <2>6. LinksStand(o, MemoriesIn(o))
    BY <2>4 DEF LinksStand
  <2>7. StoreStands(o, made)
    BY <2>4, <2>5, <2>6 DEF StoreStands
  <2> QED
    BY <2>1, <2>4, <2>7
<1>4. objects = [i \in Instances |-> objects[i]]
  BY <1>1
<1>5. origins = [i \in Instances |-> origins[i]] /\ \A i \in Instances : DOMAIN origins[i] = {}
  BY DEF BundlesInit
<1>6. receipts \in [Instances -> SUBSET DOMAIN bundles] /\ bundles = << >> /\ DOMAIN bundles = {}
      /\ bundles \in Seq(Bundles)
  BY DEF BundlesInit
<1>7. import.pc = "idle"
  BY DEF BundlesInit, NoImport
<1>8. ForeignNamesAreTrue /\ NamedIsMemory
  <2>1. \A i \in Instances : MemoriesIn(objects[i]) = {}
    BY <1>3
  <2> QED
    BY <1>6, <2>1 DEF ForeignNamesAreTrue, NamedIsMemory
<1> QED
  BY <1>2, <1>3, <1>4, <1>5, <1>6, <1>7, <1>8 DEF BundlesInv

\* What the model calls held is held in the store.
LEMMA HeldIs ==
    ASSUME NEW i \in Instances
    PROVE  /\ Held(i) = HeldIn(objects[i]) /\ Memories(i) = MemoriesIn(objects[i])
           /\ \A key : Keyed(i, key) = {n \in HeldIn(objects[i]) : objects[i][n].key = key}
BY DEF Held, HeldIn, Memories, MemoriesIn, Keyed

LEMMA TouchKeeps ==
    ASSUME BundlesInv, NEW i \in Instances, NEW m, Touch(i, m)
    PROVE  BundlesInv'
<1>1. m \in MemoriesIn(objects[i]) /\ edits + 1 \in 0 .. MaxEdits /\ StoreStands(objects[i], made)
      /\ made \in Nat
      /\ made \in 0 .. MaxIds
  BY HeldIs, MadeIs, PortableBundlesAssumption DEF Touch, BundlesInv
<1>2. PICK o : o = objects[i]
  OBVIOUS
<1>3. PICK p : p = [o EXCEPT ![m].edited = edits + 1]
  OBVIOUS
<1>4. StoreStands(p, made) /\ Stays(o, p, made) /\ NamesGo(o, p, made, {})
  BY <1>1, <1>2, <1>3, TouchStands
<1>5. objects' = [objects EXCEPT ![i] = p]
  BY <1>2, <1>3 DEF Touch
<1>6. made' = made /\ edits' \in 0 .. MaxEdits /\ UNCHANGED <<origins, receipts, bundles, import>>
  BY <1>1 DEF Touch
<1>7. made' \in 0 .. MaxIds /\ made <= made' /\ StoreStands(p, made') /\ NamesGo(o, p, made', {})
  BY <1>1, <1>4, <1>6
<1> QED
  BY <1>2, <1>4, <1>5, <1>6, <1>7, StoreStepStands

LEMMA EraseKeeps ==
    ASSUME BundlesInv, NEW i \in Instances, NEW m, Erase(i, m)
    PROVE  BundlesInv'
<1>1. m \in MemoriesIn(objects[i]) /\ edits + 1 \in 0 .. MaxEdits /\ StoreStands(objects[i], made)
      /\ made \in Nat
      /\ made \in 0 .. MaxIds
  BY HeldIs, MadeIs, PortableBundlesAssumption DEF Erase, BundlesInv
<1>2. PICK o : o = objects[i]
  OBVIOUS
<1>3. PICK p : p = [o EXCEPT ![m] = Absent]
  OBVIOUS
<1>4. StoreStands(p, made) /\ Stays(o, p, made) /\ NamesGo(o, p, made, {})
  BY <1>1, <1>2, <1>3, EraseStands
<1>5. objects' = [objects EXCEPT ![i] = p]
  BY <1>2, <1>3 DEF Erase
<1>6. made' = made /\ edits' \in 0 .. MaxEdits /\ UNCHANGED <<origins, receipts, bundles, import>>
  BY <1>1 DEF Erase
<1>7. made' \in 0 .. MaxIds /\ made <= made' /\ StoreStands(p, made') /\ NamesGo(o, p, made', {})
  BY <1>1, <1>4, <1>6
<1> QED
  BY <1>2, <1>4, <1>5, <1>6, <1>7, StoreStepStands

LEMMA SupersessionKeeps ==
    ASSUME BundlesInv, NEW i \in Instances, NEW m, NEW text \in Texts, Supersede(i, m, text)
    PROVE  BundlesInv'
<1>1. /\ m \in MemoriesIn(objects[i]) /\ objects[i][m].current /\ edits + 1 \in 0 .. MaxEdits
      /\ StoreStands(objects[i], made) /\ made \in Nat /\ made < MaxIds
      /\ \A n \in HeldIn(objects[i]) : objects[i][n].key # text
  <2>1. /\ m \in Memories(i) /\ objects[i][m].current /\ Keyed(i, text) = {} /\ made < MaxIds /\ edits < MaxEdits
        /\ made \in Nat /\ StoreStands(objects[i], made) /\ edits \in 0 .. MaxEdits
    BY MadeIs DEF Supersede, BundlesInv
  <2>2. Keyed(i, text) = {n \in HeldIn(objects[i]) : objects[i][n].key = text}
    BY HeldIs
  <2>3. \A n \in HeldIn(objects[i]) : objects[i][n].key # text
    BY <2>1, <2>2
  <2>4. edits + 1 \in 0 .. MaxEdits
    BY <2>1, PortableBundlesAssumption
  <2> QED
    BY <2>1, <2>3, <2>4, HeldIs
<1>2. PICK o : o = objects[i]
  OBVIOUS
<1>3. PICK x : x = made + 1
  OBVIOUS
<1>4. PICK p : p = [o EXCEPT ![m] = [@ EXCEPT !.current = FALSE, !.by = {x}, !.edited = edits + 1],
                             ![x] = NewObject(i, x, text, {}, {m})]
  OBVIOUS
<1>5. StoreStands(p, x) /\ Stays(o, p, made) /\ NamesGo(o, p, x, {})
  BY <1>1, <1>2, <1>3, <1>4, SupersedeStands
<1>6. objects' = [objects EXCEPT ![i] = p]
  <2>1. objects = [j \in Instances |-> objects[j]] /\ o \in [Ids -> Things(made)]
    BY <1>1, <1>2 DEF BundlesInv, StoreStands
  <2>2. objects' = [objects EXCEPT
           ![i][m] = [@ EXCEPT !.current = FALSE, !.by = {x}, !.edited = edits + 1],
           ![i][x] = NewObject(i, x, text, {}, {m})]
    BY <1>3 DEF Supersede
  <2> QED
    BY <1>2, <1>4, <2>1, <2>2
<1>7. made' = x /\ edits' \in 0 .. MaxEdits /\ UNCHANGED <<origins, receipts, bundles, import>>
  BY <1>1, <1>3 DEF Supersede
<1>8. made' \in 0 .. MaxIds /\ made <= made' /\ StoreStands(p, made') /\ NamesGo(o, p, made', {})
  BY <1>1, <1>3, <1>5, <1>7, TopIs
<1> QED
  BY <1>2, <1>5, <1>6, <1>7, <1>8, StoreStepStands

LEMMA RememberKeeps ==
    ASSUME BundlesInv, NEW i \in Instances, NEW text \in Texts, Remember(i, text)
    PROVE  BundlesInv'
<1>1. StoreStands(objects[i], made) /\ made \in Nat /\ edits \in 0 .. MaxEdits
  BY MadeIs DEF BundlesInv
<1>2. PICK o : o = objects[i]
  OBVIOUS
<1>3. PICK there : there = UNION {Keyed(i, s) : s \in RestsOn[text]}
  OBVIOUS
<1>4. PICK new : new = SetToSeq({s \in RestsOn[text] : Keyed(i, s) = {}})
  OBVIOUS
<1>5. PICK m : m = made + Len(new) + 1
  OBVIOUS
<1>6. PICK p : IsRemembered(o, p, i, text, made, m, there, new)
  BY DEF IsRemembered
<1>7. /\ m <= MaxIds /\ made' = m /\ objects' = [objects EXCEPT ![i] = p]
      /\ Keyed(i, text) = {} /\ edits' = edits /\ UNCHANGED <<origins, receipts, bundles, import>>
  BY <1>2, <1>3, <1>4, <1>5, <1>6, Zenon DEF Remember, IsRemembered
<1>8. \A key : Keyed(i, key) = {n \in HeldIn(o) : o[n].key = key}
  BY <1>2, HeldIs
<1>9. \A n \in HeldIn(o) : o[n].key # text
  <2>1. {n \in HeldIn(o) : o[n].key = text} = {}
    BY <1>7, <1>8
  <2> QED
    BY <2>1
<1>10. there = {n \in HeldIn(o) : o[n].key \in RestsOn[text]}
  BY <1>3, <1>8
<1>11. Enumerates(new, {s \in RestsOn[text] : \A n \in HeldIn(o) : o[n].key # s})
  <2> DEFINE S == {s \in RestsOn[text] : Keyed(i, s) = {}}
  <2>1. S = {s \in RestsOn[text] : \A n \in HeldIn(o) : o[n].key # s}
    BY <1>8
  <2>2. IsFiniteSet(S)
    BY PortableBundlesAssumption, FS_Subset
  <2>3. Enumerates(new, S)
    BY <1>4, <2>2, SetToSeqEnumerates
  <2> QED
    BY <2>1, <2>3
<1>12. m \in Ids /\ StoreStands(p, m) /\ Stays(o, p, made) /\ NamesGo(o, p, m, {})
  BY <1>1, <1>2, <1>5, <1>6, <1>7, <1>9, <1>10, <1>11, RememberStands
<1>13. /\ made' \in 0 .. MaxIds /\ made <= made' /\ StoreStands(p, made') /\ edits' \in 0 .. MaxEdits
       /\ NamesGo(o, p, made', {})
  <2>1. Len(new) \in Nat
    BY <1>11 DEF Enumerates
  <2> QED
    BY <1>1, <1>5, <1>7, <1>12, <2>1, TopIs
<1> QED
  BY <1>2, <1>7, <1>12, <1>13, StoreStepStands

----------------------------------------------------------------------------
(* What a store exports *)

\* The names an object may be exported under.
Called(i, n) == {Own(i, n)} \cup OriginsOf(i, n)

LEMMA FiniteImage ==
    ASSUME NEW S, IsFiniteSet(S), NEW f, NEW T, T = {f[x] : x \in S}
    PROVE  IsFiniteSet(T)
<1>1. PICK g : g = [x \in S |-> f[x]]
  OBVIOUS
<1>2. g \in Surjection(S, T)
  BY <1>1 DEF Surjection
<1> QED
  BY <1>2, FS_Surjection DEF ExistsSurjection

LEMMA CalledIs ==
    ASSUME BundlesInv, NEW i \in Instances, NEW n \in HeldIn(objects[i]), NEW r \in Called(i, n)
    PROVE  KeyStands(r, objects[i][n].key) /\ r \in Refs
<1>1. n \in 1 .. made /\ n \in Ids /\ objects[i][n].key # Gone /\ 1 .. made \subseteq Ids
  <2>1. StoreStands(objects[i], made)
    BY DEF BundlesInv
  <2> QED
    BY <2>1, MadeIs DEF StoreStands, HeldIn
<1>2. KeyStands(r, objects[i][n].key)
  <2>1. CASE r = Own(i, n)
    BY <1>1, <2>1 DEF Own, KeyStands
  <2>2. CASE r \in OriginsOf(i, n)
    <3>1. r \in DOMAIN origins[i] /\ origins[i][r].local = n
      BY <2>2 DEF OriginsOf
    <3>2. OriginStands(i, r, origins[i][r])
      BY <3>1 DEF BundlesInv
    <3>3. KeyStands(r, origins[i][r].body.key) /\ objects[i][n].key = origins[i][r].body.key
      BY <1>1, <3>1, <3>2 DEF OriginStands
    <3> QED
      BY <3>3
  <2> QED
    BY <2>1, <2>2 DEF Called
<1> QED
  BY <1>1, <1>2 DEF KeyStands, Refs

\* No name is that of two objects.
LEMMA NoNameIsShared ==
    ASSUME BundlesInv, NEW i \in Instances, NEW m \in HeldIn(objects[i]), NEW n \in HeldIn(objects[i]),
           NEW r \in Called(i, m), r \in Called(i, n)
    PROVE  m = n
<1>1. /\ \A a, b \in HeldIn(objects[i]) : objects[i][a].key = objects[i][b].key => a = b
      /\ objects[i][m].key # Gone /\ objects[i][n].key # Gone
  <2>1. StoreStands(objects[i], made)
    BY DEF BundlesInv
  <2> QED
    BY <2>1 DEF StoreStands, HeldIn
<1>2. ASSUME NEW a \in HeldIn(objects[i]), NEW b \in HeldIn(objects[i]), r \in OriginsOf(i, a), r = Own(i, b)
      PROVE  a = b
  <2>1. KeyStands(r, objects[i][a].key)
    BY <1>2, CalledIs DEF Called
  <2>2. objects[i][b].key \in {objects[i][a].key, Gone} /\ objects[i][b].key # Gone
    BY <1>2, <2>1 DEF KeyStands, Own, HeldIn
  <2> QED
    BY <1>1, <2>2
<1>3. CASE r = Own(i, m) /\ r = Own(i, n)
  BY <1>3 DEF Own
<1>4. CASE r \in OriginsOf(i, m) /\ r \in OriginsOf(i, n)
  BY <1>4 DEF OriginsOf
<1> QED
  BY <1>2, <1>3, <1>4 DEF Called

LEMMA RefIs ==
    ASSUME NEW i, NEW n, NEW body
    PROVE  /\ RefOf(i, n, body) \in Called(i, n) /\ Preferred(i, n) \in Called(i, n)
           /\ RefOf(i, n, body) # Own(i, n) =>
                 RefOf(i, n, body) \in DOMAIN origins[i] /\ origins[i][RefOf(i, n, body)].body = body
<1>1. PICK same : same = {r \in OriginsOf(i, n) : origins[i][r].body = body}
  OBVIOUS
<1>2. RefOf(i, n, body) = IF same = {} THEN Own(i, n) ELSE CHOOSE r \in same : TRUE
  BY <1>1 DEF RefOf
<1>3. same # {} => RefOf(i, n, body) \in same
  BY <1>2
<1>4. Preferred(i, n) \in Called(i, n)
  BY DEF Preferred, Called
<1> QED
  BY <1>1, <1>2, <1>3, <1>4 DEF Called, OriginsOf

\* What an envelope says of an object.
Envelops(e, i, n) ==
    /\ e \in Envelopes /\ EnvelopeStands(e) /\ e.body.key = objects[i][n].key
    /\ e.names \subseteq Called(i, n)
    /\ e.ref # Own(i, n) => e.ref \in DOMAIN origins[i] /\ origins[i][e.ref].body = e.body

LEMMA SourceIsEnveloped ==
    ASSUME BundlesInv, NEW i \in Instances, NEW n \in HeldIn(objects[i]) \ MemoriesIn(objects[i]),
           NEW e, e = SourceEnvelope(i, n)
    PROVE  Envelops(e, i, n) /\ SourceRef(i, n) \in e.names /\ e.body.key \in Sources
           /\ HasNoLinks(e.body)
<1>1. PICK x : x = objects[i][n]
  OBVIOUS
<1>2. StoreStands(objects[i], made) /\ made \in Nat
  BY MadeIs DEF BundlesInv
<1>3. x \in ObjectOf(1 .. made) /\ HasNoLinks(x) /\ x.key # Gone /\ x.key \notin Texts
  BY <1>1, <1>2, StoreHolds DEF StoreStands, HeldIn, MemoriesIn
<1>4. x.key \in Sources
  BY <1>3, ObjectIs
<1>5. x \in ObjectOf(Refs)
  BY <1>3 DEF ObjectOf, HasNoLinks
<1>6. PICK r : r = RefOf(i, n, x)
  OBVIOUS
<1>7. /\ r \in Called(i, n) /\ KeyStands(r, x.key) /\ r \in Refs
      /\ r # Own(i, n) => r \in DOMAIN origins[i] /\ origins[i][r].body = x
  BY <1>1, <1>6, RefIs, CalledIs
<1>8. e = [ref |-> r, names |-> {r}, body |-> x] /\ SourceRef(i, n) = r
  BY <1>1, <1>6 DEF SourceEnvelope, Envelope, SourceBody, SourceRef
<1>9. e \in Envelopes
  <2> HIDE DEF Refs
  <2> QED
    BY <1>5, <1>7, <1>8 DEF Envelopes
<1> QED
  BY <1>1, <1>3, <1>4, <1>7, <1>8, <1>9 DEF Envelops, EnvelopeStands

\* What links are exported as, and what is said of those that are not.
RefsOf(i, L, M) == {Preferred(i, l) : l \in L \cap M}
SourceRefsOf(i, L) == {SourceRef(i, s) : s \in L}

IsMemoryOf(e, i, n, M) ==
    /\ Envelops(e, i, n) /\ Preferred(i, n) \in e.names /\ e.body.key \in Texts
    /\ e.body.current = objects[i][n].current
    /\ e.body.from = SourceRefsOf(i, objects[i][n].from)
    /\ e.body.over = RefsOf(i, objects[i][n].over, M)
    /\ e.body.by = RefsOf(i, objects[i][n].by, M)
    /\ e.body.ext = objects[i][n].ext \cup OwnOf(i, (objects[i][n].over \cup objects[i][n].by) \ M)

LEMMA MemoryIsEnveloped ==
    ASSUME BundlesInv, NEW i \in Instances, NEW M \in SUBSET MemoriesIn(objects[i]), NEW n \in M,
           NEW e, e = MemoryEnvelope(i, n, M)
    PROVE  IsMemoryOf(e, i, n, M)
<1>1. PICK x : x = objects[i][n]
  OBVIOUS
<1>2. StoreStands(objects[i], made) /\ made \in Nat /\ 1 .. made \subseteq Ids
  BY MadeIs DEF BundlesInv
<1>3. n \in HeldIn(objects[i]) /\ x.key \in Texts
  BY <1>1 DEF MemoriesIn
<1>4. x \in ObjectOf(1 .. made)
  BY <1>1, <1>2, <1>3, StoreHolds DEF HeldIn
<1>5. x.from \subseteq HeldIn(objects[i]) \ MemoriesIn(objects[i])
  BY <1>1, <1>2 DEF StoreStands
<1>6. PICK from : from = {SourceRef(i, s) : s \in x.from}
  OBVIOUS
<1>7. PICK over : over = {Preferred(i, l) : l \in x.over \cap M}
  OBVIOUS
<1>8. PICK by : by = {Preferred(i, l) : l \in x.by \cap M}
  OBVIOUS
<1>9. PICK ext : ext = x.ext \cup {Own(i, l) : l \in (x.over \cup x.by) \ M}
  OBVIOUS
<1>10. PICK y : y = [x EXCEPT !.from = from, !.over = over, !.by = by, !.ext = ext]
  OBVIOUS
<1>11. MemoryBody(i, n, M) = y
  BY <1>1, <1>6, <1>7, <1>8, <1>9, <1>10 DEF MemoryBody
<1>12. \A s \in HeldIn(objects[i]) : SourceRef(i, s) \in Refs /\ Preferred(i, s) \in Refs
  BY RefIs, CalledIs DEF SourceRef
<1>13. from \in SUBSET Refs /\ over \in SUBSET Refs /\ by \in SUBSET Refs
  BY <1>5, <1>6, <1>7, <1>8, <1>12 DEF MemoriesIn
<1>14. ext \in SUBSET Refs
  <2>1. x.ext \subseteq Refs /\ x.over \subseteq Ids /\ x.by \subseteq Ids
    BY <1>2, <1>4, ObjectIs
  <2>2. \A l \in Ids : Own(i, l) \in Refs
    BY DEF Own, Refs
  <2> QED
    BY <1>9, <2>1, <2>2
<1>15. /\ y.key = x.key /\ y.current = x.current /\ y.from = from /\ y.over = over /\ y.by = by /\ y.ext = ext
  BY <1>4, <1>10 DEF ObjectOf
<1>16. y \in ObjectOf(Refs)
  <2> HIDE DEF Refs
  <2> QED
    BY <1>4, <1>10, <1>13, <1>14 DEF ObjectOf
<1>17. PICK r : r = RefOf(i, n, y)
  OBVIOUS
<1>18. PICK q : q = Preferred(i, n)
  OBVIOUS
<1>19. /\ r \in Called(i, n) /\ KeyStands(r, x.key) /\ r \in Refs
       /\ q \in Called(i, n) /\ KeyStands(q, x.key) /\ q \in Refs
       /\ r # Own(i, n) => r \in DOMAIN origins[i] /\ origins[i][r].body = y
  BY <1>1, <1>3, <1>17, <1>18, RefIs, CalledIs
<1>20. e = [ref |-> r, names |-> {r} \cup {q}, body |-> y]
  BY <1>11, <1>17, <1>18 DEF MemoryEnvelope, Envelope
<1>21. e \in Envelopes
  <2> HIDE DEF Refs
  <2> QED
    BY <1>16, <1>19, <1>20 DEF Envelopes
<1>22. Envelops(e, i, n)
  BY <1>1, <1>15, <1>18, <1>19, <1>20, <1>21 DEF Envelops, EnvelopeStands
<1> QED
  BY <1>1, <1>3, <1>6, <1>7, <1>8, <1>9, <1>15, <1>18, <1>19, <1>20, <1>22 DEF IsMemoryOf, RefsOf, SourceRefsOf, OwnOf

LEMMA MemoriesAreEnveloped ==
    ASSUME BundlesInv, NEW i \in Instances, NEW M \in SUBSET MemoriesIn(objects[i])
    PROVE  \A n \in M : IsMemoryOf(MemoryEnvelope(i, n, M), i, n, M)
<1> SUFFICES ASSUME NEW n \in M PROVE IsMemoryOf(MemoryEnvelope(i, n, M), i, n, M)
  OBVIOUS
<1>1. PICK e : e = MemoryEnvelope(i, n, M)
  OBVIOUS
<1>2. IsMemoryOf(e, i, n, M)
  BY <1>1, MemoryIsEnveloped
<1> QED
  BY <1>1, <1>2

\* What a memory names of a selected one is what that one is called.
LEMMA LinkIs ==
    ASSUME BundlesInv, NEW i \in Instances, NEW M \in SUBSET MemoriesIn(objects[i]), NEW n \in M, NEW L,
           NEW refs, refs = RefsOf(i, L, M),
           NEW names, names \subseteq Called(i, n), Preferred(i, n) \in names
    PROVE  refs \cap names # {} <=> n \in L
<1>1. M \subseteq HeldIn(objects[i])
  BY DEF MemoriesIn
<1>2. ASSUME NEW r \in refs, r \in names PROVE n \in L
  <2>1. PICK l \in L \cap M : r = Preferred(i, l)
    BY <1>2 DEF RefsOf
  <2>2. r \in Called(i, l) /\ r \in Called(i, n)
    BY <1>2, <2>1, RefIs
  <2>3. l = n
    BY <1>1, <2>1, <2>2, NoNameIsShared
  <2> QED
    BY <2>1, <2>3
<1>3. ASSUME n \in L PROVE Preferred(i, n) \in refs
  BY <1>3 DEF RefsOf
<1> QED
  BY <1>2, <1>3

SourcesOf(i, M) == UNION {objects[i][n].from : n \in M}

LEMMA PayloadHas ==
    ASSUME BundlesInv, NEW i \in Instances, NEW M \in SUBSET MemoriesIn(objects[i]), NEW b, b = Payload(i, M)
    PROVE  /\ b.by = i /\ SourcesOf(i, M) \subseteq HeldIn(objects[i]) \ MemoriesIn(objects[i])
           /\ b.sources = {SourceEnvelope(i, s) : s \in SourcesOf(i, M)}
           /\ b.memories = {MemoryEnvelope(i, n, M) : n \in M}
           /\ \A e \in b.sources : \E s \in SourcesOf(i, M) : e = SourceEnvelope(i, s) /\ Envelops(e, i, s)
           /\ \A e \in b.memories : \E n \in M : e = MemoryEnvelope(i, n, M) /\ Envelops(e, i, n)
           /\ b \in Bundles
<1>1. /\ b.by = i /\ b.sources = {SourceEnvelope(i, s) : s \in SourcesOf(i, M)}
      /\ b.memories = {MemoryEnvelope(i, n, M) : n \in M}
      /\ b = [by |-> b.by, sources |-> b.sources, memories |-> b.memories]
  BY DEF Payload, SourcesOf
<1>2. SourcesOf(i, M) \subseteq HeldIn(objects[i]) \ MemoriesIn(objects[i])
  BY DEF BundlesInv, StoreStands, SourcesOf
<1>3. \A e \in b.sources : \E s \in SourcesOf(i, M) : e = SourceEnvelope(i, s) /\ Envelops(e, i, s)
  BY <1>1, <1>2, SourceIsEnveloped
<1>4. ASSUME NEW e \in b.memories PROVE \E n \in M : e = MemoryEnvelope(i, n, M) /\ Envelops(e, i, n)
  <2>1. PICK n \in M : e = MemoryEnvelope(i, n, M)
    BY <1>1
  <2>2. IsMemoryOf(e, i, n, M)
    BY <2>1, MemoriesAreEnveloped
  <2> QED
    BY <2>1, <2>2 DEF IsMemoryOf
<1>5. b.sources \in SUBSET Envelopes /\ b.memories \in SUBSET Envelopes
  BY <1>3, <1>4 DEF Envelops
<1>6. b \in Bundles
  <2> HIDE DEF Envelopes
  <2> QED
    BY <1>1, <1>5 DEF Bundles
<1> QED
  BY <1>1, <1>2, <1>3, <1>4, <1>6

IsEnvelopeOf(e, i, n, M, b) ==
    /\ Envelops(e, i, n)
    /\ e \in b.sources => n \in SourcesOf(i, M) /\ e = SourceEnvelope(i, n)
    /\ e \notin b.sources => n \in M /\ e = MemoryEnvelope(i, n, M)

LEMMA PayloadNamesOnce ==
    ASSUME BundlesInv, NEW i \in Instances, NEW M \in SUBSET MemoriesIn(objects[i]), NEW b, b = Payload(i, M)
    PROVE  HasOneOfEach(b)
<1> DEFINE H == HeldIn(objects[i])
           N == MemoriesIn(objects[i])
           S == SourcesOf(i, M)
<1>1. /\ b.sources = {SourceEnvelope(i, s) : s \in S} /\ b.memories = {MemoryEnvelope(i, n, M) : n \in M}
      /\ S \subseteq H \ N /\ M \subseteq N /\ N \subseteq H
      /\ \A e \in b.sources : \E s \in S : e = SourceEnvelope(i, s) /\ Envelops(e, i, s)
      /\ \A e \in b.memories : \E n \in M : e = MemoryEnvelope(i, n, M) /\ Envelops(e, i, n)
  BY PayloadHas DEF MemoriesIn
<1>2. IsFiniteSet(Carried(b))
  <2>1. IsFiniteSet(Ids) /\ H \subseteq Ids
    BY TopIs, FS_Interval DEF HeldIn
  <2>2. IsFiniteSet(S) /\ IsFiniteSet(M)
    BY <1>1, <2>1, FS_Subset
  <2>3. PICK f : f = [s \in S |-> SourceEnvelope(i, s)]
    OBVIOUS
  <2>4. PICK g : g = [n \in M |-> MemoryEnvelope(i, n, M)]
    OBVIOUS
  <2>5. b.sources = {f[s] : s \in S} /\ b.memories = {g[n] : n \in M}
    BY <1>1, <2>3, <2>4
  <2>6. IsFiniteSet(b.sources)
    BY <2>2, <2>5, FiniteImage
  <2>7. IsFiniteSet(b.memories)
    BY <2>2, <2>5, FiniteImage
  <2> QED
    BY <2>6, <2>7, FS_Union DEF Carried
<1>3. ASSUME NEW e \in b.sources PROVE e.body.key \in Sources /\ HasNoLinks(e.body)
  <2>1. PICK s \in S : e = SourceEnvelope(i, s)
    BY <1>1
  <2> QED
    BY <1>1, <2>1, SourceIsEnveloped
<1>4. ASSUME NEW e \in b.memories PROVE e.body.key \in Texts
  <2>1. PICK n \in M : e = MemoryEnvelope(i, n, M)
    BY <1>1
  <2> QED
    BY <2>1, MemoriesAreEnveloped DEF IsMemoryOf
<1>5. ASSUME NEW e \in Carried(b) PROVE \E n \in H : IsEnvelopeOf(e, i, n, M, b)
  BY <1>1 DEF Carried, IsEnvelopeOf
<1>6. \A m, n \in H : objects[i][m].key = objects[i][n].key => m = n
  BY DEF BundlesInv, StoreStands
<1>7. ASSUME NEW e \in Carried(b), NEW f \in Carried(b), NEW n, n \in H, Envelops(e, i, n), Envelops(f, i, n)
      PROVE  e = f
  <2>1. PICK k \in H : IsEnvelopeOf(e, i, k, M, b)
    BY <1>5
  <2>2. PICK l \in H : IsEnvelopeOf(f, i, l, M, b)
    BY <1>5
  <2>3. k = n /\ l = n
    BY <1>6, <1>7, <2>1, <2>2 DEF Envelops, IsEnvelopeOf
  <2> HIDE DEF H, N, S
  <2>4. e \in b.sources <=> f \in b.sources
    BY <1>1, <2>1, <2>2, <2>3 DEF IsEnvelopeOf, S
  <2> QED
    BY <2>1, <2>2, <2>3, <2>4 DEF IsEnvelopeOf
<1>8. ASSUME NEW e \in Carried(b), NEW f \in Carried(b), e.body.key = f.body.key PROVE e = f
  <2>1. PICK m \in H : Envelops(e, i, m)
    BY <1>5 DEF IsEnvelopeOf
  <2>2. PICK n \in H : Envelops(f, i, n)
    BY <1>5 DEF IsEnvelopeOf
  <2>3. m = n
    BY <1>6, <1>8, <2>1, <2>2 DEF Envelops
  <2> QED
    BY <1>7, <2>1, <2>2, <2>3
<1>9. ASSUME NEW e \in Carried(b), NEW f \in Carried(b), e # f PROVE e.names \cap f.names = {}
  <2>1. PICK m \in H : Envelops(e, i, m)
    BY <1>5 DEF IsEnvelopeOf
  <2>2. PICK n \in H : Envelops(f, i, n)
    BY <1>5 DEF IsEnvelopeOf
  <2>3. ASSUME NEW r \in e.names, r \in f.names PROVE FALSE
    <3>1. r \in Called(i, m) /\ r \in Called(i, n)
      BY <2>1, <2>2, <2>3 DEF Envelops
    <3>2. m = n
      BY <3>1, NoNameIsShared
    <3> QED
      BY <1>7, <1>9, <2>1, <2>2, <3>2
  <2> QED
    BY <2>3
<1> QED
  BY <1>2, <1>3, <1>4, <1>8, <1>9 DEF HasOneOfEach, NamesAreUnique

LEMMA PayloadLinksWhole ==
    ASSUME BundlesInv, NEW i \in Instances, NEW M \in SUBSET MemoriesIn(objects[i]), NEW b, b = Payload(i, M)
    PROVE  LinksAreWhole(b)
<1> DEFINE o == objects[i]
           S == SourcesOf(i, M)
<1>1. /\ b.sources = {SourceEnvelope(i, s) : s \in S} /\ b.memories = {MemoryEnvelope(i, n, M) : n \in M}
      /\ S \subseteq HeldIn(o) \ MemoriesIn(o)
      /\ \A e \in b.memories : \E n \in M : e = MemoryEnvelope(i, n, M) /\ Envelops(e, i, n)
  BY PayloadHas
<1>2. \A s \in S : SourceRef(i, s) \in NamesOf(b.sources)
  BY <1>1, SourceIsEnveloped DEF NamesOf
<1>3. \A n \in M : Preferred(i, n) \in NamesOf(b.memories)
  <2> SUFFICES ASSUME NEW n \in M PROVE Preferred(i, n) \in NamesOf(b.memories)
    OBVIOUS
  <2>1. MemoryEnvelope(i, n, M) \in b.memories
    BY <1>1
  <2>2. Preferred(i, n) \in MemoryEnvelope(i, n, M).names
    BY MemoriesAreEnveloped DEF IsMemoryOf
  <2> QED
    BY <2>1, <2>2 DEF NamesOf
<1>4. LinksStand(o, MemoriesIn(o))
  BY DEF BundlesInv, StoreStands
<1>5. ASSUME NEW e \in b.memories
      PROVE  /\ e.body.from \subseteq NamesOf(b.sources) /\ e.body.over \cup e.body.by \subseteq NamesOf(b.memories)
             /\ e.body.current => e.body.by = {}
             /\ ~e.body.current => e.body.by # {} \/ e.body.ext # {}
  <2>1. PICK n \in M : e = MemoryEnvelope(i, n, M)
    BY <1>1
  <2>2. /\ e.body.current = o[n].current
        /\ e.body.from = SourceRefsOf(i, o[n].from)
        /\ e.body.over = RefsOf(i, o[n].over, M)
        /\ e.body.by = RefsOf(i, o[n].by, M)
        /\ e.body.ext = o[n].ext \cup OwnOf(i, (o[n].over \cup o[n].by) \ M)
    <3>1. IsMemoryOf(e, i, n, M)
      BY <2>1, MemoriesAreEnveloped
    <3> QED
      BY <3>1 DEF IsMemoryOf
  <2>3. o[n].from \subseteq S
    BY DEF SourcesOf
  <2>4. e.body.from \subseteq NamesOf(b.sources) /\ e.body.over \cup e.body.by \subseteq NamesOf(b.memories)
    <3> HIDE DEF S, o
    <3> QED
      BY <1>2, <1>3, <2>2, <2>3 DEF RefsOf, SourceRefsOf
  <2>5. n \in MemoriesIn(o)
    OBVIOUS
  <2>6. (o[n].current => o[n].by = {}) /\ (~o[n].current => o[n].by # {} \/ o[n].ext # {})
    BY <1>4, <2>5 DEF LinksStand
  <2>7. e.body.current => e.body.by = {}
    BY <2>2, <2>6 DEF RefsOf
  <2>8. ASSUME ~e.body.current PROVE e.body.by # {} \/ e.body.ext # {}
    <3>1. CASE o[n].ext # {}
      BY <2>2, <3>1
    <3>2. CASE o[n].by # {}
      <4>1. PICK l : l \in o[n].by
        BY <3>2
      <4>2. CASE l \in M
        BY <2>2, <4>1, <4>2 DEF RefsOf
      <4>3. CASE l \notin M
        <5>1. Own(i, l) \in e.body.ext
          BY <2>2, <4>1, <4>3 DEF OwnOf
        <5> QED
          BY <5>1
      <4> QED
        BY <4>2, <4>3
    <3> QED
      BY <2>2, <2>6, <2>8, <3>1, <3>2
  <2> QED
    BY <2>4, <2>7, <2>8
<1>6. ASSUME NEW e \in b.memories, NEW f \in b.memories
      PROVE  /\ e.body.over \cap f.names # {} <=> f.body.by \cap e.names # {}
             /\ e.body.over \cap f.names # {} => ~f.body.current
  <2>1. PICK m \in M : e = MemoryEnvelope(i, m, M)
    BY <1>1
  <2>2. PICK n \in M : f = MemoryEnvelope(i, n, M)
    BY <1>1
  <2>3. /\ e.body.over = RefsOf(i, o[m].over, M) /\ e.names \subseteq Called(i, m)
        /\ Preferred(i, m) \in e.names
    BY ZenonT(30), <2>1, MemoriesAreEnveloped DEF Envelops, IsMemoryOf
  <2>4. /\ f.body.by = RefsOf(i, o[n].by, M) /\ f.names \subseteq Called(i, n)
        /\ Preferred(i, n) \in f.names /\ f.body.current = o[n].current
    BY ZenonT(30), <2>2, MemoriesAreEnveloped DEF Envelops, IsMemoryOf
  <2>5. e.body.over \cap f.names # {} <=> n \in o[m].over
    <3>1. PICK L : L = o[m].over
      OBVIOUS
    <3>2. PICK refs : refs = e.body.over
      OBVIOUS
    <3>3. PICK names : names = f.names
      OBVIOUS
    <3>4. refs = RefsOf(i, L, M) /\ names \subseteq Called(i, n) /\ Preferred(i, n) \in names
      BY <2>3, <2>4, <3>1, <3>2, <3>3
    <3>5. refs \cap names # {} <=> n \in L
      BY <3>4, LinkIs
    <3> QED
      BY <3>1, <3>2, <3>3, <3>5
  <2>6. f.body.by \cap e.names # {} <=> m \in o[n].by
    <3>1. PICK L : L = o[n].by
      OBVIOUS
    <3>2. PICK refs : refs = f.body.by
      OBVIOUS
    <3>3. PICK names : names = e.names
      OBVIOUS
    <3>4. refs = RefsOf(i, L, M) /\ names \subseteq Called(i, m) /\ Preferred(i, m) \in names
      BY <2>3, <2>4, <3>1, <3>2, <3>3
    <3>5. refs \cap names # {} <=> m \in L
      BY <3>4, LinkIs
    <3> QED
      BY <3>1, <3>2, <3>3, <3>5
  <2>7. m \in MemoriesIn(o) /\ n \in MemoriesIn(o)
    OBVIOUS
  <2>8. (n \in o[m].over <=> m \in o[n].by) /\ (n \in o[m].over => ~o[n].current)
    BY <1>4, <2>7 DEF LinksStand
  <2> QED
    BY <2>4, <2>5, <2>6, <2>8
<1> QED
  BY <1>5, <1>6 DEF LinksAreWhole

LEMMA PayloadStands ==
    ASSUME BundlesInv, NEW i \in Instances, NEW M \in SUBSET MemoriesIn(objects[i]), NEW b, b = Payload(i, M)
    PROVE  /\ b \in Bundles /\ b.by = i /\ BundleStands(b)
           /\ \A e \in Carried(b) : e.ref.at # i => e.ref \in DOMAIN origins[i] /\ origins[i][e.ref].body = e.body
<1>1. ASSUME NEW e \in Carried(b) PROVE \E n : Envelops(e, i, n)
  BY PayloadHas DEF Carried
<1>2. \A e \in Carried(b) : EnvelopeStands(e)
  BY <1>1 DEF Envelops
<1>3. ASSUME NEW e \in Carried(b), e.ref.at # i
      PROVE  e.ref \in DOMAIN origins[i] /\ origins[i][e.ref].body = e.body
  <2>1. PICK n : Envelops(e, i, n)
    BY <1>1
  <2>2. Own(i, n).at = i
    BY DEF Own
  <2>3. e.ref # Own(i, n)
    BY <1>3, <2>2
  <2> QED
    BY <2>1, <2>3 DEF Envelops
<1> QED
  BY <1>2, <1>3, PayloadHas, PayloadNamesOnce, PayloadLinksWhole DEF BundleStands

\* One file more.
LEMMA ExportKeeps ==
    ASSUME BundlesInv, NEW i \in Instances, NEW M, Export(i, M)
    PROVE  BundlesInv'
<1>1. PICK b : b = Payload(i, M)
  OBVIOUS
<1>2. /\ M \in SUBSET MemoriesIn(objects[i]) /\ bundles' = Append(bundles, b)
      /\ UNCHANGED <<objects, origins, receipts, import, made, edits>>
  BY <1>1, HeldIs DEF Export
<1>3. /\ b \in Bundles /\ b.by = i /\ BundleStands(b)
      /\ \A e \in Carried(b) : e.ref.at # i => e.ref \in DOMAIN origins[i] /\ origins[i][e.ref].body = e.body
  BY <1>1, <1>2, PayloadStands
<1>4. bundles \in Seq(Bundles) /\ Len(bundles) \in Nat /\ DOMAIN bundles = 1 .. Len(bundles)
  BY DEF BundlesInv
<1>5. /\ bundles' \in Seq(Bundles) /\ DOMAIN bundles' = 1 .. (Len(bundles) + 1) /\ bundles'[Len(bundles) + 1] = b
      /\ \A c \in DOMAIN bundles : c \in DOMAIN bundles' /\ bundles'[c] = bundles[c]
  <2> HIDE DEF Bundles
  <2> QED
    BY <1>2, <1>3, <1>4
<1>6. NothingTurns
  <2>1. \A j \in Instances : Stays(objects[j], objects'[j], made)
    BY <1>2 DEF Stays
  <2> QED
    BY <1>2, <1>5, <2>1, MadeIs DEF NothingTurns
<1>7. ASSUME NEW j \in Instances, NEW r \in DOMAIN origins'[j] PROVE OriginStands(j, r, origins[j][r])'
  <2>1. OriginStands(j, r, origins[j][r]) /\ origins' = origins
    BY <1>2 DEF BundlesInv
  <2>2. PICK x : x = origins[j][r]
    OBVIOUS
  <2>3. OriginStands(j, r, x)'
    BY <1>6, <2>1, <2>2, OriginStays
  <2> QED
    BY <2>1, <2>2, <2>3
<1>8. ASSUME NEW c \in DOMAIN bundles' PROVE BundleStands(bundles[c])'
  <2>1. PICK x : x = bundles'[c]
    OBVIOUS
  <2>2. BundleStands(x)
    <3>1. CASE c \in DOMAIN bundles
      BY <1>5, <2>1, <3>1 DEF BundlesInv
    <3>2. CASE c \notin DOMAIN bundles
      <4>1. c = Len(bundles) + 1
        BY <1>4, <1>5, <3>2
      <4> QED
        BY <1>3, <1>5, <2>1, <4>1
    <3> QED
      BY <3>1, <3>2
  <2>3. BundleStands(x)'
    BY <1>6, <2>2, BundleStays
  <2> QED
    BY <2>1, <2>3
<1>9. ForeignNamesAreTrue'
  <2> SUFFICES ASSUME NEW c \in DOMAIN bundles', NEW e \in Carried(bundles'[c]), e.ref.at # bundles'[c].by
               PROVE  \E d \in 1 .. (c - 1) : /\ bundles'[d].by = e.ref.at
                                              /\ \E f \in Carried(bundles'[d]) : f.ref = e.ref /\ f.body = e.body
    BY DEF ForeignNamesAreTrue, Carried
  <2>1. CASE c \in DOMAIN bundles
    <3>1. PICK d \in 1 .. (c - 1) : /\ bundles[d].by = e.ref.at
                                    /\ \E f \in Carried(bundles[d]) : f.ref = e.ref /\ f.body = e.body
      BY <1>5, <2>1 DEF BundlesInv, ForeignNamesAreTrue
    <3>2. d \in DOMAIN bundles
      BY <1>4, <2>1
    <3> QED
      BY <1>5, <3>1, <3>2
  <2>2. CASE c \notin DOMAIN bundles
    <3>1. c = Len(bundles) + 1 /\ bundles'[c] = b
      BY <1>4, <1>5, <2>2
    <3>2. e.ref \in DOMAIN origins[i] /\ origins[i][e.ref].body = e.body
      BY <1>3, <3>1
    <3>3. OriginStands(i, e.ref, origins[i][e.ref])
      BY <3>2 DEF BundlesInv
    <3>4. PICK d \in DOMAIN bundles : /\ bundles[d].by = e.ref.at
                                      /\ \E f \in Carried(bundles[d]) : f.ref = e.ref /\ f.body = e.body
      BY <3>2, <3>3 DEF OriginStands
    <3>5. d \in 1 .. (c - 1)
      BY <1>4, <3>1
    <3> QED
      BY <1>5, <3>4, <3>5
  <2> QED
    BY <2>1, <2>2
<1>10. receipts' \in [Instances -> SUBSET DOMAIN bundles']
  BY <1>2, <1>5 DEF BundlesInv
<1>11. /\ made' \in 0 .. MaxIds /\ edits' \in 0 .. MaxEdits
       /\ objects' = [j \in Instances |-> objects'[j]] /\ \A j \in Instances : StoreStands(objects'[j], made')
       /\ origins' = [j \in Instances |-> origins'[j]]
       /\ import'.pc \in {"idle", "shown", "applied", "refused", "repeated"}
       /\ import'.pc = "shown" => import'.at \in Instances /\ import'.bundle \in DOMAIN bundles'
  BY <1>2, <1>5 DEF BundlesInv
<1>12. NamedIsMemory'
  <2>1. ASSUME NEW e \in b.memories, NEW r \in e.body.ext PROVE IsNoSource(r)
    <3>1. PICK n \in M : e = MemoryEnvelope(i, n, M)
      BY <1>1, <1>2, <2>1, PayloadHas
    <3>2. IsMemoryOf(e, i, n, M)
      BY <1>2, <3>1, MemoriesAreEnveloped
    <3>3. r \in objects[i][n].ext \cup OwnOf(i, objects[i][n].over \cup objects[i][n].by)
      BY <2>1, <3>2 DEF IsMemoryOf, OwnOf
    <3>4. n \in MemoriesIn(objects[i])
      BY <1>2
    <3> QED
      BY <3>3, <3>4 DEF BundlesInv, NamedIsMemory, NamesStand
  <2>2. ASSUME NEW c \in DOMAIN bundles', NEW e \in bundles'[c].memories, NEW r \in e.body.ext
        PROVE  IsNoSource(r)
    <3>1. CASE c \in DOMAIN bundles
      BY <1>5, <3>1 DEF BundlesInv, NamedIsMemory
    <3>2. CASE c \notin DOMAIN bundles
      <4>1. bundles'[c] = b
        BY <1>4, <1>5, <3>2
      <4> QED
        BY <2>1, <4>1
    <3> QED
      BY <3>1, <3>2
  <2>3. \A j \in Instances : \A n \in MemoriesIn(objects[j]) : NamesStand(j, objects[j][n])
    BY DEF BundlesInv, NamedIsMemory
  <2>4. \A c \in DOMAIN bundles' : \A e \in bundles'[c].memories : \A r \in e.body.ext : IsNoSource(r)
    BY <2>2
  <2> QED
    BY <1>2, <2>3, <2>4 DEF NamedIsMemory, NamesStand, IsNoSource, OwnOf, Own
<1> QED
  BY <1>5, <1>7, <1>8, <1>9, <1>10, <1>11, <1>12 DEF BundlesInv

\* A plan is shown, or comes to an end without a change.
LEMMA ImportOnlyKeeps ==
    ASSUME BundlesInv, UNCHANGED <<objects, origins, receipts, bundles, made, edits>>,
           import'.pc \in {"idle", "shown", "applied", "refused", "repeated"},
           import'.pc = "shown" => import'.at \in Instances /\ import'.bundle \in DOMAIN bundles
    PROVE  BundlesInv'
<1>1. ASSUME NEW i \in Instances, NEW r \in DOMAIN origins[i] PROVE OriginStands(i, r, origins[i][r])'
  <2>1. OriginStands(i, r, origins[i][r])
    BY DEF BundlesInv
  <2> QED
    BY <2>1 DEF OriginStands, KeyStands
<1>2. ASSUME NEW b \in DOMAIN bundles PROVE BundleStands(bundles[b])'
  <2>1. BundleStands(bundles[b])
    BY DEF BundlesInv
  <2> QED
    BY <2>1 DEF BundleStands, EnvelopeStands, KeyStands
<1>3. ForeignNamesAreTrue'
  BY DEF BundlesInv, ForeignNamesAreTrue
<1>5. NamedIsMemory'
  <2>1. NamedIsMemory
    BY DEF BundlesInv
  <2> QED
    BY <2>1 DEF NamedIsMemory, NamesStand, IsNoSource, OwnOf, Own
<1>4. /\ made' \in 0 .. MaxIds /\ edits' \in 0 .. MaxEdits
      /\ objects' = [j \in Instances |-> objects'[j]] /\ \A j \in Instances : StoreStands(objects'[j], made')
      /\ origins' = [j \in Instances |-> origins'[j]] /\ bundles' \in Seq(Bundles)
      /\ receipts' \in [Instances -> SUBSET DOMAIN bundles']
  BY DEF BundlesInv
<1> QED
  BY <1>1, <1>2, <1>3, <1>4, <1>5 DEF BundlesInv

LEMMA PreviewKeeps ==
    ASSUME BundlesInv, NEW i \in Instances, NEW b \in DOMAIN bundles, PreviewImport(i, b)
    PROVE  BundlesInv'
<1>1. /\ UNCHANGED <<objects, origins, receipts, bundles, made, edits>> /\ import'.pc = "shown"
      /\ import'.at = i /\ import'.bundle = b
  BY DEF PreviewImport
<1> QED
  BY <1>1, ImportOnlyKeeps

----------------------------------------------------------------------------
(* What an import does to a store *)

NewOf(plan) == {e \in DOMAIN plan : plan[e].what = "create"}

\* What is created is not there, and what is used again is.
PlanStands(o, b, plan) ==
    /\ DOMAIN plan = Carried(b)
    /\ \A e \in NewOf(plan) : \A n \in HeldIn(o) : o[n].key # e.body.key
    /\ \A e \in Carried(b) \ NewOf(plan) :
          /\ plan[e].to \in HeldIn(o) /\ o[plan[e].to].key = e.body.key
          /\ e \in b.memories => ~Linked(e.body)

\* What is created gets an id of its own.
PlacesStand(plan, place, top, t) ==
    /\ place = [e \in DOMAIN plan |-> place[e]]
    /\ \A e \in NewOf(plan) : place[e] \in (top + 1) .. t
    /\ \A e, f \in NewOf(plan) : place[e] = place[f] => e = f
    /\ \A e \in DOMAIN plan \ NewOf(plan) : place[e] = plan[e].to

IsCarried(o, p, plan, place) ==
    p = [n \in Ids |->
            IF {e \in NewOf(plan) : place[e] = n} = {} THEN o[n]
            ELSE LET e == CHOOSE e \in {f \in NewOf(plan) : place[f] = n} : TRUE
                 IN  Localised(e.body, NamesFor(place, e))]

Holders(S, refs) == {e \in S : refs \cap e.names # {}}
PlacesOf(place, S) == {place[e] : e \in S}

LEMMA NamesAre ==
    ASSUME NEW b, NamesAreUnique(b), NEW place, place = [e \in Carried(b) |-> place[e]], NEW map, map = IdsByName(place)
    PROVE  DOMAIN map = NamesOf(Carried(b)) /\ \A e \in Carried(b) : \A r \in e.names : map[r] = place[e]
<1> DEFINE D == Carried(b)
<1>1. DOMAIN place = D
  OBVIOUS
<1>2. map = [r \in NamesOf(D) |-> place[CHOOSE e \in D : r \in e.names]]
  <2> HIDE DEF D
  <2>1. map = [r \in NamesOf(DOMAIN place) |-> place[CHOOSE e \in DOMAIN place : r \in e.names]]
    BY Zenon DEF IdsByName, NamesOf
  <2> QED
    BY SMTT(20), <1>1, <2>1
<1>3. ASSUME NEW e \in D, NEW r \in e.names PROVE map[r] = place[e]
  <2>1. PICK f : f = CHOOSE h \in D : r \in h.names
    OBVIOUS
  <2>2. f \in D /\ r \in f.names
    BY <2>1
  <2>3. f = e
    BY <2>2 DEF NamesAreUnique
  <2>4. r \in NamesOf(D)
    BY DEF NamesOf
  <2> QED
    BY <1>2, <2>1, <2>3, <2>4
<1> QED
  BY <1>2, <1>3

LEMMA TranslatedIs ==
    ASSUME NEW b, NamesAreUnique(b), NEW place, place = [e \in Carried(b) |-> place[e]], NEW map, map = IdsByName(place),
           NEW S \in SUBSET Carried(b), NEW refs \in SUBSET NamesOf(S)
    PROVE  Translated(map, refs) = PlacesOf(place, Holders(S, refs))
<1>1. DOMAIN map = NamesOf(Carried(b)) /\ \A e \in Carried(b) : \A r \in e.names : map[r] = place[e]
  BY NamesAre
<1>2. ASSUME NEW n \in Translated(map, refs) PROVE n \in PlacesOf(place, Holders(S, refs))
  <2>1. PICK r \in refs \cap DOMAIN map : n = map[r]
    BY DEF Translated
  <2>2. PICK e \in S : r \in e.names
    BY <2>1 DEF NamesOf
  <2>3. n = place[e] /\ e \in Holders(S, refs)
    BY <1>1, <2>1, <2>2 DEF Holders
  <2> QED
    BY <2>3 DEF PlacesOf
<1>3. ASSUME NEW n \in PlacesOf(place, Holders(S, refs)) PROVE n \in Translated(map, refs)
  <2>1. PICK e \in S : n = place[e] /\ refs \cap e.names # {}
    BY DEF PlacesOf, Holders
  <2>2. PICK r : r \in refs /\ r \in e.names
    BY <2>1
  <2>3. r \in DOMAIN map /\ map[r] = n
    BY <1>1, <2>1, <2>2 DEF NamesOf
  <2> QED
    BY <2>2, <2>3 DEF Translated
<1> QED
  BY <1>2, <1>3

\* A memory or a source with its names turned into ids.
IsLocal(x, e, place, b) ==
    /\ x.key = e.body.key /\ x.current = e.body.current /\ x.ext = e.body.ext
    /\ e \in b.sources => HasNoLinks(x)
    /\ e \in b.memories =>
          /\ x.from = PlacesOf(place, Holders(b.sources, e.body.from))
          /\ x.over = PlacesOf(place, Holders(b.memories, e.body.over))
          /\ x.by = PlacesOf(place, Holders(b.memories, e.body.by))

LEMMA LocalIs ==
    ASSUME NEW b \in Bundles, HasOneOfEach(b), LinksAreWhole(b),
           NEW place, place = [e \in Carried(b) |-> place[e]], NEW S, \A e \in Carried(b) : place[e] \in S,
           NEW e \in Carried(b), NEW x, x = Localised(e.body, IdsByName(place))
    PROVE  x \in ObjectOf(S) /\ IsLocal(x, e, place, b)
<1>1. PICK map : map = IdsByName(place)
  OBVIOUS
<1>2. PICK body : body = e.body /\ body \in ObjectOf(Refs)
  BY DEF Bundles, Envelopes, Carried
<1>3. DOMAIN map = NamesOf(Carried(b)) /\ \A f \in Carried(b) : \A r \in f.names : map[r] = place[f]
  BY <1>1, NamesAre DEF HasOneOfEach
<1>4. PICK from : from = Translated(map, body.from)
  OBVIOUS
<1>5. PICK over : over = Translated(map, body.over)
  OBVIOUS
<1>6. PICK by : by = Translated(map, body.by)
  OBVIOUS
<1>7. x = [body EXCEPT !.from = from, !.over = over, !.by = by]
  BY <1>1, <1>2, <1>4, <1>5, <1>6 DEF Localised
<1>8. \A refs : Translated(map, refs) \subseteq S
  BY <1>3 DEF Translated, NamesOf
<1>9. from \in SUBSET S /\ over \in SUBSET S /\ by \in SUBSET S
  BY <1>4, <1>5, <1>6, <1>8
<1>10. /\ x.key = body.key /\ x.current = body.current /\ x.ext = body.ext /\ x.from = from /\ x.over = over
       /\ x.by = by
  BY <1>2, <1>7 DEF ObjectOf
<1>11. x \in ObjectOf(S)
  <2> HIDE DEF Refs
  <2> QED
    BY <1>2, <1>7, <1>9 DEF ObjectOf
<1>12. ASSUME e \in b.sources PROVE HasNoLinks(x)
  <2>1. HasNoLinks(body)
    BY <1>2, <1>12 DEF HasOneOfEach
  <2> QED
    BY <1>4, <1>5, <1>6, <1>10, <2>1 DEF HasNoLinks, Translated
<1>13. ASSUME e \in b.memories
       PROVE  /\ from = PlacesOf(place, Holders(b.sources, body.from)) /\ over = PlacesOf(place, Holders(b.memories, body.over))
              /\ by = PlacesOf(place, Holders(b.memories, body.by))
  <2>1. body.from \in SUBSET NamesOf(b.sources) /\ body.over \in SUBSET NamesOf(b.memories)
        /\ body.by \in SUBSET NamesOf(b.memories)
    BY <1>2, <1>13 DEF LinksAreWhole
  <2>2. b.sources \in SUBSET Carried(b) /\ b.memories \in SUBSET Carried(b) /\ NamesAreUnique(b)
    BY DEF Carried, HasOneOfEach
  <2>3. from = PlacesOf(place, Holders(b.sources, body.from))
    BY <1>1, <1>4, <2>1, <2>2, TranslatedIs
  <2>4. over = PlacesOf(place, Holders(b.memories, body.over))
    BY <1>1, <1>5, <2>1, <2>2, TranslatedIs
  <2>5. by = PlacesOf(place, Holders(b.memories, body.by))
    BY <1>1, <1>6, <2>1, <2>2, TranslatedIs
  <2> QED
    BY <2>3, <2>4, <2>5
<1> QED
  BY <1>2, <1>10, <1>11, <1>12, <1>13 DEF IsLocal

\* Where everything is after an import.
ObjectsArePlaced(o, p, b, plan, place, top, t) ==
    /\ p \in [Ids -> Things(t)]
    /\ \A n \in 1 .. top : n \in Ids /\ p[n] = o[n]
    /\ \A e \in NewOf(plan) : place[e] \in Ids \ (1 .. top) /\ place[e] \in 1 .. t /\ IsLocal(p[place[e]], e, place, b)
    /\ \A n \in HeldIn(p) : n \in HeldIn(o) \/ \E e \in NewOf(plan) : n = place[e]
    /\ \A n \in HeldIn(o) : n \in 1 .. top /\ n \in HeldIn(p)
    /\ \A e \in Carried(b) : place[e] \in HeldIn(p) /\ p[place[e]].key = e.body.key

LEMMA ImportPlaces ==
    ASSUME NEW b \in Bundles, HasOneOfEach(b), LinksAreWhole(b), NEW top \in Nat, NEW o, StoreStands(o, top),
           NEW plan, PlanStands(o, b, plan), NEW t \in Nat, top <= t, t <= MaxIds,
           NEW place, PlacesStand(plan, place, top, t), NEW p, IsCarried(o, p, plan, place)
    PROVE  ObjectsArePlaced(o, p, b, plan, place, top, t)
<1> DEFINE New == NewOf(plan)
<1>1. DOMAIN plan = Carried(b) /\ New \subseteq Carried(b) /\ place = [e \in Carried(b) |-> place[e]]
  BY DEF PlanStands, PlacesStand, NewOf
<1>2. /\ o \in [Ids -> Things(top)] /\ \A n \in HeldIn(o) : n \in 1 .. top
      /\ 1 .. top \subseteq Ids /\ 1 .. t \subseteq Ids /\ 1 .. top \subseteq 1 .. t
  BY TopIs DEF StoreStands
<1>3. \A e \in New : place[e] \in 1 .. t /\ place[e] \notin 1 .. top /\ place[e] \in Ids
  BY <1>2 DEF PlacesStand
<1>4. \A e \in Carried(b) : place[e] \in 1 .. t
  <2> SUFFICES ASSUME NEW e \in Carried(b) PROVE place[e] \in 1 .. t
    OBVIOUS
  <2>1. CASE e \in New
    BY <1>3, <2>1
  <2>2. CASE e \notin New
    <3>1. place[e] = plan[e].to /\ plan[e].to \in HeldIn(o)
      BY <1>1, <2>2 DEF PlanStands, PlacesStand
    <3> QED
      BY <1>2, <3>1
  <2> QED
    BY <2>1, <2>2
<1>5. ASSUME NEW e \in New PROVE p[place[e]] \in ObjectOf(1 .. t) /\ IsLocal(p[place[e]], e, place, b)
  <2>1. {f \in New : place[f] = place[e]} = {e}
    BY DEF PlacesStand
  <2>2. PICK x : x = Localised(e.body, IdsByName(place))
    OBVIOUS
  <2>3. place[e] \in Ids
    BY <1>3
  <2>4. p[place[e]] = Localised((CHOOSE g \in {f \in New : place[f] = place[e]} : TRUE).body, IdsByName(place))
    <3> HIDE DEF New
    <3>1. {f \in New : place[f] = place[e]} # {}
      BY <2>1
    <3> QED
      BY <2>3, <3>1 DEF IsCarried, NamesFor, New
  <2>5. (CHOOSE g \in {e} : TRUE) = e
    OBVIOUS
  <2>6. p[place[e]] = x
    BY <2>1, <2>2, <2>4, <2>5
  <2>7. e \in Carried(b)
    BY <1>1
  <2> DEFINE S == 1 .. t
  <2>8. \A f \in Carried(b) : place[f] \in S
    BY <1>4
  <2> HIDE DEF S
  <2>9. x \in ObjectOf(S) /\ IsLocal(x, e, place, b)
    BY <1>1, <2>2, <2>7, <2>8, LocalIs
  <2> QED
    BY <2>6, <2>9 DEF S
<1>6. ASSUME NEW n \in Ids, \A e \in New : place[e] # n PROVE p[n] = o[n]
  <2>1. {e \in New : place[e] = n} = {}
    BY <1>6
  <2> QED
    BY <2>1 DEF IsCarried
<1>7. \A n \in 1 .. top : n \in Ids /\ p[n] = o[n]
  BY <1>2, <1>3, <1>6
<1>8. p \in [Ids -> Things(t)]
  <2>1. Things(top) \subseteq Things(t)
    BY <1>2, ObjectsGrow DEF Things
  <2>2. ASSUME NEW n \in Ids PROVE p[n] \in Things(t)
    <3>1. CASE \E e \in New : place[e] = n
      BY <1>5, <3>1 DEF Things
    <3>2. CASE \A e \in New : place[e] # n
      BY <1>2, <1>6, <2>1, <3>2
    <3> QED
      BY <3>1, <3>2
  <2>3. p = [n \in Ids |-> p[n]]
    BY DEF IsCarried
  <2> QED
    BY <2>2, <2>3
<1>9. \A n \in HeldIn(p) : n \in HeldIn(o) \/ \E e \in New : n = place[e]
  <2> SUFFICES ASSUME NEW n \in HeldIn(p), \A e \in New : place[e] # n PROVE n \in HeldIn(o)
    OBVIOUS
  <2>1. n \in Ids /\ p[n].key # Gone
    BY DEF HeldIn
  <2> QED
    BY <1>6, <2>1 DEF HeldIn
<1>10. \A n \in HeldIn(o) : n \in 1 .. top /\ n \in HeldIn(p)
  BY <1>2, <1>7 DEF HeldIn
<1>11. ASSUME NEW e \in Carried(b) PROVE place[e] \in HeldIn(p) /\ p[place[e]].key = e.body.key
  <2>1. CASE e \in New
    <3>1. p[place[e]] \in ObjectOf(1 .. t) /\ p[place[e]].key = e.body.key /\ place[e] \in Ids
      BY <1>3, <1>5, <2>1 DEF IsLocal
    <3>2. p[place[e]].key # Gone
      BY <3>1, ObjectIs
    <3> QED
      BY <3>1, <3>2 DEF HeldIn
  <2>2. CASE e \notin New
    <3>1. place[e] = plan[e].to /\ plan[e].to \in HeldIn(o) /\ o[plan[e].to].key = e.body.key
      BY <1>1, <2>2 DEF PlanStands, PlacesStand
    <3> QED
      BY <1>7, <1>10, <3>1
  <2> QED
    BY <2>1, <2>2
<1> QED
  BY <1>3, <1>5, <1>7, <1>8, <1>9, <1>10, <1>11 DEF ObjectsArePlaced

\* A memory is where the place of a memory of the bundle is, or was there.
LEMMA MemoriesArePlaced ==
    ASSUME NEW b \in Bundles, HasOneOfEach(b), NEW o, NEW p, NEW plan, NEW place, NEW top, NEW t,
           PlanStands(o, b, plan), ObjectsArePlaced(o, p, b, plan, place, top, t), NEW n \in HeldIn(p)
    PROVE  /\ n \in MemoriesIn(p) => n \in MemoriesIn(o) \/ \E e \in NewOf(plan) : e \in b.memories /\ n = place[e]
           /\ n \notin MemoriesIn(p) => n \in HeldIn(o) \ MemoriesIn(o) \/ \E e \in NewOf(plan) : e \in b.sources /\ n = place[e]
<1>1. CASE n \in HeldIn(o)
  <2>1. p[n] = o[n]
    BY <1>1 DEF ObjectsArePlaced
  <2> QED
    BY <1>1, <2>1 DEF MemoriesIn
<1>2. CASE \E e \in NewOf(plan) : n = place[e]
  <2>1. PICK e \in NewOf(plan) : n = place[e]
    BY <1>2
  <2>2. e \in Carried(b)
    BY DEF PlanStands, NewOf
  <2>3. p[n].key = e.body.key
    BY <2>1, <2>2 DEF ObjectsArePlaced
  <2>4. CASE e \in b.memories
    <3>1. p[n].key \in Texts
      BY <2>3, <2>4 DEF HasOneOfEach
    <3> QED
      BY <2>1, <2>4, <3>1 DEF MemoriesIn
  <2>5. CASE e \in b.sources
    <3>1. p[n].key \notin Texts
      BY <2>3, <2>5, NoKeyIsGone DEF HasOneOfEach
    <3> QED
      BY <2>1, <2>5, <3>1 DEF MemoriesIn
  <2> QED
    BY <2>2, <2>4, <2>5 DEF Carried
<1> QED
  BY <1>1, <1>2 DEF ObjectsArePlaced

\* What is linked is new, so two memories of a bundle are linked as their bodies are.
LEMMA PlacesAreLinked ==
    ASSUME NEW b, LinksAreWhole(b), NEW o, NEW plan, PlanStands(o, b, plan), NEW place, NEW top, NEW t,
           PlacesStand(plan, place, top, t), NEW e \in NewOf(plan), NEW f \in NewOf(plan), e \in b.memories, f \in b.memories
    PROVE  /\ place[f] \in PlacesOf(place, Holders(b.memories, e.body.over)) <=> e.body.over \cap f.names # {}
           /\ place[e] \in PlacesOf(place, Holders(b.memories, f.body.by)) <=> f.body.by \cap e.names # {}
<1>1. \A g \in b.memories : g \notin NewOf(plan) => g.body.over = {} /\ g.body.by = {}
  BY DEF PlanStands, Linked, Carried
<1>2. \A g, h \in NewOf(plan) : place[g] = place[h] => g = h
  BY DEF PlacesStand
<1>3. \A g, h \in b.memories : g.body.over \cap h.names # {} <=> h.body.by \cap g.names # {}
  BY DEF LinksAreWhole
<1>4. ASSUME place[f] \in PlacesOf(place, Holders(b.memories, e.body.over)) PROVE e.body.over \cap f.names # {}
  <2>1. PICK g \in b.memories : e.body.over \cap g.names # {} /\ place[f] = place[g]
    BY <1>4 DEF PlacesOf, Holders
  <2>2. g.body.by \cap e.names # {}
    BY <1>3, <2>1
  <2>3. g \in NewOf(plan)
    BY <1>1, <2>2
  <2> QED
    BY <1>2, <2>1, <2>3
<1>5. ASSUME place[e] \in PlacesOf(place, Holders(b.memories, f.body.by)) PROVE f.body.by \cap e.names # {}
  <2>1. PICK g \in b.memories : f.body.by \cap g.names # {} /\ place[e] = place[g]
    BY <1>5 DEF PlacesOf, Holders
  <2>2. g.body.over \cap f.names # {}
    BY <1>3, <2>1
  <2>3. g \in NewOf(plan)
    BY <1>1, <2>2
  <2> QED
    BY <1>2, <2>1, <2>3
<1>6. e.body.over \cap f.names # {} => place[f] \in PlacesOf(place, Holders(b.memories, e.body.over))
  BY DEF PlacesOf, Holders
<1>7. f.body.by \cap e.names # {} => place[e] \in PlacesOf(place, Holders(b.memories, f.body.by))
  BY DEF PlacesOf, Holders
<1> QED
  BY <1>4, <1>5, <1>6, <1>7

\* What is new and what was there are not linked to each other.
LEMMA PlacesAreApart ==
    ASSUME NEW b, LinksAreWhole(b), NEW o, NEW plan, PlanStands(o, b, plan), NEW place, NEW top, NEW t,
           PlacesStand(plan, place, top, t), NEW e \in NewOf(plan), e \in b.memories, NEW n \in 1 .. top, top \in Nat
    PROVE  n \notin PlacesOf(place, Holders(b.memories, e.body.over)) /\ n \notin PlacesOf(place, Holders(b.memories, e.body.by))
<1>1. \A g \in b.memories : g \notin NewOf(plan) => g.body.over = {} /\ g.body.by = {}
  BY DEF PlanStands, Linked, Carried
<1>2. \A g \in NewOf(plan) : place[g] # n
  BY DEF PlacesStand
<1>3. \A g, h \in b.memories : g.body.over \cap h.names # {} <=> h.body.by \cap g.names # {}
  BY DEF LinksAreWhole
<1>4. ASSUME n \in PlacesOf(place, Holders(b.memories, e.body.over)) PROVE FALSE
  <2>1. PICK g \in b.memories : e.body.over \cap g.names # {} /\ n = place[g]
    BY <1>4 DEF PlacesOf, Holders
  <2>2. g.body.by \cap e.names # {}
    BY <1>3, <2>1
  <2> QED
    BY <1>1, <1>2, <2>1, <2>2
<1>5. ASSUME n \in PlacesOf(place, Holders(b.memories, e.body.by)) PROVE FALSE
  <2>1. PICK g \in b.memories : e.body.by \cap g.names # {} /\ n = place[g]
    BY <1>5 DEF PlacesOf, Holders
  <2>2. g.body.over \cap e.names # {}
    BY <1>3, <2>1
  <2> QED
    BY <1>1, <1>2, <2>1, <2>2
<1> QED
  BY <1>4, <1>5

\* What is known of a memory after an import: it is one of before, or one of the bundle.
LEMMA MemoryAfterImport ==
    ASSUME NEW b \in Bundles, HasOneOfEach(b), NEW o, NEW p, NEW plan, NEW place, NEW top, NEW t,
           PlanStands(o, b, plan), ObjectsArePlaced(o, p, b, plan, place, top, t), NEW n \in MemoriesIn(p)
    PROVE  \/ n \in MemoriesIn(o) /\ n \in 1 .. top /\ p[n] = o[n]
           \/ \E e \in NewOf(plan) : /\ e \in b.memories /\ n = place[e] /\ n \notin 1 .. top
                                     /\ p[n].current = e.body.current /\ p[n].ext = e.body.ext
                                     /\ p[n].from = PlacesOf(place, Holders(b.sources, e.body.from))
                                     /\ p[n].over = PlacesOf(place, Holders(b.memories, e.body.over))
                                     /\ p[n].by = PlacesOf(place, Holders(b.memories, e.body.by))
<1>1. n \in HeldIn(p)
  BY DEF MemoriesIn
<1>2. CASE n \in MemoriesIn(o)
  BY <1>2 DEF ObjectsArePlaced, MemoriesIn
<1>3. CASE \E e \in NewOf(plan) : e \in b.memories /\ n = place[e]
  <2>1. PICK e \in NewOf(plan) : e \in b.memories /\ n = place[e]
    BY <1>3
  <2>2. IsLocal(p[place[e]], e, place, b) /\ place[e] \notin 1 .. top
    BY DEF ObjectsArePlaced
  <2> QED
    BY <2>1, <2>2 DEF IsLocal
<1> QED
  BY <1>1, <1>2, <1>3, MemoriesArePlaced

LEMMA ImportLinks ==
    ASSUME NEW b \in Bundles, HasOneOfEach(b), LinksAreWhole(b), NEW top \in Nat, NEW o, StoreStands(o, top),
           NEW plan, PlanStands(o, b, plan), NEW t, NEW place, PlacesStand(plan, place, top, t),
           NEW p, ObjectsArePlaced(o, p, b, plan, place, top, t)
    PROVE  LinksStand(p, MemoriesIn(p))
<1>1. LinksStand(o, MemoriesIn(o))
  BY DEF StoreStands
<1>2. ASSUME NEW n \in MemoriesIn(p)
      PROVE  (p[n].current => p[n].by = {}) /\ (~p[n].current => p[n].by # {} \/ p[n].ext # {})
  <2>1. CASE n \in MemoriesIn(o) /\ n \in 1 .. top /\ p[n] = o[n]
    BY <1>1, <2>1 DEF LinksStand
  <2>2. ASSUME NEW e \in NewOf(plan), e \in b.memories, p[n].current = e.body.current, p[n].ext = e.body.ext,
               p[n].by = PlacesOf(place, Holders(b.memories, e.body.by))
        PROVE  (p[n].current => p[n].by = {}) /\ (~p[n].current => p[n].by # {} \/ p[n].ext # {})
    <3>1. /\ e.body.over \cup e.body.by \subseteq NamesOf(b.memories)
          /\ e.body.current => e.body.by = {}
          /\ ~e.body.current => e.body.by # {} \/ e.body.ext # {}
      BY <2>2 DEF LinksAreWhole
    <3>2. p[n].current => p[n].by = {}
      BY <2>2, <3>1 DEF PlacesOf, Holders
    <3>3. ASSUME e.body.by # {} PROVE p[n].by # {}
      <4>1. PICK r : r \in e.body.by
        BY <3>3
      <4>2. PICK g \in b.memories : r \in g.names
        BY <3>1, <4>1 DEF NamesOf
      <4>3. place[g] \in p[n].by
        BY <2>2, <4>1, <4>2 DEF PlacesOf, Holders
      <4> QED
        BY <4>3
    <3> QED
      BY <2>2, <3>1, <3>2, <3>3
  <2> QED
    BY <2>1, <2>2, MemoryAfterImport
<1>3. ASSUME NEW m \in MemoriesIn(p), NEW n \in MemoriesIn(p)
      PROVE  (n \in p[m].over <=> m \in p[n].by) /\ (n \in p[m].over => ~p[n].current)
  <2>1. CASE (m \in MemoriesIn(o) /\ m \in 1 .. top /\ p[m] = o[m]) /\ (n \in MemoriesIn(o) /\ n \in 1 .. top /\ p[n] = o[n])
    BY <1>1, <2>1 DEF LinksStand
  <2>2. ASSUME m \in MemoriesIn(o), m \in 1 .. top, p[m] = o[m],
               NEW f \in NewOf(plan), f \in b.memories, n \notin 1 .. top,
               p[n].by = PlacesOf(place, Holders(b.memories, f.body.by))
        PROVE  n \notin p[m].over /\ m \notin p[n].by
    <3>1. n \notin p[m].over
      BY <2>2, LinksAreBelow
    <3>2. m \notin p[n].by
      BY <2>2, PlacesAreApart
    <3> QED
      BY <3>1, <3>2
  <2>3. ASSUME n \in MemoriesIn(o), n \in 1 .. top, p[n] = o[n],
               NEW e \in NewOf(plan), e \in b.memories, m \notin 1 .. top,
               p[m].over = PlacesOf(place, Holders(b.memories, e.body.over))
        PROVE  n \notin p[m].over /\ m \notin p[n].by
    <3>1. m \notin p[n].by
      BY <2>3, LinksAreBelow
    <3>2. n \notin p[m].over
      BY <2>3, PlacesAreApart
    <3> QED
      BY <3>1, <3>2
  <2>4. ASSUME NEW e \in NewOf(plan), e \in b.memories, m = place[e],
               p[m].over = PlacesOf(place, Holders(b.memories, e.body.over)),
               NEW f \in NewOf(plan), f \in b.memories, n = place[f], p[n].current = f.body.current,
               p[n].by = PlacesOf(place, Holders(b.memories, f.body.by))
        PROVE  (n \in p[m].over <=> m \in p[n].by) /\ (n \in p[m].over => ~p[n].current)
    <3>1. /\ n \in p[m].over <=> e.body.over \cap f.names # {}
          /\ m \in p[n].by <=> f.body.by \cap e.names # {}
      BY <2>4, PlacesAreLinked
    <3>2. /\ e.body.over \cap f.names # {} <=> f.body.by \cap e.names # {}
          /\ e.body.over \cap f.names # {} => ~f.body.current
      BY <2>4 DEF LinksAreWhole
    <3> QED
      BY <2>4, <3>1, <3>2
  <2>5. \/ m \in MemoriesIn(o) /\ m \in 1 .. top /\ p[m] = o[m]
        \/ \E e \in NewOf(plan) : /\ e \in b.memories /\ m = place[e] /\ m \notin 1 .. top
                                  /\ p[m].over = PlacesOf(place, Holders(b.memories, e.body.over))
    BY MemoryAfterImport
  <2>6. \/ n \in MemoriesIn(o) /\ n \in 1 .. top /\ p[n] = o[n]
        \/ \E f \in NewOf(plan) : /\ f \in b.memories /\ n = place[f] /\ n \notin 1 .. top /\ p[n].current = f.body.current
                                  /\ p[n].by = PlacesOf(place, Holders(b.memories, f.body.by))
    BY MemoryAfterImport
  <2> QED
    BY <2>1, <2>2, <2>3, <2>4, <2>5, <2>6
<1> QED
  BY <1>2, <1>3 DEF LinksStand

\* What a bundle names as elsewhere.
ElsewhereIn(b) == UNION {e.body.ext : e \in b.memories}

LEMMA ImportStands ==
    ASSUME NEW b \in Bundles, HasOneOfEach(b), LinksAreWhole(b), NEW top \in Nat, NEW o, StoreStands(o, top),
           NEW plan, PlanStands(o, b, plan), NEW t \in Nat, top <= t, t <= MaxIds,
           NEW place, PlacesStand(plan, place, top, t), NEW p, IsCarried(o, p, plan, place)
    PROVE  /\ StoreStands(p, t) /\ Stays(o, p, top) /\ NamesGo(o, p, t, ElsewhereIn(b))
           /\ \A e \in Carried(b) : place[e] \in 1 .. t /\ place[e] \in HeldIn(p) /\ p[place[e]].key = e.body.key
<1>1. ObjectsArePlaced(o, p, b, plan, place, top, t)
  BY ImportPlaces
<1>2. p \in [Ids -> Things(t)] /\ 1 .. top \subseteq 1 .. t
  BY <1>1 DEF ObjectsArePlaced
<1>3. \A n \in HeldIn(p) : n \in 1 .. t
  BY <1>1, <1>2 DEF ObjectsArePlaced
<1>4. NewOf(plan) \subseteq Carried(b)
  BY DEF PlanStands, NewOf
<1>5. ASSUME NEW m \in HeldIn(p), NEW n \in HeldIn(p), p[m].key = p[n].key PROVE m = n
  <2>1. \A k \in HeldIn(o) : p[k] = o[k]
    BY <1>1 DEF ObjectsArePlaced
  <2>2. \A k, l \in HeldIn(o) : o[k].key = o[l].key => k = l
    BY DEF StoreStands
  <2>3. \A e \in NewOf(plan) : p[place[e]].key = e.body.key /\ \A k \in HeldIn(o) : o[k].key # e.body.key
    BY <1>1, <1>4 DEF ObjectsArePlaced, PlanStands
  <2>4. \A e, f \in NewOf(plan) : e.body.key = f.body.key => e = f
    BY <1>4 DEF HasOneOfEach
  <2>5. (m \in HeldIn(o) \/ \E e \in NewOf(plan) : m = place[e]) /\ (n \in HeldIn(o) \/ \E e \in NewOf(plan) : n = place[e])
    BY <1>1 DEF ObjectsArePlaced
  <2> QED
    BY <1>5, <2>1, <2>2, <2>3, <2>4, <2>5
<1>6. ASSUME NEW n \in HeldIn(p) \ MemoriesIn(p) PROVE HasNoLinks(p[n])
  <2>1. CASE n \in HeldIn(o) \ MemoriesIn(o)
    <3>1. HasNoLinks(o[n])
      BY <2>1 DEF StoreStands
    <3>2. p[n] = o[n]
      BY <1>1, <2>1 DEF ObjectsArePlaced
    <3> QED
      BY <3>1, <3>2
  <2>2. CASE \E e \in NewOf(plan) : e \in b.sources /\ n = place[e]
    BY <1>1, <2>2 DEF ObjectsArePlaced, IsLocal
  <2> QED
    BY <1>1, <2>1, <2>2, MemoriesArePlaced
<1>7. ASSUME NEW n \in MemoriesIn(p) PROVE p[n].from \subseteq HeldIn(p) \ MemoriesIn(p)
  <2>1. CASE n \in MemoriesIn(o) /\ n \in 1 .. top /\ p[n] = o[n]
    <3>1. o[n].from \subseteq HeldIn(o) \ MemoriesIn(o)
      BY <2>1 DEF StoreStands
    <3>2. \A k \in HeldIn(o) \ MemoriesIn(o) : k \in HeldIn(p) /\ p[k] = o[k]
      BY <1>1 DEF ObjectsArePlaced
    <3> QED
      BY <2>1, <3>1, <3>2 DEF MemoriesIn
  <2>2. CASE \E e \in NewOf(plan) : p[n].from = PlacesOf(place, Holders(b.sources, e.body.from))
    <3>1. \A f \in b.sources : place[f] \in HeldIn(p) /\ p[place[f]].key \in Sources
      BY <1>1 DEF ObjectsArePlaced, HasOneOfEach, Carried
    <3>2. \A f \in b.sources : place[f] \in HeldIn(p) \ MemoriesIn(p)
      BY <3>1, NoKeyIsGone DEF MemoriesIn
    <3> QED
      BY <2>2, <3>2 DEF PlacesOf, Holders
  <2> QED
    BY <1>1, <2>1, <2>2, MemoryAfterImport
<1>8. LinksStand(p, MemoriesIn(p))
  BY <1>1, ImportLinks
<1>9. Stays(o, p, top)
  BY <1>1 DEF ObjectsArePlaced, Stays
<1>10. StoreStands(p, t)
  BY <1>2, <1>3, <1>5, <1>6, <1>7, <1>8 DEF StoreStands
<1>11. NamesGo(o, p, t, ElsewhereIn(b))
  <2> SUFFICES ASSUME NEW n \in MemoriesIn(p)
               PROVE  /\ \A l \in p[n].over \cup p[n].by : \/ n \in MemoriesIn(o) /\ l \in o[n].over \cup o[n].by
                                                           \/ l \in 1 .. t /\ p[l].key \notin Sources
                      /\ \A r \in p[n].ext : \/ r \in ElsewhereIn(b)
                                             \/ n \in MemoriesIn(o) /\ r \in o[n].ext
    BY DEF NamesGo
  <2>1. CASE n \in MemoriesIn(o) /\ n \in 1 .. top /\ p[n] = o[n]
    BY <2>1
  <2>2. ASSUME NEW e \in b.memories, p[n].ext = e.body.ext,
               p[n].over = PlacesOf(place, Holders(b.memories, e.body.over)),
               p[n].by = PlacesOf(place, Holders(b.memories, e.body.by))
        PROVE  /\ \A l \in p[n].over \cup p[n].by : l \in 1 .. t /\ p[l].key \notin Sources
               /\ p[n].ext \subseteq ElsewhereIn(b)
    <3>1. ASSUME NEW l \in p[n].over \cup p[n].by PROVE l \in 1 .. t /\ p[l].key \notin Sources
      <4>1. PICK f \in b.memories : l = place[f]
        BY <2>2, <3>1 DEF PlacesOf, Holders
      <4>2. p[l].key = f.body.key /\ l \in HeldIn(p)
        BY <1>1, <4>1 DEF ObjectsArePlaced, Carried
      <4>3. f.body.key \in Texts
        BY DEF HasOneOfEach
      <4> QED
        BY <1>3, <4>2, <4>3, NoKeyIsGone
    <3> QED
      BY <2>2, <3>1 DEF ElsewhereIn
  <2> QED
    BY <1>1, <2>1, <2>2, MemoryAfterImport
<1> QED
  BY <1>1, <1>3, <1>9, <1>10, <1>11 DEF ObjectsArePlaced

\* A decision that is not a conflict is to create what is not there, or to use again what is.
IsDecided(i, d, e) ==
    /\ d.what \in {"create", "reuse", "conflict"}
    /\ d.what = "create" => e.ref \notin DOMAIN origins[i] /\ \A n \in HeldIn(objects[i]) : objects[i][n].key # e.body.key
    /\ d.what = "reuse" => d.to \in HeldIn(objects[i]) /\ objects[i][d.to].key = e.body.key

LEMMA DecisionsAre ==
    /\ Create.what = "create"
    /\ \A n : Conflict(n).what = "conflict" /\ Reuse(n).what = "reuse" /\ Reuse(n).to = n
BY DEF Create, Conflict, Reuse, Decision

LEMMA KeyedIs ==
    ASSUME NEW i \in Instances, NEW key
    PROVE  /\ Keyed(i, key) = {} => \A n \in HeldIn(objects[i]) : objects[i][n].key # key
           /\ Keyed(i, key) # {} => \E n \in HeldIn(objects[i]) : n = (CHOOSE k \in Keyed(i, key) : TRUE)
                                                  /\ objects[i][n].key = key
<1>1. Keyed(i, key) = {n \in HeldIn(objects[i]) : objects[i][n].key = key}
  BY HeldIs
<1> QED
  BY <1>1

LEMMA SourceIsDecided ==
    ASSUME BundlesInv, NEW i \in Instances, NEW e, e.body.key \in Sources
    PROVE  IsDecided(i, DecideSource(i, e), e)
<1>1. CASE e.ref \in DOMAIN origins[i] /\ Unchanged(i, e)
  <2>1. PICK n : n = Mapped(i, e.ref)
    OBVIOUS
  <2>2. DecideSource(i, e) = Reuse(n)
    BY <1>1, <2>1 DEF DecideSource
  <2>3. OriginStands(i, e.ref, origins[i][e.ref])
    BY <1>1 DEF BundlesInv
  <2>4. n \in 1 .. made /\ objects[i][n].key = e.body.key
    BY <1>1, <2>1, <2>3 DEF OriginStands, Mapped, Unchanged
  <2>5. n \in HeldIn(objects[i])
    BY <2>4, MadeIs, NoKeyIsGone DEF HeldIn
  <2> QED
    BY <2>2, <2>4, <2>5, DecisionsAre DEF IsDecided
<1>2. CASE e.ref \in DOMAIN origins[i] /\ ~Unchanged(i, e)
  BY <1>2, DecisionsAre DEF DecideSource, IsDecided
<1>3. CASE e.ref \notin DOMAIN origins[i] /\ Keyed(i, e.body.key) # {}
  <2>1. PICK n \in HeldIn(objects[i]) : n = (CHOOSE k \in Keyed(i, e.body.key) : TRUE) /\ objects[i][n].key = e.body.key
    BY <1>3, KeyedIs
  <2>2. DecideSource(i, e) = Reuse(n)
    BY <1>3, <2>1 DEF DecideSource
  <2> QED
    BY <2>1, <2>2, DecisionsAre DEF IsDecided
<1>4. CASE e.ref \notin DOMAIN origins[i] /\ Keyed(i, e.body.key) = {}
  <2>1. DecideSource(i, e) = Create
    BY <1>4 DEF DecideSource
  <2> QED
    BY <1>4, <2>1, KeyedIs, DecisionsAre DEF IsDecided
<1> QED
  BY <1>1, <1>2, <1>3, <1>4

LEMMA MemoryIsDecided ==
    ASSUME BundlesInv, NEW i \in Instances, NEW b, NEW e
    PROVE  /\ IsDecided(i, DecideMemory(i, b, e), e)
           /\ DecideMemory(i, b, e).what = "reuse" => ~Linked(e.body)
<1>1. CASE e.ref \in DOMAIN origins[i]
  <2>1. PICK n : n = Mapped(i, e.ref)
    OBVIOUS
  <2>2. DecideMemory(i, b, e) = IF Unchanged(i, e) /\ Matches(objects[i][n], e, Known(i, b)) THEN Reuse(n) ELSE Conflict(n)
    BY <1>1, <2>1 DEF DecideMemory, DecideMapped
  <2>3. OriginStands(i, e.ref, origins[i][e.ref])
    BY <1>1 DEF BundlesInv
  <2>4. CASE Unchanged(i, e) /\ Matches(objects[i][n], e, Known(i, b))
    <3>1. n \in 1 .. made /\ objects[i][n].key = e.body.key /\ objects[i][n].key # Gone /\ ~Linked(e.body)
      BY <2>1, <2>3, <2>4 DEF OriginStands, Mapped, Unchanged, Matches
    <3>2. n \in HeldIn(objects[i])
      BY <3>1, MadeIs DEF HeldIn
    <3> QED
      BY <2>2, <2>4, <3>1, <3>2, DecisionsAre DEF IsDecided
  <2>5. CASE ~(Unchanged(i, e) /\ Matches(objects[i][n], e, Known(i, b)))
    <3>1. DecideMemory(i, b, e) = Conflict(n)
      BY <2>2, <2>5
    <3> QED
      BY <3>1, DecisionsAre DEF IsDecided
  <2> QED
    BY <2>4, <2>5
<1>2. CASE e.ref \notin DOMAIN origins[i] /\ Keyed(i, e.body.key) # {}
  <2>1. PICK n \in HeldIn(objects[i]) : n = (CHOOSE k \in Keyed(i, e.body.key) : TRUE) /\ objects[i][n].key = e.body.key
    BY <1>2, KeyedIs
  <2>2. DecideMemory(i, b, e) = IF Matches(objects[i][n], e, Known(i, b)) THEN Reuse(n) ELSE Conflict(n)
    BY <1>2, <2>1, Zenon DEF DecideMemory
  <2>3. CASE Matches(objects[i][n], e, Known(i, b))
    <3>1. ~Linked(e.body)
      BY <2>3 DEF Matches
    <3> QED
      BY <2>1, <2>2, <2>3, <3>1, DecisionsAre DEF IsDecided
  <2>4. CASE ~Matches(objects[i][n], e, Known(i, b))
    <3>1. DecideMemory(i, b, e) = Conflict(n)
      BY <2>2, <2>4
    <3> QED
      BY <3>1, DecisionsAre DEF IsDecided
  <2> QED
    BY <2>3, <2>4
<1>3. CASE e.ref \notin DOMAIN origins[i] /\ Keyed(i, e.body.key) = {}
  <2>1. DecideMemory(i, b, e) = Create
    BY <1>3, Zenon DEF DecideMemory
  <2> QED
    BY <1>3, <2>1, KeyedIs, DecisionsAre DEF IsDecided
<1> QED
  BY <1>1, <1>2, <1>3

LEMMA PlanIs ==
    ASSUME BundlesInv, NEW i \in Instances, NEW b, HasOneOfEach(b), NEW plan, plan = Plan(i, b), Safe(plan)
    PROVE  PlanStands(objects[i], b, plan) /\ \A e \in NewOf(plan) : e.ref \notin DOMAIN origins[i]
<1>1. /\ DOMAIN plan = Carried(b) /\ NewOf(plan) \subseteq Carried(b)
      /\ \A e \in Carried(b) : plan[e] = IF e \in b.sources THEN DecideSource(i, e) ELSE DecideMemory(i, b, e)
  BY DEF Plan, NewOf
<1>2. ASSUME NEW e \in Carried(b)
      PROVE  IsDecided(i, plan[e], e) /\ (plan[e].what = "reuse" /\ e \in b.memories => ~Linked(e.body))
  <2>1. CASE e \in b.sources
    <3>1. e.body.key \in Sources /\ plan[e] = DecideSource(i, e)
      BY <1>1, <2>1 DEF HasOneOfEach
    <3>2. e \notin b.memories
      BY <3>1, NoKeyIsGone DEF HasOneOfEach
    <3> QED
      BY <3>1, <3>2, SourceIsDecided
  <2>2. CASE e \notin b.sources
    <3>1. plan[e] = DecideMemory(i, b, e)
      BY <1>1, <2>2
    <3> QED
      BY <3>1, MemoryIsDecided
  <2> QED
    BY <2>1, <2>2
<1>3. \A e \in Carried(b) : plan[e].what # "conflict"
  BY <1>1 DEF Safe
<1>4. \A e \in Carried(b) \ NewOf(plan) : plan[e].what = "reuse"
  BY <1>1, <1>2, <1>3 DEF IsDecided, NewOf
<1>5. \A e \in NewOf(plan) : plan[e].what = "create" /\ e \in Carried(b)
  BY <1>1 DEF NewOf
<1> QED
  BY <1>1, <1>2, <1>4, <1>5 DEF PlanStands, IsDecided

LEMMA PlacedIs ==
    ASSUME NEW plan, IsFiniteSet(DOMAIN plan), NEW place, place = Placed(plan), made \in Nat,
           NEW t, t = made + Cardinality(NewOf(plan))
    PROVE  PlacesStand(plan, place, made, t) /\ t \in Nat /\ made <= t
<1>1. PICK seq : seq = SetToSeq(NewOf(plan))
  OBVIOUS
<1>2. IsFiniteSet(NewOf(plan)) /\ Cardinality(NewOf(plan)) \in Nat
  BY FS_Subset, FS_CardinalityType DEF NewOf
<1>3. Enumerates(seq, NewOf(plan))
  BY <1>1, <1>2, SetToSeqEnumerates
<1>4. PICK top \in Nat : top = made
  OBVIOUS
<1>5. PICK c \in Nat : c = Cardinality(NewOf(plan))
  BY <1>2
<1>6. DOMAIN seq = 1 .. c /\ \A e \in NewOf(plan) : \E k \in 1 .. c : seq[k] = e
  BY <1>3, <1>5 DEF Enumerates
<1>7. place = [e \in DOMAIN plan |-> IF plan[e].what = "create" THEN top + (CHOOSE k \in 1 .. c : seq[k] = e)
                                  ELSE plan[e].to]
  <2>1. SetToSeq({e \in DOMAIN plan : plan[e].what = "create"}) = seq
    BY <1>1 DEF NewOf
  <2>2. place = LET new == SetToSeq({e \in DOMAIN plan : plan[e].what = "create"})
             IN  [e \in DOMAIN plan |-> IF plan[e].what = "create"
                               THEN made + (CHOOSE k \in DOMAIN new : new[k] = e)
                               ELSE plan[e].to]
    BY DEF Placed
  <2>3. place = [e \in DOMAIN plan |-> IF plan[e].what = "create" THEN made + (CHOOSE k \in DOMAIN seq : seq[k] = e)
                                    ELSE plan[e].to]
    BY <2>1, <2>2, Zenon
  <2> QED
    BY <1>4, <1>6, <2>3
<1>8. ASSUME NEW e \in NewOf(plan)
      PROVE  \E k \in 1 .. c : place[e] = top + k /\ seq[k] = e
  <2>1. PICK k : k = CHOOSE h \in 1 .. c : seq[h] = e
    OBVIOUS
  <2>2. k \in 1 .. c /\ seq[k] = e
    BY <1>6, <2>1
  <2>3. place[e] = top + k
    BY <1>7, <2>1 DEF NewOf
  <2> QED
    BY <2>2, <2>3
<1>9. t = top + c /\ t \in Nat /\ top <= t
  BY <1>4, <1>5
<1>10. \A e \in NewOf(plan) : place[e] \in (top + 1) .. t
  BY <1>8, <1>9
<1>11. ASSUME NEW e \in NewOf(plan), NEW f \in NewOf(plan), place[e] = place[f] PROVE e = f
  <2>1. PICK k \in 1 .. c : place[e] = top + k /\ seq[k] = e
    BY <1>8
  <2>2. PICK l \in 1 .. c : place[f] = top + l /\ seq[l] = f
    BY <1>8
  <2>3. top + k = top + l
    BY <1>11, <2>1, <2>2
  <2>4. k = l
    BY <2>3
  <2> QED
    BY <2>1, <2>2, <2>4
<1>12. place = [e \in DOMAIN plan |-> place[e]] /\ \A e \in DOMAIN plan \ NewOf(plan) : place[e] = plan[e].to
  BY <1>7 DEF NewOf
<1> QED
  BY <1>4, <1>9, <1>10, <1>11, <1>12 DEF PlacesStand

\* A reference that is new is that of an object of the plan.
OriginsAreCarried(i, plan, place) ==
    /\ origins' = [j \in Instances |-> origins'[j]] /\ \A j \in Instances : j # i => origins'[j] = origins[j]
    /\ \A r \in DOMAIN origins[i] : r \in DOMAIN origins'[i] /\ origins'[i][r] = origins[i][r]
    /\ \A r \in DOMAIN origins'[i] \ DOMAIN origins[i] :
          \E e \in DOMAIN plan : e.ref = r /\ origins'[i][r].local = place[e] /\ origins'[i][r].body = e.body

LEMMA CarryIs ==
    ASSUME BundlesInv, NEW i \in Instances, NEW c, NEW plan, Carry(i, c, plan)
    PROVE  /\ made' = made + Cardinality(NewOf(plan)) /\ made' <= MaxIds
           /\ \E p : IsCarried(objects[i], p, plan, Placed(plan)) /\ objects' = [objects EXCEPT ![i] = p]
           /\ OriginsAreCarried(i, plan, Placed(plan)) /\ receipts' = [receipts EXCEPT ![i] = @ \cup {c}]
<1> DEFINE place == Placed(plan)
           New == NewOf(plan)
           unmapped == {e \in DOMAIN plan : e.ref \notin DOMAIN origins[i]}
           Envs(n) == {e \in New : place[e] = n}
           p == [n \in Ids |-> IF Envs(n) = {} THEN objects[i][n]
                               ELSE LET e == CHOOSE e \in Envs(n) : TRUE IN Localised(e.body, NamesFor(place, e))]
           q == [r \in DOMAIN origins[i] \cup {e.ref : e \in unmapped} |->
                   IF r \in DOMAIN origins[i] THEN origins[i][r]
                   ELSE LET e == CHOOSE e \in unmapped : e.ref = r IN [local |-> place[e], body |-> e.body]]
<1>1. /\ made + Cardinality(New) <= MaxIds /\ made' = made + Cardinality(New)
      /\ objects' = [objects EXCEPT ![i] = [n \in Ids |->
             IF Envs(n) = {} THEN @[n]
             ELSE LET e == CHOOSE e \in Envs(n) : TRUE IN Localised(e.body, NamesFor(place, e))]]
      /\ origins' = [origins EXCEPT ![i] = [r \in DOMAIN @ \cup {e.ref : e \in unmapped} |->
             IF r \in DOMAIN @ THEN @[r]
             ELSE LET e == CHOOSE e \in unmapped : e.ref = r IN [local |-> place[e], body |-> e.body]]]
      /\ receipts' = [receipts EXCEPT ![i] = @ \cup {c}]
  BY DEF Carry, NewOf
<1>2. objects' = [objects EXCEPT ![i] = p] /\ origins' = [origins EXCEPT ![i] = q]
  BY <1>1
<1>4. IsCarried(objects[i], p, plan, place)
  BY DEF IsCarried
<1>5. origins = [j \in Instances |-> origins[j]]
  BY DEF BundlesInv
<1>6. ASSUME NEW r \in DOMAIN q, r \notin DOMAIN origins[i]
      PROVE  \E e \in DOMAIN plan : e.ref = r /\ q[r].local = place[e] /\ q[r].body = e.body
  <2>1. PICK e : e = CHOOSE h \in unmapped : h.ref = r
    OBVIOUS
  <2>2. e \in unmapped /\ e.ref = r
    BY <1>6, <2>1
  <2>3. q[r] = [local |-> place[e], body |-> e.body]
    BY <1>6, <2>1
  <2> QED
    BY <2>2, <2>3
<1>7. \A r \in DOMAIN origins[i] : r \in DOMAIN q /\ q[r] = origins[i][r]
  OBVIOUS
<1> HIDE DEF q, p, unmapped
<1>8. origins'[i] = q /\ origins' = [j \in Instances |-> origins'[j]]
      /\ \A j \in Instances : j # i => origins'[j] = origins[j]
  BY <1>2, <1>5
<1>9. OriginsAreCarried(i, plan, place)
  BY <1>6, <1>7, <1>8 DEF OriginsAreCarried
<1> QED
  BY <1>1, <1>2, <1>4, <1>9

IsAsPlanned(plan) ==
    \A j \in Instances : \A r \in DOMAIN origins'[j] \ DOMAIN origins[j] :
        \E e \in DOMAIN plan :
            /\ e.ref = r
            /\ plan[e].what = "create" <=> origins'[j][r].local \notin Held(j)
            /\ plan[e].what = "create" => Keyed(j, e.body.key) = {}

\* What an import leaves: the invariant, and what was to be created is new.
LEMMA CarryKeeps ==
    ASSUME BundlesInv, NEW i \in Instances, NEW c \in DOMAIN bundles, NEW plan, plan = Plan(i, bundles[c]), Safe(plan),
           Carry(i, c, plan), UNCHANGED <<bundles, edits>>, import'.pc = "applied"
    PROVE  /\ BundlesInv'
           /\ IsAsPlanned(plan)
<1>1. PICK b : b = bundles[c]
  OBVIOUS
<1>2. b \in Bundles /\ BundleStands(b) /\ HasOneOfEach(b) /\ LinksAreWhole(b)
  BY <1>1 DEF BundlesInv, BundleStands
<1>3. PICK place : place = Placed(plan)
  OBVIOUS
<1>4. PlanStands(objects[i], b, plan) /\ DOMAIN plan = Carried(b) /\ IsFiniteSet(DOMAIN plan)
  <2>1. PlanStands(objects[i], b, plan)
    BY <1>1, <1>2, PlanIs
  <2> QED
    BY <1>2, <2>1 DEF PlanStands, HasOneOfEach
<1>5. /\ made' = made + Cardinality(NewOf(plan)) /\ made' <= MaxIds
      /\ OriginsAreCarried(i, plan, place) /\ receipts' = [receipts EXCEPT ![i] = @ \cup {c}]
      /\ \E p : IsCarried(objects[i], p, plan, place) /\ objects' = [objects EXCEPT ![i] = p]
  BY <1>3, CarryIs
<1>6. PICK p : IsCarried(objects[i], p, plan, place) /\ objects' = [objects EXCEPT ![i] = p]
  BY <1>5
<1>7. PICK o : o = objects[i] /\ StoreStands(o, made)
  BY DEF BundlesInv
<1>8. made \in Nat
  BY MadeIs
<1>9. PICK t : t = made'
  OBVIOUS
<1>10. PlacesStand(plan, place, made, t) /\ t \in Nat /\ made <= t /\ t <= MaxIds
  BY <1>3, <1>4, <1>5, <1>8, <1>9, PlacedIs
<1>11. /\ StoreStands(p, t) /\ Stays(o, p, made) /\ NamesGo(o, p, t, ElsewhereIn(b))
       /\ \A e \in Carried(b) : place[e] \in 1 .. t /\ place[e] \in HeldIn(p) /\ p[place[e]].key = e.body.key
  <2>1. PlanStands(o, b, plan) /\ IsCarried(o, p, plan, place)
    BY <1>4, <1>6, <1>7
  <2> QED
    BY <1>2, <1>7, <1>8, <1>10, <2>1, ImportStands
<1>12. objects'[i] = p /\ objects' = [j \in Instances |-> objects'[j]]
       /\ \A j \in Instances : j # i => objects'[j] = objects[j]
  BY <1>6 DEF BundlesInv
<1>13. NothingTurns
  <2>1. \A j \in Instances : Stays(objects[j], objects'[j], made)
    BY <1>7, <1>11, <1>12 DEF Stays
  <2> QED
    BY <1>8, <1>9, <1>10, <2>1 DEF NothingTurns
<1>14. ASSUME NEW j \in Instances PROVE StoreStands(objects'[j], made')
  <2>1. CASE j = i
    BY <1>9, <1>11, <1>12, <2>1
  <2>2. CASE j # i
    <3>1. StoreStands(objects[j], made)
      BY DEF BundlesInv
    <3>2. StoreStands(objects[j], t)
      BY <1>8, <1>10, <3>1, StoreGrows
    <3> QED
      BY <1>9, <1>12, <2>2, <3>2
  <2> QED
    BY <2>1, <2>2
<1>15. ASSUME NEW e \in Carried(b), NEW x, x.local = place[e], x.body = e.body PROVE OriginStands(i, e.ref, x)'
  <2>1. e \in Envelopes /\ EnvelopeStands(e) /\ e.body \in ObjectOf(Refs)
    BY <1>2 DEF BundleStands, Bundles, Carried, Envelopes
  <2>2. PICK r : r = e.ref
    OBVIOUS
  <2>3. KeyStands(r, e.body.key)
    BY <2>1, <2>2 DEF EnvelopeStands
  <2>4. PICK key : key = e.body.key
    OBVIOUS
  <2>5. KeyStands(r, key)'
    BY <1>13, <2>3, <2>4, KeyStays
  <2>6. x.local \in 1 .. made' /\ objects'[i][x.local].key = key
    BY <1>9, <1>11, <1>12, <1>15, <2>4
  <2>7. \E d \in DOMAIN bundles' : bundles'[d].by = e.ref.at /\ \E f \in Carried(bundles'[d]) : f.ref = e.ref /\ f.body = x.body
    <3>1. CASE e.ref.at = b.by
      BY <1>1, <1>15, <3>1
    <3>2. CASE e.ref.at # b.by
      <4>1. PICK d \in 1 .. (c - 1) : bundles[d].by = e.ref.at /\ \E f \in Carried(bundles[d]) : f.ref = e.ref /\ f.body = e.body
        BY <1>1, <3>2 DEF BundlesInv, ForeignNamesAreTrue
      <4>2. d \in DOMAIN bundles
        BY DEF BundlesInv
      <4> QED
        BY <1>15, <4>1, <4>2
    <3> QED
      BY <3>1, <3>2
  <2> QED
    BY <1>15, <2>1, <2>2, <2>4, <2>5, <2>6, <2>7 DEF OriginStands
<1>16. ASSUME NEW j \in Instances, NEW r \in DOMAIN origins'[j] PROVE OriginStands(j, r, origins[j][r])'
  <2>1. PICK x : x = origins'[j][r]
    OBVIOUS
  <2>2. OriginStands(j, r, x)'
    <3>1. CASE r \in DOMAIN origins[j]
      <4>1. OriginStands(j, r, origins[j][r]) /\ x = origins[j][r]
        BY <1>5, <2>1, <3>1 DEF BundlesInv, OriginsAreCarried
      <4>2. OriginStands(j, r, x)
        BY <4>1
      <4> QED
        BY <1>13, <4>2, OriginStays
    <3>2. CASE r \notin DOMAIN origins[j]
      <4>1. j = i /\ \E e \in DOMAIN plan : e.ref = r /\ x.local = place[e] /\ x.body = e.body
        BY <1>5, <2>1, <3>2 DEF OriginsAreCarried
      <4>2. PICK e \in Carried(b) : e.ref = r /\ x.local = place[e] /\ x.body = e.body
        BY <1>4, <4>1
      <4>3. OriginStands(i, e.ref, x)'
        BY <1>15, <4>2
      <4> QED
        BY <4>1, <4>2, <4>3
    <3> QED
      BY <3>1, <3>2
  <2> QED
    BY <2>1, <2>2
<1>17. ASSUME NEW d \in DOMAIN bundles' PROVE BundleStands(bundles[d])'
  <2>1. PICK x : x = bundles[d]
    OBVIOUS
  <2>2. BundleStands(x)
    BY <2>1 DEF BundlesInv
  <2>3. BundleStands(x)'
    BY <1>13, <2>2, BundleStays
  <2> QED
    BY <2>1, <2>3
<1>18. receipts' \in [Instances -> SUBSET DOMAIN bundles']
  BY <1>5 DEF BundlesInv
<1>19. ForeignNamesAreTrue' /\ bundles' \in Seq(Bundles) /\ edits' \in 0 .. MaxEdits
  BY DEF BundlesInv, ForeignNamesAreTrue
<1>22. NamedIsMemory'
  <2>1. PICK X : X = ElsewhereIn(b)
    OBVIOUS
  <2>2. \A r \in X : IsNoSource(r)
    BY <1>1, <2>1 DEF BundlesInv, NamedIsMemory, ElsewhereIn
  <2>3. NamesGo(objects[i], p, made', X)
    BY <1>7, <1>9, <1>11, <2>1
  <2>4. NamedIsMemory /\ bundles' = bundles
    BY DEF BundlesInv
  <2> QED
    BY <1>12, <1>13, <2>2, <2>3, <2>4, NamesStay
<1>20. BundlesInv'
  <2>1. made' \in 0 .. MaxIds
    BY <1>9, <1>10, TopIs
  <2>2. origins' = [j \in Instances |-> origins'[j]]
    BY <1>5 DEF OriginsAreCarried
  <2> QED
    BY <1>12, <1>14, <1>16, <1>17, <1>18, <1>19, <1>22, <2>1, <2>2 DEF BundlesInv
<1>21. ASSUME NEW j \in Instances, NEW r \in DOMAIN origins'[j] \ DOMAIN origins[j]
       PROVE  \E e \in DOMAIN plan :
                     /\ e.ref = r
                     /\ plan[e].what = "create" <=> origins'[j][r].local \notin Held(j)
                     /\ plan[e].what = "create" => Keyed(j, e.body.key) = {}
  <2>1. j = i
    BY <1>5 DEF OriginsAreCarried
  <2>2. PICK e \in DOMAIN plan : e.ref = r /\ origins'[i][r].local = place[e]
    BY <1>5, <2>1 DEF OriginsAreCarried
  <2>3. Held(i) = HeldIn(o) /\ Keyed(i, e.body.key) = {n \in HeldIn(o) : o[n].key = e.body.key}
    BY <1>7, HeldIs
  <2>4. plan[e].what = "create" <=> e \in NewOf(plan)
    BY DEF NewOf
  <2>5. ASSUME e \in NewOf(plan) PROVE place[e] \notin HeldIn(o) /\ Keyed(i, e.body.key) = {}
    <3>1. place[e] \in (made + 1) .. t /\ \A n \in HeldIn(o) : n \in 1 .. made
      BY <1>7, <1>10, <2>5 DEF PlacesStand, StoreStands
    <3>2. place[e] \notin HeldIn(o)
      BY <1>8, <3>1
    <3>3. \A n \in HeldIn(o) : o[n].key # e.body.key
      BY <1>4, <1>7, <2>5 DEF PlanStands
    <3> QED
      BY <2>3, <3>2, <3>3
  <2>6. ASSUME e \notin NewOf(plan) PROVE place[e] \in HeldIn(o)
    BY <1>4, <1>7, <1>10, <2>6 DEF PlanStands, PlacesStand
  <2> QED
    BY <2>1, <2>2, <2>3, <2>4, <2>5, <2>6
<1> QED
  BY <1>20, <1>21 DEF IsAsPlanned

LEMMA ApplyKeeps ==
    ASSUME BundlesInv, ApplyImport
    PROVE  BundlesInv' /\ ShownIsDone /\ RepeatsAreAnswered
<1>1. PICK i : i = import.at
  OBVIOUS
<1>2. PICK c : c = import.bundle
  OBVIOUS
<1>3. PICK plan : plan = import.plan
  OBVIOUS
<1>4. i \in Instances /\ c \in DOMAIN bundles /\ import.pc = "shown" /\ UNCHANGED <<bundles, edits>>
  BY <1>1, <1>2 DEF ApplyImport, BundlesInv
<1>5. CASE Repeated(i, c)
  <2>1. import' = [pc |-> "repeated"] /\ UNCHANGED <<objects, origins, receipts, made>>
    BY <1>1, <1>2, <1>5 DEF ApplyImport, Answer
  <2>2. BundlesInv'
    BY <1>4, <2>1, ImportOnlyKeeps
  <2> QED
    BY <2>1, <2>2 DEF ShownIsDone, RepeatsAreAnswered
<1>6. CASE ~Repeated(i, c) /\ Holds(plan, Plan(i, bundles[c]))
  <2>1. import'.pc = "applied" /\ Carry(i, c, plan) /\ plan = Plan(i, bundles[c]) /\ Safe(plan)
    <3>1. Answer("applied") /\ Carry(i, c, plan)
      BY <1>1, <1>2, <1>3, <1>6, Zenon DEF ApplyImport
    <3>2. plan = Plan(i, bundles[c]) /\ Safe(plan)
      BY <1>6 DEF Holds
    <3> QED
      BY <3>1, <3>2 DEF Answer
  <2>2. BundlesInv' /\ IsAsPlanned(plan)
    BY <1>4, <2>1, CarryKeeps
  <2>3. RepeatsAreAnswered
    BY <1>1, <1>2, <1>6 DEF RepeatsAreAnswered, Repeated
  <2>4. ShownIsDone
    BY <1>3, <2>2 DEF ShownIsDone, IsAsPlanned
  <2> QED
    BY <2>2, <2>3, <2>4
<1>7. CASE ~Repeated(i, c) /\ ~Holds(plan, Plan(i, bundles[c]))
  <2>1. import' = [pc |-> "refused"] /\ UNCHANGED <<objects, origins, receipts, made>>
    BY <1>1, <1>2, <1>3, <1>7 DEF ApplyImport, Answer
  <2>2. BundlesInv'
    BY <1>4, <2>1, ImportOnlyKeeps
  <2>3. RepeatsAreAnswered
    BY <1>1, <1>2, <1>7 DEF RepeatsAreAnswered, Repeated
  <2> QED
    BY <2>1, <2>2, <2>3 DEF ShownIsDone
<1> QED
  BY <1>5, <1>6, <1>7

\* Every step keeps the invariant, and does what an operator was shown.
LEMMA BundlesStep ==
    ASSUME BundlesInv, [BundlesNext]_bundleVars
    PROVE  BundlesInv' /\ [ShownIsDone /\ RepeatsAreAnswered]_bundleVars
<1>1. CASE ApplyImport
  BY <1>1, ApplyKeeps
<1>2. ASSUME UNCHANGED <<origins, import>> PROVE ShownIsDone /\ RepeatsAreAnswered
  BY <1>2 DEF ShownIsDone, RepeatsAreAnswered
<1>3. ASSUME NEW i \in Instances, NEW M \in SUBSET Memories(i), Export(i, M)
      PROVE  BundlesInv' /\ ShownIsDone /\ RepeatsAreAnswered
  BY <1>2, <1>3, ExportKeeps DEF Export
<1>4. ASSUME NEW i \in Instances, NEW b \in DOMAIN bundles, PreviewImport(i, b)
      PROVE  BundlesInv' /\ ShownIsDone /\ RepeatsAreAnswered
  <2>1. BundlesInv'
    BY <1>4, PreviewKeeps
  <2>2. UNCHANGED origins /\ import.pc # "shown"
    BY <1>4 DEF PreviewImport
  <2> QED
    BY <2>1, <2>2 DEF ShownIsDone, RepeatsAreAnswered
<1>5. ASSUME NEW i \in Instances, NEW text \in Texts, Remember(i, text)
      PROVE  BundlesInv' /\ ShownIsDone /\ RepeatsAreAnswered
  BY <1>2, <1>5, RememberKeeps DEF Remember
<1>6. ASSUME NEW i \in Instances, NEW m \in Ids, Touch(i, m)
      PROVE  BundlesInv' /\ ShownIsDone /\ RepeatsAreAnswered
  BY <1>2, <1>6, TouchKeeps DEF Touch
<1>7. ASSUME NEW i \in Instances, NEW m \in Ids, Erase(i, m)
      PROVE  BundlesInv' /\ ShownIsDone /\ RepeatsAreAnswered
  BY <1>2, <1>7, EraseKeeps DEF Erase
<1>8. ASSUME NEW i \in Instances, NEW m \in Ids, NEW text \in Texts, Supersede(i, m, text)
      PROVE  BundlesInv' /\ ShownIsDone /\ RepeatsAreAnswered
  BY <1>2, <1>8, SupersessionKeeps DEF Supersede
<1>9. CASE UNCHANGED bundleVars
  <2>1. UNCHANGED <<objects, origins, receipts, bundles, made, edits, import>>
    BY <1>9 DEF bundleVars
  <2>2. /\ import'.pc \in {"idle", "shown", "applied", "refused", "repeated"}
        /\ import'.pc = "shown" => import'.at \in Instances /\ import'.bundle \in DOMAIN bundles
    BY <2>1 DEF BundlesInv
  <2> QED
    BY <1>9, <2>1, <2>2, ImportOnlyKeeps
<1> QED
  BY <1>1, <1>3, <1>4, <1>5, <1>6, <1>7, <1>8, <1>9 DEF BundlesNext

\* The invariant, whatever stores exchange.
LEMMA BundlesAreKept == BundlesSpec => []BundlesInv
<1>1. BundlesInit => BundlesInv
  BY BundlesStart
<1>2. BundlesInv /\ [BundlesNext]_bundleVars => BundlesInv'
  BY BundlesStep
<1> QED
  BY <1>1, <1>2, PTL DEF BundlesSpec
----------------------------------------------------------------------------
(* What the invariant says of stores *)

LEMMA TypesFollow == ASSUME BundlesInv PROVE BundlesTypeOK
<1>1. ASSUME NEW i \in Instances
      PROVE  /\ \A n \in Held(i) : objects[i][n] \in ObjectOf(1 .. made)
             /\ \A n \in Memories(i) : objects[i][n].from \subseteq Held(i) \ Memories(i)
             /\ \A r \in DOMAIN origins[i] :
                   r \in Refs /\ origins[i][r].local \in 1 .. made /\ origins[i][r].body \in ObjectOf(Refs)
             /\ receipts[i] \subseteq DOMAIN bundles
  <2>1. StoreStands(objects[i], made) /\ made \in Nat /\ 1 .. made \subseteq Ids
    BY MadeIs DEF BundlesInv
  <2>2. Held(i) = HeldIn(objects[i]) /\ Memories(i) = MemoriesIn(objects[i])
    BY HeldIs
  <2>3. \A n \in HeldIn(objects[i]) : objects[i][n] \in ObjectOf(1 .. made)
    BY <2>1, StoreHolds DEF HeldIn
  <2>4. \A n \in MemoriesIn(objects[i]) : objects[i][n].from \subseteq HeldIn(objects[i]) \ MemoriesIn(objects[i])
    BY <2>1 DEF StoreStands
  <2>5. ASSUME NEW r \in DOMAIN origins[i]
        PROVE  r \in Refs /\ origins[i][r].local \in 1 .. made /\ origins[i][r].body \in ObjectOf(Refs)
    <3>1. OriginStands(i, r, origins[i][r])
      BY DEF BundlesInv
    <3>2. r \in [at: Instances, id: 1 .. made]
      BY <3>1 DEF OriginStands, KeyStands
    <3>3. r \in Refs
      BY <2>1, <3>2 DEF Refs
    <3> QED
      BY <3>1, <3>3 DEF OriginStands
  <2>6. receipts[i] \subseteq DOMAIN bundles
    BY DEF BundlesInv
  <2> QED
    BY <2>2, <2>3, <2>4, <2>5, <2>6
<1>2. ASSUME NEW b \in DOMAIN bundles, NEW e \in Carried(bundles[b]) PROVE TypedEnvelope(e)
  <2>1. bundles[b] \in Bundles
    BY DEF BundlesInv
  <2>2. e \in Envelopes
    <3> HIDE DEF Envelopes
    <3> QED
      BY <2>1 DEF Bundles, Carried
  <2> QED
    BY <2>2 DEF Envelopes, TypedEnvelope
<1> QED
  BY <1>1, <1>2 DEF BundlesTypeOK, BundlesInv

LEMMA NoneTwice == ASSUME BundlesInv PROVE NothingIsDuplicated
<1> SUFFICES ASSUME NEW i \in Instances, NEW key \in Texts \cup Sources PROVE Cardinality(Keyed(i, key)) <= 1
  BY DEF NothingIsDuplicated
<1>1. \A m, n \in Keyed(i, key) : m = n
  <2>1. \A m, n \in HeldIn(objects[i]) : objects[i][m].key = objects[i][n].key => m = n
    BY DEF BundlesInv, StoreStands
  <2>2. Keyed(i, key) = {n \in HeldIn(objects[i]) : objects[i][n].key = key}
    BY HeldIs
  <2> QED
    BY <2>1, <2>2
<1>2. CASE Keyed(i, key) = {}
  BY <1>2, FS_EmptySet
<1>3. CASE Keyed(i, key) # {}
  <2>1. PICK n : n \in Keyed(i, key)
    BY <1>3
  <2>2. Keyed(i, key) = {n}
    BY <1>1, <2>1
  <2> QED
    BY <2>2, FS_Singleton
<1> QED
  BY <1>2, <1>3

LEMMA SupersessionIsWhole == ASSUME BundlesInv PROVE SupersessionTravelsWhole
<1> SUFFICES ASSUME NEW i \in Instances, NEW m \in Memories(i), NEW n \in Memories(i)
             PROVE  /\ n \in objects[i][m].over <=> m \in objects[i][n].by
                    /\ n \in objects[i][m].over => ~objects[i][n].current
                    /\ ~objects[i][m].current => objects[i][m].by # {} \/ objects[i][m].ext # {}
  BY DEF SupersessionTravelsWhole
<1>1. LinksStand(objects[i], MemoriesIn(objects[i])) /\ m \in MemoriesIn(objects[i])
      /\ n \in MemoriesIn(objects[i])
  BY HeldIs DEF BundlesInv, StoreStands
<1> QED
  BY <1>1 DEF LinksStand

LEMMA WholeIsReadable == ASSUME BundlesInv PROVE SharedIsReadable
<1> SUFFICES ASSUME NEW i \in Instances, NEW M \in SUBSET Memories(i),
                    \A m, n \in M : NotHere(i, m) \cap ({Own(i, n)} \cup OriginsOf(i, n)) = {}
             PROVE  Readable(Payload(i, M))
  BY DEF SharedIsReadable
<1>1. M \in SUBSET MemoriesIn(objects[i]) /\ Held(i) = HeldIn(objects[i])
  BY HeldIs
<1>2. PICK b : b = Payload(i, M)
  OBVIOUS
<1>3. NamesAreUnique(b) /\ LinksAreWhole(b)
  BY <1>1, <1>2, PayloadNamesOnce, PayloadLinksWhole DEF HasOneOfEach
<1>4. NothingDangles(b)
  <2>1. NamesOf(b.sources) \subseteq NamesIn(b) /\ NamesOf(b.memories) \subseteq NamesIn(b)
    BY DEF NamesOf, NamesIn, Carried
  <2> QED
    BY <1>3, <2>1 DEF NothingDangles, LinksAreWhole
<1>5. ASSUME NEW e \in b.memories, NEW r \in e.body.ext, r \in NamesIn(b) PROVE FALSE
  <2> DEFINE o == objects[i]
  <2>1. PICK m \in M : e = MemoryEnvelope(i, m, M)
    BY <1>1, <1>2, PayloadHas
  <2>2. IsMemoryOf(e, i, m, M)
    BY <1>1, <2>1, MemoriesAreEnveloped
  <2>3. e.body.ext = o[m].ext \cup OwnOf(i, (o[m].over \cup o[m].by) \ M)
    BY <2>2 DEF IsMemoryOf
  <2>4. PICK f \in Carried(b) : r \in f.names
    BY <1>5 DEF NamesIn
  <2>5. PICK n \in HeldIn(o) : IsEnvelopeOf(f, i, n, M, b)
    <3>1. /\ SourcesOf(i, M) \subseteq HeldIn(o) /\ M \subseteq HeldIn(o)
          /\ \A g \in b.sources : \E s \in SourcesOf(i, M) : g = SourceEnvelope(i, s) /\ Envelops(g, i, s)
          /\ \A g \in b.memories : \E s \in M : g = MemoryEnvelope(i, s, M) /\ Envelops(g, i, s)
      BY <1>1, <1>2, PayloadHas DEF MemoriesIn
    <3> HIDE DEF o
    <3> QED
      BY <3>1 DEF Carried, IsEnvelopeOf
  <2>6. r \in Called(i, n)
    BY <2>4, <2>5 DEF IsEnvelopeOf, Envelops
  <2>7. StoreStands(o, made) /\ m \in HeldIn(o) /\ M \subseteq MemoriesIn(o) /\ n \in 1 .. made
    BY <1>1 DEF BundlesInv, StoreStands, MemoriesIn
  <2>8. IsNoSource(r)
    <3>1. r \in o[m].ext \cup OwnOf(i, o[m].over \cup o[m].by)
      BY <1>5, <2>3 DEF OwnOf
    <3> QED
      BY <2>7, <3>1 DEF BundlesInv, NamedIsMemory, NamesStand
  <2>9. n \in M
    <3> SUFFICES ASSUME n \in SourcesOf(i, M) PROVE FALSE
      BY <2>5 DEF IsEnvelopeOf
    <3>1. n \in HeldIn(o) \ MemoriesIn(o)
      BY <1>1, <1>2, PayloadHas
    <3>2. o[n].key \in Sources
      <4>1. n \in Ids /\ o[n].key # Gone /\ o[n].key \notin Texts
        BY <3>1 DEF HeldIn, MemoriesIn
      <4>2. o[n] \in ObjectOf(1 .. made)
        BY <2>7, <4>1, MadeIs, StoreHolds
      <4> QED
        BY <4>1, <4>2, ObjectIs
    <3>3. KeyStands(r, o[n].key)
      BY <2>6, CalledIs
    <3> QED
      BY <2>8, <3>2, <3>3 DEF KeyStands, IsNoSource
  <2>10. CASE r \in o[m].ext
    BY <2>6, <2>9, <2>10 DEF NotHere, Called
  <2>11. CASE r \in OwnOf(i, (o[m].over \cup o[m].by) \ M)
    <3>1. PICK l \in (o[m].over \cup o[m].by) \ M : r = Own(i, l)
      BY <2>11 DEF OwnOf
    <3>2. CASE l \in HeldIn(o)
      <4>1. l = n
        BY <2>6, <3>1, <3>2, NoNameIsShared DEF Called
      <4> QED
        BY <2>9, <3>1, <4>1
    <3>3. CASE l \notin HeldIn(o)
      <4>1. r \in NotHere(i, m)
        BY <1>1, <3>1, <3>3 DEF NotHere
      <4> QED
        BY <2>6, <2>9, <4>1 DEF Called
    <3> QED
      BY <3>2, <3>3
  <2> QED
    BY <1>5, <2>3, <2>10, <2>11
<1> QED
  BY <1>2, <1>3, <1>4, <1>5 DEF Readable, NothingIsBothHereAndElsewhere
----------------------------------------------------------------------------
(* Together *)

\* What arrives in a bundle doubles nothing, supersession travels whole, a foreign reference names
\* what its store exported under it, and what a store holds can be exported again and read back
\* (import_apply, export_write and validate_bundle in src/src/portable_bundle.rs), whatever the
\* stores write, erase, supersede and exchange.
THEOREM BundlesStayTrue == RecordsSpec => []BundlesAreTrue
<1>1. BundlesInv => BundlesAreTrue
  <2>1. BundlesInv => ForeignNamesAreTrue
    BY DEF BundlesInv
  <2> QED
    BY <2>1, NoneTwice, SupersessionIsWhole, WholeIsReadable DEF BundlesAreTrue
<1> QED
  BY <1>1, RecordsAreEachPart, BundlesAreKept, PTL

\* An import creates what its preview said is new and uses again what it said is there, however
\* much was written since; and a bundle applied before gets its first answer and changes nothing
\* (import_apply, revalidation of the plan and receipts, in src/src/portable_bundle.rs).
THEOREM ImportsDoAsShown == RecordsSpec => ImportsAreAsShown
<1>1. BundlesInv /\ [BundlesNext]_bundleVars => [ShownIsDone /\ RepeatsAreAnswered]_bundleVars
  BY BundlesStep
<1> QED
  BY <1>1, RecordsAreEachPart, BundlesAreKept, PTL DEF BundlesSpec, ImportsAreAsShown

\* Rows, tables, calls, files and sets have the types their schema declares (src/src/store.rs and
\* src/migrations), in every part.
THEOREM RecordsAreTyped == RecordsSpec => []RecordsTypeOK
<1>1. BundlesInv => BundlesTypeOK
  BY TypesFollow
<1>2. /\ BundlesTypeOK /\ SyncTypeOK /\ PatchTypeOK /\ ProceduresTypeOK /\ RecallTypeOK /\ IntakeTypeOK
      /\ ChatsTypeOK /\ SemanticsTypeOK /\ GitTypeOK /\ PccTypeOK /\ McpTypeOK
      => RecordsTypeOK
  BY DEF RecordsTypeOK
<1> QED
  BY <1>1, <1>2, RecordsAreEachPart, BundlesAreKept, FilesTyped, PatchesStay, ProceduresTyped, RecallsStay,
     IntakeTyped, ChatsStay, SemanticsTyped, GitStays, PccStays, McpTyped, PTL
=============================================================================
