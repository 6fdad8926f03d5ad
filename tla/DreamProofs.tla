----------------------------- MODULE DreamProofs -----------------------------
(***************************************************************************)
(* Proofs about the background work.  Whatever becomes of its ticks, the   *)
(* saved cursor passes nothing that was not adopted or sent, and what was  *)
(* undone is not adopted again.  Whatever becomes of its jobs, the day's   *)
(* ceiling is overshot by an answer a caller at most.  And a model's       *)
(* answers retire nothing they do not replace.                             *)
(***************************************************************************)
EXTENDS MCDreams, FiniteSetTheorems, WellFoundedInduction, TLAPS

\* A set of numbers has a least.
LEMMA LeastNumber ==
    ASSUME NEW S, S \subseteq Nat, S # {}
    PROVE  Min(S) \in S /\ \A n \in S : Min(S) <= n
<1>1. PICK m \in S : \A n \in S : ~(<<n, m>> \in OpToRel(<, Nat))
  BY NatLessThanWellFounded, WFMin
<1>2. \A n \in S : ~(n < m)
  BY <1>1 DEF OpToRel
<1>3. \A n \in S : m <= n
  BY <1>2
<1> QED
  BY <1>3 DEF Min

----------------------------------------------------------------------------
(* Ticks *)

\* A single row is as long as it is.
LEMMA BytesOfOne ==
    ASSUME NEW i, evidence[i].size \in Nat
    PROVE  BytesOf({i}) = evidence[i].size
<1> DEFINE iter[s \in SUBSET {i}] ==
              IF s = {} THEN 0 ELSE evidence[CHOOSE x \in s : TRUE].size + iter[s \ {CHOOSE x \in s : TRUE}]
           Sums(f) == f = [s \in SUBSET {i} |->
              IF s = {} THEN 0 ELSE evidence[CHOOSE x \in s : TRUE].size + f[s \ {CHOOSE x \in s : TRUE}]]
           sum == [s \in SUBSET {i} |-> IF s = {} THEN 0 ELSE evidence[i].size]
<1>1. BytesOf({i}) = iter[{i}]
  BY DEF BytesOf, MapThenSumSet, MapThenFoldSet
<1>2. iter = CHOOSE f : Sums(f)
  OBVIOUS
<1>3. Sums(sum)
  <2>1. ASSUME NEW s \in SUBSET {i} PROVE s = {} \/ (s = {i} /\ (CHOOSE x \in s : TRUE) = i)
    OBVIOUS
  <2> QED
    BY <2>1
<1> HIDE DEF iter
<1>4. Sums(iter)
  BY ZenonT(30), <1>2, <1>3
<1> QED
  BY <1>1, <1>4

Bands == [pc: TickPcs, from: Places, to: Places, frontier: Places, pending: SUBSET Candidates, limited: BOOLEAN]

Taken(d) == \A c \in d : c.claim \in adopted

\* A tick holds a window of the evidence that begins at a cursor there has been.
InWindow(t) ==
    ticks[t].pc = "idle"
    \/ (ticks[t].from <= covered /\ ticks[t].from <= ticks[t].to /\ ticks[t].to <= Len(evidence))

\* What is to be recorded was sent, or was too long.
WasSent(t) ==
    /\ ticks[t].pc \in {"idle", "size", "record"} /\ ~ticks[t].limited
    /\ ticks[t].pc = "record" => \A i \in Window(t) : i \in sent \/ evidence[i].size > MaxBytes

\* What is to be recorded is adopted, and what is to be adopted pending, unless there was no room.
WillBeAdopted(t) ==
    /\ ticks[t].pc # "size"
    /\ ticks[t].pc \in {"persist", "apply"} => ticks[t].pending # NoProposal
    /\ ticks[t].pc \in {"persist", "apply"} /\ ~ticks[t].limited =>
          Claimed(Window(t)) \subseteq adopted \cup {c.claim : c \in ticks[t].pending}
    /\ ticks[t].pc = "record" /\ ~ticks[t].limited => Claimed(Window(t)) \subseteq adopted

\* What a tick may rely on before it moves the cursor.
TickStands(t) ==
    InWindow(t) /\ (mode = "command" => WasSent(t)) /\ (mode = "governed" => WillBeAdopted(t))

TicksInv ==
    /\ TicksTypeOK /\ Len(evidence) <= MaxEvidence /\ ticks \in [Tickers -> Bands]
    /\ \A k \in Claims \X Scopes : owner[k] # NoProposal => k[1] \in adopted
    /\ NoProposal \notin DOMAIN proposals
    /\ \A d \in DOMAIN proposals : proposals[d] = "applied" => Taken(d)
    /\ \A t \in Tickers : TickStands(t)
    /\ CoveredWasHandled

LEMMA TicksBegin == TicksInit => TicksInv
<1> SUFFICES ASSUME TicksInit PROVE TicksInv
  OBVIOUS
<1> USE DreamTicksAssumption
<1>1. Len(evidence) = 0 /\ evidence \in Seq(Evidence) /\ DOMAIN proposals = {}
  BY DEF TicksInit
<1>2. ticks \in [Tickers -> Bands]
  BY DEF TicksInit, NotTicking, Bands, TickPcs, Places, NoProposal
<1>3. TicksTypeOK
  BY <1>1, <1>2 DEF TicksInit, TicksTypeOK, Bands, Proposals, NoProposal, Status
<1>4. CoveredWasHandled
  BY DEF TicksInit, CoveredWasHandled, CoveredWasAdopted, CoveredWasSent, Claimed
<1>5. ASSUME NEW t \in Tickers PROVE TickStands(t)
  BY DEF TicksInit, TickStands, NotTicking, InWindow, WasSent, WillBeAdopted
<1> QED
  BY <1>1, <1>2, <1>3, <1>4, <1>5 DEF TicksInv, TicksInit

\* Evidence that was there stays, and nothing that was done is taken back.
Advances ==
    /\ mode' = mode /\ covered <= covered' /\ covered' \in Nat /\ adopted \subseteq adopted' /\ sent \subseteq sent'
    /\ evidence' \in Seq(Evidence) /\ Len(evidence) <= Len(evidence')
    /\ \A i \in 1 .. Len(evidence) : evidence'[i] = evidence[i]

LEMMA ClaimedStays ==
    ASSUME TicksInv, Advances, NEW W, W \subseteq 1 .. Len(evidence)
    PROVE  Claimed(W)' = Claimed(W)
BY DEF Claimed, Advances

LEMMA OthersAdvance ==
    ASSUME TicksInv, Advances, NEW t \in Tickers, ticks'[t] = ticks[t]
    PROVE  TickStands(t)'
<1>1. ticks[t] \in Bands /\ TickStands(t) /\ covered \in Nat /\ Len(evidence) \in Nat /\ Len(evidence') \in Nat
  BY DEF TicksInv, TicksTypeOK, Advances
<1>2. ticks[t].from \in Nat /\ ticks[t].to \in Nat
  BY <1>1 DEF Bands, Places
<1>3. CASE ticks[t].pc = "idle"
  BY <1>1, <1>3 DEF TickStands, Advances, InWindow, WasSent, WillBeAdopted
<1>4. CASE ticks[t].pc # "idle"
  <2>1. /\ ticks[t].from <= covered /\ ticks[t].from <= ticks[t].to /\ ticks[t].to <= Len(evidence)
        /\ Window(t) \subseteq 1 .. Len(evidence) /\ Window(t)' = Window(t)
    BY <1>1, <1>2, <1>4 DEF TickStands, InWindow, Window
  <2>2. PICK W : W = Window(t) /\ W \subseteq 1 .. Len(evidence)
    BY <2>1
  <2>3. Claimed(W)' = Claimed(W) /\ Window(t)' = W
    BY <2>1, <2>2, ClaimedStays
  <2>4. Claimed(Window(t))' = Claimed(Window(t))
    BY <2>2, <2>3 DEF Claimed
  <2>5. InWindow(t)'
    BY <1>1, <1>2, <2>1 DEF Advances, InWindow
  <2>6. \A i \in W : (i \in sent \/ evidence[i].size > MaxBytes) => (i \in sent' \/ evidence'[i].size > MaxBytes)
    BY <2>2 DEF Advances
  <2>7. WasSent(t) => WasSent(t)'
    BY <2>2, <2>3, <2>6 DEF WasSent
  <2>8. WillBeAdopted(t) => WillBeAdopted(t)'
    BY <2>4 DEF WillBeAdopted, Advances
  <2> QED
    BY <1>1, <2>5, <2>7, <2>8 DEF TickStands, Advances
<1> QED
  BY <1>3, <1>4

----------------------------------------------------------------------------
\* What a window makes candidates of.
LEMMA GroupsAreNumbers ==
    ASSUME evidence \in Seq(Evidence), NEW i \in 1 .. Len(evidence)
    PROVE  GroupOf(i) \in Nat
<1>0. evidence[i] \in Evidence
  OBVIOUS
<1>1. evidence[i].repo \in Scopes \cup {Unresolved}
  BY <1>0 DEF Evidence
<1>2. Scopes \subseteq Nat /\ NoRepo \in Nat
  BY DreamTicksAssumption DEF Scopes, NoRepo
<1> QED
  BY <1>1, <1>2 DEF GroupOf

LEMMA CandidatesHaveRows ==
    ASSUME evidence \in Seq(Evidence), NEW W, W \subseteq 1 .. Len(evidence), NEW d \in CandidatesOf(W)
    PROVE  d.claim \in Claimed(W) /\ d.sources # {} /\ d.sources \subseteq W
           /\ d = [claim |-> d.claim, sources |-> d.sources]
<1> DEFINE those(c) == {i \in W : evidence[i].claim = c /\ ~evidence[i].screened}
           first(c) == Min({GroupOf(i) : i \in those(c)})
<1>1. PICK c \in Claimed(W) : d = [claim |-> c, sources |-> {i \in those(c) : GroupOf(i) = first(c)}]
  BY DEF CandidatesOf
<1>2. those(c) # {}
  BY DEF Claimed
<1>3. {GroupOf(i) : i \in those(c)} \subseteq Nat /\ {GroupOf(i) : i \in those(c)} # {}
  BY <1>2, GroupsAreNumbers
<1>4. first(c) \in {GroupOf(i) : i \in those(c)}
  BY <1>3, LeastNumber
<1>5. {i \in those(c) : GroupOf(i) = first(c)} # {}
  BY <1>4
<1> HIDE DEF first
<1> QED
  BY <1>1, <1>5

LEMMA CandidatesAreFinite ==
    ASSUME NEW W, IsFiniteSet(W)
    PROVE  IsFiniteSet(CandidatesOf(W))
<1> DEFINE J == {j \in W : ~evidence[j].screened}
           claim == [j \in J |-> evidence[j].claim]
           those(c) == {i \in W : evidence[i].claim = c /\ ~evidence[i].screened}
           first(c) == Min({GroupOf(i) : i \in those(c)})
           made == [c \in Claimed(W) |-> [claim |-> c, sources |-> {i \in those(c) : GroupOf(i) = first(c)}]]
<1>1. IsFiniteSet(J)
  BY FS_Subset
<1> DEFINE all == {evidence[j].claim : j \in J}
<1>2. claim \in Surjection(J, all)
  BY DEF Surjection
<1>3. IsFiniteSet(all)
  BY <1>1, <1>2, FS_Surjection
<1>4. IsFiniteSet(Claimed(W))
  BY <1>3, FS_Subset DEF Claimed
<1>5. made \in Surjection(Claimed(W), CandidatesOf(W))
  <2> HIDE DEF first, those
  <2>1. CandidatesOf(W) = {[claim |-> c, sources |-> {i \in those(c) : GroupOf(i) = first(c)}] : c \in Claimed(W)}
    BY DEF CandidatesOf, first, those
  <2> QED
    BY <2>1 DEF Surjection
<1> QED
  BY <1>4, <1>5, FS_Surjection

\* If there is room for all of them, all are taken.
LEMMA AllAreFirst ==
    ASSUME evidence \in Seq(Evidence), NEW W, W \subseteq 1 .. Len(evidence), NEW D, D \subseteq CandidatesOf(W),
           IsFiniteSet(D), ~(Cardinality(D) > MaxCandidates)
    PROVE  FirstOf(D) = D
<1> DEFINE group(d) == GroupOf(Min(d.sources))
           before(d, e) == \/ group(d) < group(e)
                           \/ group(d) = group(e) /\ Min(d.sources) < Min(e.sources)
<1>1. ASSUME NEW d \in D PROVE Cardinality({e \in D : before(e, d)}) < MaxCandidates
  <2>1. d.sources # {} /\ d.sources \subseteq W /\ d.sources \subseteq Nat
    BY CandidatesHaveRows
  <2>2. Min(d.sources) \in d.sources
    BY <2>1, LeastNumber
  <2>3. Min(d.sources) \in Nat /\ group(d) \in Nat
    BY <2>1, <2>2, GroupsAreNumbers
  <2>4. ~before(d, d)
    BY <2>3
  <2> DEFINE E == {e \in D : before(e, d)}
  <2>5. E \in SUBSET D /\ d \notin E
    BY <2>4
  <2> HIDE DEF E
  <2>6. IsFiniteSet(E) /\ Cardinality(E) <= Cardinality(D) /\ (Cardinality(D) = Cardinality(E) => D = E)
    BY <2>5, FS_Subset
  <2>7. Cardinality(E) \in Nat /\ Cardinality(D) \in Nat /\ MaxCandidates \in Nat
    BY <2>6, FS_CardinalityType, DreamTicksAssumption
  <2>8. Cardinality(E) < MaxCandidates
    BY <2>5, <2>6, <2>7
  <2> QED
    BY <2>8 DEF E
<1>2. FirstOf(D) = {d \in D : Cardinality({e \in D : before(e, d)}) < MaxCandidates}
  BY DEF FirstOf
<1> QED
  BY <1>1, <1>2
----------------------------------------------------------------------------
\* A step moves one tick.

LEMMA TicksAreTyped ==
    ASSUME TicksInv
    PROVE  /\ covered \in Nat /\ Len(evidence) \in Nat /\ covered <= Len(evidence) /\ evidence \in Seq(Evidence)
           /\ mode \in {"governed", "command"} /\ Len(evidence) <= MaxEvidence /\ MaxEvidence \in Nat
           /\ \A t \in Tickers : ticks[t] \in Bands /\ ticks[t].from \in Nat /\ ticks[t].to \in Nat
                                /\ ticks[t].pending \in SUBSET Candidates
<1>1. \A t \in Tickers : ticks[t] \in Bands
  BY DEF TicksInv
<1> QED
  BY <1>1, DreamTicksAssumption DEF TicksInv, TicksTypeOK, Bands, Places

OwnersAreApplied ==
    \A k \in Claims \X Scopes : owner[k] # NoProposal => owner[k] \in DOMAIN proposals /\ proposals[owner[k]] = "applied"

LEMMA OwnersWereApplied == TicksTypeOK => OwnersAreApplied
BY DEF TicksTypeOK, OwnersAreApplied, Status

LEMMA TypedAgain ==
    ASSUME mode' \in {"governed", "command"}, evidence' \in Seq(Evidence), covered' \in 0 .. Len(evidence'),
           owner' \in [Claims \X Scopes -> Proposals], OwnersAreApplied',
           adopted' \in SUBSET Claims, sent' \in SUBSET Places, DOMAIN proposals' \subseteq Proposals,
           \A d \in DOMAIN proposals' : proposals'[d] \in {"validated", "applied", "reverted"},
           ticks' \in [Tickers -> Bands], undone' \in 0 .. MaxUndone, faults' \in 0 .. MaxFaults
    PROVE  TicksTypeOK'
<1>1. (\A k \in Claims \X Scopes : owner[k] # NoProposal => Status(owner[k]) = "applied")'
  BY DEF OwnersAreApplied, Status
<1> QED
  BY <1>1 DEF TicksTypeOK, Bands, Proposals

\* While the cursor stays, what it has passed stays handled.
LEMMA HandledStays ==
    ASSUME TicksInv, Advances, covered' = covered
    PROVE  CoveredWasHandled'
<1>1. 1 .. covered \subseteq 1 .. Len(evidence)
  BY TicksAreTyped
<1>2. Claimed(1 .. covered)' = Claimed(1 .. covered)
  <2> PICK W : W = 1 .. covered
    OBVIOUS
  <2> QED
    BY <1>1, ClaimedStays DEF Claimed
<1>3. CoveredWasAdopted'
  BY <1>2 DEF TicksInv, CoveredWasHandled, CoveredWasAdopted, Advances
<1>4. CoveredWasSent'
  BY <1>1 DEF TicksInv, CoveredWasHandled, CoveredWasSent, Advances
<1> QED
  BY <1>3, <1>4 DEF CoveredWasHandled

LEMMA OneTicks ==
    ASSUME TicksInv, Advances, NEW t \in Tickers, NEW b \in Bands, ticks' = [ticks EXCEPT ![t] = b],
           TickStands(t)'
    PROVE  ticks' \in [Tickers -> Bands] /\ ticks'[t] = b /\ \A u \in Tickers : TickStands(u)'
<1>1. ticks' \in [Tickers -> Bands] /\ ticks'[t] = b /\ \A u \in Tickers \ {t} : ticks'[u] = ticks[u]
  BY DEF TicksInv
<1> QED
  BY <1>1, OthersAdvance

\* Of steps that only look.
LEMMA JustTicks ==
    ASSUME TicksInv, UNCHANGED <<mode, evidence, covered, owner, adopted, sent, proposals, undone>>,
           faults' \in 0 .. MaxFaults, NEW t \in Tickers, NEW b \in Bands, ticks' = [ticks EXCEPT ![t] = b],
           TickStands(t)'
    PROVE  TicksInv'
<1>1. Advances
  BY TicksAreTyped DEF Advances
<1>2. ticks' \in [Tickers -> Bands] /\ \A u \in Tickers : TickStands(u)'
  BY <1>1, OneTicks
<1>3. CoveredWasHandled'
  BY <1>1, HandledStays
<1>4. TicksTypeOK'
  BY <1>2 DEF TicksInv, TicksTypeOK, Status, Bands, Proposals
<1> QED
  BY <1>2, <1>3, <1>4 DEF TicksInv, Taken

\* A tick that failed has nothing in its hands.
LEMMA IdleStands ==
    ASSUME NEW t \in Tickers, ticks'[t] = NotTicking
    PROVE  TickStands(t)'
BY DEF NotTicking, TickStands, InWindow, WasSent, WillBeAdopted

LEMMA FailedTick ==
    ASSUME TicksInv, NEW t \in Tickers, FailsTick(t)
    PROVE  NotTicking \in Bands /\ ticks' = [ticks EXCEPT ![t] = NotTicking] /\ TickStands(t)'
<1>1. NotTicking \in Bands
  BY DreamTicksAssumption DEF NotTicking, Bands, TickPcs, Places, NoProposal
<1>2. ticks' = [ticks EXCEPT ![t] = NotTicking] /\ ticks'[t] = NotTicking
  BY DEF FailsTick, Step, TicksInv
<1> QED
  BY <1>1, <1>2, IdleStands

LEMMA LoseTickKeeps ==
    ASSUME TicksInv, NEW t \in Tickers, LoseTick(t)
    PROVE  TicksInv'
<1>1. faults' \in 0 .. MaxFaults
  BY DreamTicksAssumption DEF LoseTick, TicksInv, TicksTypeOK
<1> QED
  BY <1>1, FailedTick, JustTicks DEF LoseTick

LEMMA SelectKeeps ==
    ASSUME TicksInv, NEW t \in Tickers, Select(t)
    PROVE  TicksInv'
<1> DEFINE to == Min({Len(evidence), covered + MaxWindow})
           b == [NotTicking EXCEPT !.pc = IF mode = "governed" THEN "filter" ELSE "size",
                    !.from = covered, !.to = to, !.frontier = Len(evidence)]
<1>1. to \in Nat /\ covered <= to /\ to <= Len(evidence)
  <2>1. {Len(evidence), covered + MaxWindow} \subseteq Nat
    BY TicksAreTyped, DreamTicksAssumption
  <2>2. to \in {Len(evidence), covered + MaxWindow} /\ to <= Len(evidence)
    BY <2>1, LeastNumber
  <2> QED
    BY <2>1, <2>2, TicksAreTyped, DreamTicksAssumption
<1> HIDE DEF to
<1>2. b \in Bands /\ b.pc \in {"filter", "size"} /\ (b.pc = "filter" <=> mode = "governed") /\ b.from = covered
      /\ b.to = to /\ b.limited = FALSE
  <2>1. covered \in Places /\ to \in Places /\ Len(evidence) \in Places
    BY <1>1, TicksAreTyped DEF Places
  <2>2. NotTicking \in [pc: TickPcs, from: Nat, to: Nat, frontier: Nat, pending: SUBSET Candidates, limited: BOOLEAN]
        /\ NotTicking.limited = FALSE
    BY DEF NotTicking, TickPcs, NoProposal
  <2>3. PICK pc : pc = (IF mode = "governed" THEN "filter" ELSE "size")
    OBVIOUS
  <2>4. b = [NotTicking EXCEPT !.pc = pc, !.from = covered, !.to = to, !.frontier = Len(evidence)]
    BY <2>3
  <2>5. pc \in TickPcs /\ pc \in {"filter", "size"} /\ (pc = "filter" <=> mode = "governed")
    BY <2>3 DEF TickPcs
  <2>6. b \in Bands
    BY <2>1, <2>2, <2>4, <2>5 DEF Bands
  <2> QED
    BY <2>2, <2>4, <2>5, <2>6
<1>3. ticks' = [ticks EXCEPT ![t] = b]
  BY DEF Select, Step, to
<1> HIDE DEF b
<1>4. ticks'[t] = b
  BY <1>3 DEF TicksInv
<1>5. TickStands(t)'
  BY <1>1, <1>2, <1>4, TicksAreTyped DEF Select, TickStands, InWindow, WasSent, WillBeAdopted
<1>6. faults' \in 0 .. MaxFaults
  BY DEF Select, TicksInv, TicksTypeOK
<1> QED
  BY <1>2, <1>3, <1>5, <1>6, JustTicks DEF Select

\* A window is of evidence there is.
LEMMA WindowsAreEvidence ==
    ASSUME TicksInv, NEW t \in Tickers, ticks[t].pc # "idle"
    PROVE  Window(t) \subseteq 1 .. Len(evidence) /\ IsFiniteSet(Window(t)) /\ Window(t) \subseteq 1 .. MaxEvidence
<1>1. ticks[t].from \in Nat /\ ticks[t].to \in Nat /\ ticks[t].to <= Len(evidence) /\ InWindow(t)
  BY TicksAreTyped DEF TicksInv, TickStands, InWindow
<1>2. Window(t) \subseteq 1 .. Len(evidence) /\ Window(t) \subseteq 1 .. MaxEvidence
  BY <1>1, TicksAreTyped DEF Window
<1>3. IsFiniteSet((ticks[t].from + 1) .. ticks[t].to)
  <2>1. ticks[t].from + 1 \in Int /\ ticks[t].to \in Int
    BY <1>1
  <2> QED
    BY <2>1, FS_Interval
<1> QED
  BY <1>2, <1>3 DEF Window

\* What is current was adopted, and what is not and is not left out is pending.
LEMMA FilterTakes ==
    ASSUME TicksInv, NEW t \in Tickers, ticks[t].pc # "idle", NEW D, D = Unapplied(Window(t))
    PROVE  /\ FirstOf(D) \in SUBSET Candidates
           /\ ~TooMany(D, Window(t)) => Claimed(Window(t)) \subseteq adopted \cup {c.claim : c \in FirstOf(D)}
<1>1. Window(t) \subseteq 1 .. Len(evidence) /\ IsFiniteSet(Window(t)) /\ Window(t) \subseteq 1 .. MaxEvidence
      /\ evidence \in Seq(Evidence)
  BY WindowsAreEvidence, TicksAreTyped
<1>2. D \subseteq CandidatesOf(Window(t)) /\ FirstOf(D) \subseteq D
  BY DEF Unapplied, FirstOf
<1>3. Claimed(Window(t)) \subseteq Claims
  <2>1. \A i \in Window(t) : evidence[i] \in Evidence
    BY <1>1
  <2> QED
    BY <2>1 DEF Claimed, Evidence
<1>4. ASSUME NEW d \in CandidatesOf(Window(t)) PROVE d \in Candidates
  <2>1. d.claim \in Claims /\ d.sources \subseteq 1 .. MaxEvidence /\ d = [claim |-> d.claim, sources |-> d.sources]
    BY <1>1, <1>3, CandidatesHaveRows
  <2> QED
    BY <2>1 DEF Candidates
<1>5. ASSUME ~TooMany(D, Window(t)), NEW k \in Claimed(Window(t))
      PROVE  k \in adopted \cup {c.claim : c \in FirstOf(D)}
  <2>1. IsFiniteSet(D)
    BY <1>1, <1>2, CandidatesAreFinite, FS_Subset
  <2>2. FirstOf(D) = D
    BY <1>1, <1>2, <1>5, <2>1, AllAreFirst DEF TooMany
  <2>3. PICK d \in CandidatesOf(Window(t)) : d.claim = k
    <3> DEFINE W == Window(t)
               those(c) == {i \in W : evidence[i].claim = c /\ ~evidence[i].screened}
               first(c) == Min({GroupOf(i) : i \in those(c)})
               made(c) == [claim |-> c, sources |-> {i \in those(c) : GroupOf(i) = first(c)}]
    <3>1. CandidatesOf(W) = {made(c) : c \in Claimed(W)}
      BY DEF CandidatesOf
    <3>2. made(k).claim = k
      OBVIOUS
    <3> HIDE DEF made, W
    <3>3. made(k) \in CandidatesOf(W)
      BY <1>5, <3>1 DEF W
    <3> QED
      BY <3>2, <3>3 DEF W
  <2>4. CASE owner[<<k, NoRepo>>] = NoProposal
    BY <2>2, <2>3, <2>4 DEF Unapplied
  <2>5. CASE owner[<<k, NoRepo>>] # NoProposal
    <3>1. <<k, NoRepo>> \in Claims \X Scopes
      BY <1>3 DEF Scopes
    <3> QED
      BY <2>5, <3>1 DEF TicksInv
  <2> QED
    BY <2>4, <2>5
<1> QED
  BY <1>2, <1>4, <1>5

LEMMA FilterKeeps ==
    ASSUME TicksInv, NEW t \in Tickers, Filter(t)
    PROVE  TicksInv'
<1> PICK D : D = Unapplied(Window(t))
  OBVIOUS
<1> DEFINE b == [ticks[t] EXCEPT !.pc = IF FirstOf(D) = {} THEN "record" ELSE "persist",
                        !.pending = FirstOf(D), !.limited = TooMany(D, Window(t))]
<1>1. ticks' = [ticks EXCEPT ![t] = b] /\ ticks[t].pc = "filter"
  BY DEF Filter, Step, In
<1>2. /\ FirstOf(D) \in SUBSET Candidates
      /\ ~TooMany(D, Window(t)) => Claimed(Window(t)) \subseteq adopted \cup {c.claim : c \in FirstOf(D)}
  BY <1>1, FilterTakes
<1>3. PICK first, many : first = FirstOf(D) /\ many = TooMany(D, Window(t)) /\ many \in BOOLEAN
  BY DEF TooMany
<1>4. b = [ticks[t] EXCEPT !.pc = IF first = {} THEN "record" ELSE "persist", !.pending = first, !.limited = many]
  BY <1>3
<1> HIDE DEF b
<1>5. ticks[t] \in Bands
  BY TicksAreTyped
<1>6. b \in Bands /\ b.pc = (IF first = {} THEN "record" ELSE "persist") /\ b.pending = first /\ b.limited = many
      /\ b.from = ticks[t].from /\ b.to = ticks[t].to
  BY <1>2, <1>3, <1>4, <1>5 DEF Bands, TickPcs
<1>7. ticks'[t] = b
  BY <1>1 DEF TicksInv
<1>8. mode = "governed"
  BY <1>1, TicksAreTyped DEF TicksInv, TickStands, WasSent
<1>9. Claimed(Window(t))' = Claimed(Window(t))
  BY <1>6, <1>7 DEF Window, Claimed, Filter
<1>10. InWindow(t)'
  BY <1>1, <1>6, <1>7 DEF TicksInv, TickStands, InWindow, Filter
<1>11. WillBeAdopted(t)'
  BY <1>2, <1>3, <1>6, <1>7, <1>9 DEF WillBeAdopted, Filter, NoProposal
<1>12. TickStands(t)'
  BY <1>8, <1>10, <1>11 DEF TickStands, Filter
<1>13. faults' \in 0 .. MaxFaults
  BY DEF Filter, TicksInv, TicksTypeOK
<1> QED
  BY <1>1, <1>6, <1>12, <1>13, JustTicks DEF Filter

\* Only a tick with automatic adoption has a batch.
LEMMA BatchesAreGoverned ==
    ASSUME TicksInv, NEW t \in Tickers, ticks[t].pc \in {"persist", "apply"}
    PROVE  mode = "governed" /\ WillBeAdopted(t) /\ InWindow(t) /\ ticks[t].pending # NoProposal
           /\ ticks[t].pending \in SUBSET Candidates
BY TicksAreTyped DEF TicksInv, TickStands, WasSent, WillBeAdopted

LEMMA PersistBatchKeeps ==
    ASSUME TicksInv, NEW t \in Tickers, PersistBatch(t)
    PROVE  TicksInv'
<1> PICK d : d = ticks[t].pending
  OBVIOUS
<1>1. mode = "governed" /\ WillBeAdopted(t) /\ InWindow(t) /\ d # NoProposal /\ d \in SUBSET Candidates
      /\ ticks[t].pc = "persist"
  BY BatchesAreGoverned DEF PersistBatch, In
<1>2. faults' \in 0 .. MaxFaults
  BY DEF PersistBatch, TicksInv, TicksTypeOK
<1>3. CASE FailsTick(t) /\ UNCHANGED proposals
  BY <1>2, <1>3, FailedTick, JustTicks DEF PersistBatch
<1>4. CASE /\ Step(t, [ticks[t] EXCEPT !.pc = "apply"])
           /\ proposals' = [e \in DOMAIN proposals \cup {d} |->
                               IF Status(e) = "absent" THEN "validated" ELSE proposals[e]]
  <2> DEFINE b == [ticks[t] EXCEPT !.pc = "apply"]
  <2>1. ticks[t] \in Bands /\ ticks' = [ticks EXCEPT ![t] = b]
    BY <1>4, TicksAreTyped DEF Step
  <2>2. b \in Bands /\ b.pc = "apply" /\ b.from = ticks[t].from /\ b.to = ticks[t].to /\ b.pending = d
        /\ b.limited = ticks[t].limited
    BY <2>1 DEF Bands, TickPcs
  <2> HIDE DEF b
  <2>3. ticks'[t] = b
    BY <2>1 DEF TicksInv
  <2>4. Advances
    BY TicksAreTyped DEF Advances, PersistBatch
  <2>5. Claimed(Window(t))' = Claimed(Window(t))
    BY <2>2, <2>3 DEF Window, Claimed, PersistBatch
  <2>6. TickStands(t)'
    BY <1>1, <2>2, <2>3, <2>5 DEF TickStands, InWindow, WillBeAdopted, PersistBatch
  <2>7. ticks' \in [Tickers -> Bands] /\ \A u \in Tickers : TickStands(u)'
    BY <2>1, <2>2, <2>4, <2>6, OneTicks
  <2>8. DOMAIN proposals' = DOMAIN proposals \cup {d}
        /\ (\A e \in DOMAIN proposals : proposals'[e] = proposals[e])
        /\ (d \notin DOMAIN proposals => proposals'[d] = "validated")
    <3>1. \A e \in DOMAIN proposals : proposals[e] \in {"validated", "applied", "reverted"}
      BY DEF TicksInv, TicksTypeOK
    <3>2. \A e \in DOMAIN proposals : Status(e) = proposals[e] /\ Status(e) # "absent"
      BY <3>1 DEF Status
    <3>3. d \notin DOMAIN proposals => Status(d) = "absent"
      BY DEF Status
    <3> QED
      BY <1>4, <3>2, <3>3
  <2> HIDE <1>4
  <2>9. TicksTypeOK'
    <3>2. OwnersAreApplied'
      BY <2>8, OwnersWereApplied DEF OwnersAreApplied, PersistBatch, TicksInv
    <3>3. DOMAIN proposals' \subseteq Proposals
          /\ \A e \in DOMAIN proposals' : proposals'[e] \in {"validated", "applied", "reverted"}
      BY <1>1, <2>8 DEF TicksInv, TicksTypeOK, Proposals
    <3> QED
      BY <1>2, <2>7, <3>2, <3>3, TypedAgain DEF TicksInv, TicksTypeOK, PersistBatch
  <2>10. CoveredWasHandled'
    BY <2>4, HandledStays DEF PersistBatch
  <2>11. NoProposal \notin DOMAIN proposals' /\ \A e \in DOMAIN proposals' : proposals'[e] = "applied" => Taken(e)'
    BY <1>1, <2>8 DEF TicksInv, Taken, PersistBatch
  <2> QED
    BY <2>7, <2>9, <2>10, <2>11 DEF TicksInv, PersistBatch
<1> QED
  BY <1>3, <1>4 DEF PersistBatch

\* A batch that is recorded is adopted, now or before.
LEMMA RecordedIsAdopted ==
    ASSUME TicksInv, NEW t \in Tickers, ticks[t].pc = "apply", Advances, UNCHANGED evidence,
           NEW d, d = ticks[t].pending, \A c \in d : c.claim \in adopted',
           ticks' = [ticks EXCEPT ![t] = [ticks[t] EXCEPT !.pc = "record"]]
    PROVE  ticks' \in [Tickers -> Bands] /\ \A u \in Tickers : TickStands(u)'
<1> DEFINE b == [ticks[t] EXCEPT !.pc = "record"]
<1>1. mode = "governed" /\ WillBeAdopted(t) /\ InWindow(t) /\ ticks[t] \in Bands
  BY BatchesAreGoverned, TicksAreTyped
<1>2. b \in Bands /\ b.pc = "record" /\ b.from = ticks[t].from /\ b.to = ticks[t].to
      /\ b.limited = ticks[t].limited
  BY <1>1 DEF Bands, TickPcs
<1> HIDE DEF b
<1>3. ticks'[t] = b
  BY DEF TicksInv, b
<1>4. Claimed(Window(t))' = Claimed(Window(t))
  BY <1>2, <1>3 DEF Window, Claimed
<1>5. ~ticks[t].limited => Claimed(Window(t)) \subseteq adopted'
  BY <1>1 DEF WillBeAdopted, Advances
<1>6. WillBeAdopted(t)'
  BY <1>2, <1>3, <1>4, <1>5 DEF WillBeAdopted
<1>7. InWindow(t)'
  <2>1. ticks[t].from <= covered'
    BY <1>1, TicksAreTyped DEF InWindow, Advances
  <2> QED
    BY <1>1, <1>2, <1>3, <2>1 DEF InWindow
<1>8. TickStands(t)'
  BY <1>1, <1>6, <1>7 DEF TickStands, Advances
<1> QED
  BY <1>2, <1>8, OneTicks DEF b

LEMMA ApplyBatchKeeps ==
    ASSUME TicksInv, NEW t \in Tickers, ApplyBatch(t)
    PROVE  TicksInv'
<1> PICK d : d = ticks[t].pending
  OBVIOUS
<1>1. mode = "governed" /\ d # NoProposal /\ d \in SUBSET Candidates /\ ticks[t].pc = "apply"
  BY BatchesAreGoverned DEF ApplyBatch, In
<1>2. faults' \in 0 .. MaxFaults
  BY DEF ApplyBatch, TicksInv, TicksTypeOK
<1>3. CASE Applies(d)
  <2> DEFINE new == {c.claim : c \in d} \X RepoScopes(d)
  <2>1. /\ proposals' = [proposals EXCEPT ![d] = "applied"]
        /\ owner' = [k \in Claims \X Scopes |-> IF k \in new /\ owner[k] = NoProposal THEN d ELSE owner[k]]
        /\ adopted' = adopted \cup {c.claim : c \in d}
        /\ ticks' = [ticks EXCEPT ![t] = [ticks[t] EXCEPT !.pc = "record"]]
        /\ UNCHANGED <<mode, evidence, covered, sent, undone, faults>>
    BY <1>3 DEF ApplyBatch, Step
  <2>2. d \in DOMAIN proposals
    BY <1>3 DEF Applies, Status
  <2>3. Advances
    BY <2>1, TicksAreTyped DEF Advances
  <2>4. ticks' \in [Tickers -> Bands] /\ \A u \in Tickers : TickStands(u)'
    BY <1>1, <2>1, <2>3, RecordedIsAdopted
  <2>5. DOMAIN proposals' = DOMAIN proposals /\ proposals'[d] = "applied"
        /\ \A e \in DOMAIN proposals \ {d} : proposals'[e] = proposals[e]
    BY <2>1, <2>2
  <2>6. owner' \in [Claims \X Scopes -> Proposals] /\ \A k \in Claims \X Scopes :
            owner'[k] = owner[k] \/ (owner'[k] = d /\ k \in new)
    BY <1>1, <2>1 DEF TicksInv, TicksTypeOK, Proposals
  <2>7. OwnersAreApplied'
    BY <2>2, <2>5, <2>6, OwnersWereApplied DEF OwnersAreApplied, TicksInv
  <2>8. adopted' \in SUBSET Claims
    BY <1>1, <2>1 DEF TicksInv, TicksTypeOK, Candidates
  <2>9. TicksTypeOK'
    BY <1>2, <2>1, <2>4, <2>5, <2>6, <2>7, <2>8, TypedAgain DEF TicksInv, TicksTypeOK
  <2>10. \A k \in Claims \X Scopes : owner'[k] # NoProposal => k[1] \in adopted'
    BY <2>1, <2>6 DEF TicksInv
  <2>11. NoProposal \notin DOMAIN proposals' /\ \A e \in DOMAIN proposals' : proposals'[e] = "applied" => Taken(e)'
    BY <2>1, <2>5 DEF TicksInv, Taken
  <2>12. CoveredWasHandled'
    BY <2>1, <2>3, HandledStays
  <2> QED
    BY <2>1, <2>4, <2>9, <2>10, <2>11, <2>12 DEF TicksInv
<1>4. CASE ~Applies(d) /\ Status(d) = "applied"
  <2>1. /\ ticks' = [ticks EXCEPT ![t] = [ticks[t] EXCEPT !.pc = "record"]]
        /\ UNCHANGED <<mode, evidence, covered, owner, adopted, sent, proposals, undone, faults>>
    BY <1>4 DEF ApplyBatch, Step
  <2>2. \A c \in d : c.claim \in adopted'
    BY <1>4, <2>1 DEF Status, TicksInv, Taken
  <2>3. Advances
    BY <2>1, TicksAreTyped DEF Advances
  <2>4. ticks' \in [Tickers -> Bands] /\ \A u \in Tickers : TickStands(u)'
    BY <1>1, <2>1, <2>2, <2>3, RecordedIsAdopted
  <2> DEFINE b == [ticks[t] EXCEPT !.pc = "record"]
  <2>5. ticks[t] \in Bands /\ b \in Bands
    BY TicksAreTyped DEF Bands, TickPcs
  <2> QED
    BY <1>2, <2>1, <2>4, <2>5, JustTicks
<1>5. CASE ~Applies(d) /\ Status(d) # "applied"
  BY <1>2, <1>5, FailedTick, JustTicks DEF ApplyBatch
<1> QED
  BY <1>3, <1>4, <1>5

\* What is released is not current; what was adopted was.
LEMMA ReleasedKeeps ==
    ASSUME TicksInv, UNCHANGED <<mode, evidence, covered, adopted, sent, ticks, faults>>, undone' \in 0 .. MaxUndone,
           owner' \in [Claims \X Scopes -> Proposals],
           \A k \in Claims \X Scopes : owner'[k] = owner[k] \/ owner'[k] = NoProposal, OwnersAreApplied',
           DOMAIN proposals' = DOMAIN proposals,
           \A d \in DOMAIN proposals : proposals'[d] = proposals[d] \/ proposals'[d] = "reverted"
    PROVE  TicksInv'
<1>1. Advances
  BY TicksAreTyped DEF Advances
<1>2. CoveredWasHandled'
  BY <1>1, HandledStays
<1>3. \A t \in Tickers : TickStands(t)'
  BY <1>1, OthersAdvance
<1>4. TicksTypeOK'
  <2>1. \A d \in DOMAIN proposals' : proposals'[d] \in {"validated", "applied", "reverted"}
    BY DEF TicksInv, TicksTypeOK
  <2> QED
    BY <2>1, TypedAgain DEF TicksInv, TicksTypeOK
<1>5. NoProposal \notin DOMAIN proposals' /\ \A d \in DOMAIN proposals' : proposals'[d] = "applied" => Taken(d)'
  BY DEF TicksInv, Taken
<1> QED
  BY <1>2, <1>3, <1>4, <1>5 DEF TicksInv

LEMMA UndoBatchKeeps ==
    ASSUME TicksInv, NEW d \in DOMAIN proposals, UndoBatch(d)
    PROVE  TicksInv'
<1>1. proposals' = [proposals EXCEPT ![d] = "reverted"] /\ owner' = Released(d) /\ undone' \in 0 .. MaxUndone
  BY DreamTicksAssumption DEF UndoBatch, TicksInv, TicksTypeOK
<1>2. owner' \in [Claims \X Scopes -> Proposals]
      /\ \A k \in Claims \X Scopes : (owner'[k] = owner[k] /\ owner[k] # d) \/ owner'[k] = NoProposal
  BY <1>1 DEF Released, TicksInv, TicksTypeOK, NoProposal, Proposals
<1>3. OwnersAreApplied'
  BY <1>1, <1>2, OwnersWereApplied DEF OwnersAreApplied, TicksInv
<1> QED
  BY <1>1, <1>2, <1>3, ReleasedKeeps DEF UndoBatch

LEMMA ForgetClaimKeeps ==
    ASSUME TicksInv, NEW k \in Claims \X Scopes, ForgetClaim(k)
    PROVE  TicksInv'
<1>1. undone' \in 0 .. MaxUndone
  BY DreamTicksAssumption DEF ForgetClaim, TicksInv, TicksTypeOK
<1>2. owner' \in [Claims \X Scopes -> Proposals]
      /\ \A j \in Claims \X Scopes : owner'[j] = owner[j] \/ owner'[j] = NoProposal
  BY DEF ForgetClaim, TicksInv, TicksTypeOK, NoProposal, Proposals
<1>3. OwnersAreApplied'
  BY <1>2, OwnersWereApplied DEF OwnersAreApplied, TicksInv, ForgetClaim
<1> QED
  BY <1>1, <1>2, <1>3, ReleasedKeeps DEF ForgetClaim

LEMMA ArriveKeeps ==
    ASSUME TicksInv, Arrive
    PROVE  TicksInv'
<1>1. PICK r \in Arrivals : evidence' = Append(evidence, r)
  BY DEF Arrive
<1>2. r \in Evidence
  BY DreamTicksAssumption
<1>3. evidence' \in Seq(Evidence) /\ Len(evidence') = Len(evidence) + 1 /\ Len(evidence') <= MaxEvidence
      /\ \A i \in 1 .. Len(evidence) : evidence'[i] = evidence[i]
  BY <1>1, <1>2, TicksAreTyped DEF Arrive
<1>4. Advances
  BY <1>3, TicksAreTyped DEF Advances, Arrive
<1>5. CoveredWasHandled'
  BY <1>4, HandledStays DEF Arrive
<1>6. \A t \in Tickers : TickStands(t)'
  BY <1>4, OthersAdvance DEF Arrive
<1>7. OwnersAreApplied'
  BY OwnersWereApplied DEF OwnersAreApplied, TicksInv, Arrive
<1>8. covered' \in 0 .. Len(evidence')
  BY <1>3, TicksAreTyped DEF Arrive
<1>9. TicksTypeOK'
  BY <1>3, <1>7, <1>8, TypedAgain DEF TicksInv, TicksTypeOK, Arrive
<1> QED
  BY <1>3, <1>5, <1>6, <1>9 DEF TicksInv, Taken, Arrive

LEMMA GreaterOfTwo ==
    ASSUME NEW a \in Nat, NEW b \in Nat
    PROVE  Max({a, b}) \in {a, b} /\ a <= Max({a, b}) /\ b <= Max({a, b})
<1>1. \E x \in {a, b} : \A y \in {a, b} : x >= y
  <2>1. CASE a >= b
    BY <2>1
  <2>2. CASE ~(a >= b)
    BY <2>2
  <2> QED
    BY <2>1, <2>2
<1> QED
  BY <1>1 DEF Max

LEMMA RecordTickKeeps ==
    ASSUME TicksInv, NEW t \in Tickers, RecordTick(t)
    PROVE  TicksInv'
<1>1. PICK slow \in BOOLEAN : /\ slow => faults < MaxFaults
                              /\ faults' = IF slow THEN faults + 1 ELSE faults
                              /\ covered' = IF slow \/ ticks[t].limited THEN covered ELSE Max({covered, Covers(t)})
  BY DEF RecordTick
<1>2. faults' \in 0 .. MaxFaults
  <2>1. faults \in 0 .. MaxFaults /\ MaxFaults \in Nat
    BY DreamTicksAssumption DEF TicksInv, TicksTypeOK
  <2>2. CASE slow = TRUE
    BY <1>1, <2>1, <2>2
  <2>3. CASE slow = FALSE
    BY <1>1, <2>1, <2>3
  <2> QED
    BY <2>2, <2>3
<1>3. FailsTick(t) /\ ticks[t].pc = "record"
  BY DEF RecordTick, FailsTick, In
<1>4. CASE covered' = covered
  BY <1>2, <1>3, <1>4, FailedTick, JustTicks DEF RecordTick
<1>5. CASE covered' = Max({covered, Covers(t)}) /\ ~ticks[t].limited
  <2> PICK from, to : from = ticks[t].from /\ to = ticks[t].to
    OBVIOUS
  <2>1. from \in Nat /\ to \in Nat /\ from <= covered /\ from <= to /\ to <= Len(evidence)
        /\ Window(t) = (from + 1) .. to
    BY <1>3, TicksAreTyped DEF TicksInv, TickStands, InWindow, Window
  <2>2. covered' \in {covered, to} /\ covered <= covered' /\ to <= covered'
    BY <1>5, <2>1, TicksAreTyped, GreaterOfTwo DEF Covers
  <2>3. covered' \in Nat /\ covered' <= Len(evidence)
    BY <2>1, <2>2, TicksAreTyped
  <2>4. \A i \in 1 .. covered' : i \in 1 .. covered \/ i \in Window(t)
    BY <2>1, <2>2, TicksAreTyped
  <2>5. Advances
    BY <2>2, <2>3, TicksAreTyped DEF Advances, RecordTick
  <2>6. ticks' \in [Tickers -> Bands] /\ \A u \in Tickers : TickStands(u)'
    BY <1>3, <2>5, FailedTick, OneTicks
  <2>7. CoveredWasAdopted'
    <3>1. ASSUME mode = "governed" PROVE Claimed(1 .. covered') \subseteq adopted
      <4>1. Claimed(1 .. covered) \subseteq adopted /\ Claimed(Window(t)) \subseteq adopted
        BY <1>3, <1>5, <3>1 DEF TicksInv, TickStands, WillBeAdopted, CoveredWasHandled, CoveredWasAdopted
      <4>2. Claimed(1 .. covered') \subseteq Claimed(1 .. covered) \cup Claimed(Window(t))
        BY <2>4 DEF Claimed
      <4> QED
        BY <4>1, <4>2
    <3> QED
      BY <3>1 DEF CoveredWasAdopted, Claimed, RecordTick
  <2>8. CoveredWasSent'
    BY <1>3, <2>4 DEF TicksInv, TickStands, WasSent, CoveredWasHandled, CoveredWasSent, RecordTick
  <2>9. OwnersAreApplied'
    BY OwnersWereApplied DEF OwnersAreApplied, TicksInv, RecordTick
  <2>10. TicksTypeOK'
    BY <1>2, <2>3, <2>6, <2>9, TypedAgain DEF TicksInv, TicksTypeOK, RecordTick
  <2> QED
    BY <2>6, <2>7, <2>8, <2>10 DEF TicksInv, Taken, RecordTick, CoveredWasHandled
<1>6. covered' = covered \/ (covered' = Max({covered, Covers(t)}) /\ ~ticks[t].limited)
  <2>1. CASE slow \/ ticks[t].limited
    BY <1>1, <2>1, Zenon
  <2>2. CASE ~(slow \/ ticks[t].limited)
    BY <1>1, <2>2, Zenon
  <2> QED
    BY <2>1, <2>2, Zenon
<1> QED
  BY <1>4, <1>5, <1>6

\* The command provider: a window is halved, sent, or a single row that is too long.
LEMMA SizeKeeps ==
    ASSUME TicksInv, NEW t \in Tickers, Size(t)
    PROVE  TicksInv'
<1> PICK from, to : from = ticks[t].from /\ to = ticks[t].to
  OBVIOUS
<1>1. /\ ticks[t].pc = "size" /\ ticks[t] \in Bands /\ InWindow(t) /\ WasSent(t) /\ mode = "command"
      /\ from \in Nat /\ to \in Nat /\ from <= to /\ to <= Len(evidence) /\ from <= covered
      /\ Window(t) = (from + 1) .. to /\ ~ticks[t].limited
  BY TicksAreTyped DEF Size, In, TicksInv, TickStands, InWindow, WasSent, WillBeAdopted, Window
<1> DEFINE n == Cardinality(Window(t))
<1>2. n = to - from /\ n \in Nat
  <2>1. from + 1 \in Int /\ to \in Int
    BY <1>1
  <2>2. n = IF from + 1 > to THEN 0 ELSE to - (from + 1) + 1
    BY <1>1, <2>1, FS_Interval
  <2>3. from \in Nat /\ to \in Nat /\ from <= to
    BY <1>1
  <2> HIDE DEF n
  <2> QED
    BY <2>2, <2>3
<1>3. faults \in 0 .. MaxFaults /\ MaxFaults \in Nat
  BY DreamTicksAssumption DEF TicksInv, TicksTypeOK
<1>4. CASE BytesOf(Window(t)) > MaxBytes /\ n > 1
  <2> DEFINE b == [ticks[t] EXCEPT !.to = from + Half(n)]
  <2>1. ticks' = [ticks EXCEPT ![t] = b] /\ UNCHANGED <<sent, faults>>
    BY <1>4 DEF Size, Step
  <2>2. Half(n) \in Nat /\ Half(n) <= n
    BY <1>2 DEF Half
  <2>3. from + Half(n) \in Nat /\ from <= from + Half(n) /\ from + Half(n) <= to
    <3> HIDE DEF n
    <3> QED
      BY SMTT(20), <1>1, <1>2, <2>2
  <2>4. b \in Bands /\ b.pc = "size" /\ b.from = from /\ b.to = from + Half(n) /\ b.limited = ticks[t].limited
    BY <1>1, <2>3, TicksAreTyped DEF Bands, Places
  <2> HIDE DEF b, n
  <2>5. ticks'[t] = b
    BY <2>1 DEF TicksInv
  <2>6. TickStands(t)'
    BY <1>1, <2>3, <2>4, <2>5, TicksAreTyped DEF TickStands, InWindow, WasSent, Size
  <2> QED
    BY <1>3, <2>1, <2>4, <2>6, JustTicks DEF Size
<1>5. CASE BytesOf(Window(t)) > MaxBytes /\ ~(n > 1)
  <2> DEFINE b == [ticks[t] EXCEPT !.pc = "record"]
  <2>1. ticks' = [ticks EXCEPT ![t] = b] /\ UNCHANGED <<sent, faults>>
    BY <1>5 DEF Size, Step
  <2>2. b \in Bands /\ b.pc = "record" /\ b.from = from /\ b.to = to /\ b.limited = ticks[t].limited
    BY <1>1 DEF Bands, TickPcs
  <2> HIDE DEF b
  <2>3. ticks'[t] = b
    BY <2>1 DEF TicksInv
  <2>4. ASSUME NEW i \in Window(t) PROVE evidence[i].size > MaxBytes
    <3>1. Window(t) = {i}
      BY <1>1, <1>2, <1>5
    <3>2. evidence[i] \in Evidence
      BY <1>1, TicksAreTyped
    <3>3. BytesOf({i}) = evidence[i].size
      BY <3>2, BytesOfOne DEF Evidence
    <3> QED
      BY <1>5, <3>1, <3>3
  <2>5. Window(t)' = Window(t)
    BY <2>2, <2>3 DEF Window
  <2>6. TickStands(t)'
    BY <1>1, <2>2, <2>3, <2>4, <2>5 DEF TickStands, InWindow, WasSent, Size
  <2> QED
    BY <1>3, <2>1, <2>2, <2>6, JustTicks DEF Size
<1>6. CASE ~(BytesOf(Window(t)) > MaxBytes) /\ FailsTick(t) /\ faults < MaxFaults /\ faults' = faults + 1
           /\ UNCHANGED sent
  BY <1>3, <1>6, FailedTick, JustTicks DEF Size
<1>7. CASE /\ ~(BytesOf(Window(t)) > MaxBytes) /\ sent' = sent \cup Window(t) /\ UNCHANGED faults
           /\ Step(t, [ticks[t] EXCEPT !.pc = "record"])
  <2> DEFINE b == [ticks[t] EXCEPT !.pc = "record"]
  <2>1. ticks' = [ticks EXCEPT ![t] = b]
    BY <1>7 DEF Step
  <2>2. b \in Bands /\ b.pc = "record" /\ b.from = from /\ b.to = to /\ b.limited = ticks[t].limited
    BY <1>1 DEF Bands, TickPcs
  <2> HIDE DEF b
  <2>3. ticks'[t] = b
    BY <2>1 DEF TicksInv
  <2>4. Window(t)' = Window(t)
    BY <2>2, <2>3 DEF Window
  <2>5. TickStands(t)'
    BY <1>1, <1>7, <2>2, <2>3, <2>4 DEF TickStands, InWindow, WasSent, Size
  <2>6. Advances
    BY <1>7, TicksAreTyped DEF Advances, Size
  <2>7. ticks' \in [Tickers -> Bands] /\ \A u \in Tickers : TickStands(u)'
    BY <2>1, <2>2, <2>5, <2>6, OneTicks
  <2>8. CoveredWasHandled'
    BY <2>6, HandledStays DEF Size
  <2>9. sent' \in SUBSET Places
    BY <1>1, <1>7, TicksAreTyped DEF TicksInv, TicksTypeOK, Places
  <2>10. OwnersAreApplied'
    BY OwnersWereApplied DEF OwnersAreApplied, TicksInv, Size
  <2>11. TicksTypeOK'
    BY <1>7, <2>7, <2>9, <2>10, TypedAgain DEF TicksInv, TicksTypeOK, Size
  <2> QED
    BY <1>7, <2>7, <2>8, <2>11 DEF TicksInv, Taken, Size
<1> QED
  BY <1>4, <1>5, <1>6, <1>7 DEF Size

LEMMA TicksKeep == TicksInv /\ [TicksNext]_tickVars => TicksInv'
<1> SUFFICES ASSUME TicksInv, [TicksNext]_tickVars PROVE TicksInv'
  OBVIOUS
<1>1. CASE UNCHANGED tickVars
  <2>1. Advances
    BY <1>1, TicksAreTyped DEF tickVars, Advances
  <2>2. \A t \in Tickers : TickStands(t)'
    BY <1>1, <2>1, OthersAdvance DEF tickVars
  <2>3. CoveredWasHandled'
    BY <1>1, <2>1, HandledStays DEF tickVars
  <2>4. OwnersAreApplied'
    BY <1>1, OwnersWereApplied DEF OwnersAreApplied, TicksInv, tickVars
  <2>5. TicksTypeOK'
    BY <1>1, <2>4, TypedAgain DEF TicksInv, TicksTypeOK, tickVars
  <2> QED
    BY <1>1, <2>2, <2>3, <2>5 DEF TicksInv, Taken, tickVars
<1>2. ASSUME NEW t \in Tickers, TickStep(t) PROVE TicksInv'
  BY <1>2, SelectKeeps, FilterKeeps, PersistBatchKeeps, ApplyBatchKeeps, SizeKeeps, RecordTickKeeps DEF TickStep
<1> QED
  BY <1>1, <1>2, ArriveKeeps, LoseTickKeeps, UndoBatchKeeps, ForgetClaimKeeps DEF TicksNext

LEMMA TicksStayHandled == TicksInit /\ [][TicksNext]_tickVars => [](TicksTypeOK /\ CoveredWasHandled)
<1>1. TicksInv => TicksTypeOK /\ CoveredWasHandled
  BY DEF TicksInv
<1> QED
  BY <1>1, TicksBegin, TicksKeep, PTL

\* An owner changes to a batch that is applied now for the first time, or to none.
NotReplayed == \A k \in Claims \X Scopes : owner'[k] # owner[k] => Status(owner'[k]) # "reverted"

LEMMA StepsReplayNothing == TicksInv /\ [TicksNext]_tickVars => [NotReplayed]_tickVars
<1> SUFFICES ASSUME TicksInv, TicksNext PROVE NotReplayed
  OBVIOUS
<1>1. Status(NoProposal) # "reverted"
  BY DEF Status, TicksInv
<1>2. ASSUME NEW t \in Tickers, ApplyBatch(t) PROVE NotReplayed
  <2> PICK d : d = ticks[t].pending
    OBVIOUS
  <2>1. owner' = owner \/ (Applies(d) /\ \A k \in Claims \X Scopes : owner'[k] \in {owner[k], d})
    BY <1>2 DEF ApplyBatch
  <2> QED
    BY <2>1 DEF NotReplayed, Applies
<1>3. ASSUME NEW d \in DOMAIN proposals, UndoBatch(d) PROVE NotReplayed
  <2>1. \A k \in Claims \X Scopes : owner'[k] \in {owner[k], NoProposal}
    BY <1>3 DEF UndoBatch, Released
  <2> QED
    BY <1>1, <2>1 DEF NotReplayed
<1>4. ASSUME NEW k \in Claims \X Scopes, ForgetClaim(k) PROVE NotReplayed
  <2>1. \A j \in Claims \X Scopes : owner'[j] \in {owner[j], NoProposal}
    BY <1>4 DEF ForgetClaim, TicksInv, TicksTypeOK
  <2> QED
    BY <1>1, <2>1 DEF NotReplayed
<1>5. owner' = owner => NotReplayed
  BY DEF NotReplayed
<1> QED
  BY <1>2, <1>3, <1>4, <1>5 DEF TicksNext, TickStep, Arrive, LoseTick, Select, Filter, PersistBatch, Size, RecordTick

LEMMA UndoneStaysUndone == TicksInit /\ [][TicksNext]_tickVars => UndoneIsNotReplayed
<1>1. [NotReplayed]_tickVars => [\A k \in Claims \X Scopes : owner'[k] # owner[k] => Status(owner'[k]) # "reverted"]_tickVars
  BY DEF NotReplayed
<1> QED
  BY <1>1, TicksBegin, TicksKeep, StepsReplayNothing, PTL DEF UndoneIsNotReplayed
----------------------------------------------------------------------------
(* Sums *)

\* Of sets of subsets of a finite set there is a smallest one.
LEMMA SmallestSet ==
    ASSUME NEW S, IsFiniteSet(S), NEW B, B \subseteq SUBSET S, B # {}
    PROVE  \E s \in B : \A t \in B : t \subseteq s => t = s
<1>1. B \subseteq FiniteSubsetsOf(S)
  BY FS_Subset DEF FiniteSubsetsOf
<1>2. PICK s \in B : \A t \in B : ~(<<t, s>> \in StrictSubsetOrdering(S))
  BY <1>1, WFMin, FS_StrictSubsetOrderingWellFounded
<1> QED
  BY <1>2 DEF StrictSubsetOrdering

CostOf(S) == MapThenSumSet(LAMBDA r : r.cost, S)
Picked(s) == CHOOSE x \in s : TRUE
Plus(f, s) == IF s = {} THEN 0 ELSE Picked(s).cost + f[s \ {Picked(s)}]
Sums(f, S) == f = [s \in SUBSET S |-> Plus(f, s)]

LEMMA SumsExist ==
    ASSUME NEW S, IsFiniteSet(S)
    PROVE  \E f : Sums(f, S)
<1> DEFINE upto(f, n) == f = [s \in SUBSET S |-> f[s]] /\ \A s \in SUBSET S : Cardinality(s) <= n => f[s] = Plus(f, s)
           bad == {n \in Nat : ~\E f : upto(f, n)}
<1>1. \A s \in SUBSET S : IsFiniteSet(s) /\ Cardinality(s) \in Nat /\ Cardinality(s) <= Cardinality(S)
  BY FS_Subset, FS_CardinalityType
<1>2. ASSUME bad # {} PROVE FALSE
  <2>1. PICK m \in bad : \A n \in bad : m <= n
    BY <1>2, LeastNumber
  <2>2. ASSUME m = 0 PROVE FALSE
    <3> DEFINE f == [s \in SUBSET S |-> 0]
    <3>1. \A s \in SUBSET S : Cardinality(s) <= 0 => s = {}
      BY <1>1, FS_EmptySet
    <3>2. upto(f, 0)
      BY <3>1 DEF Plus
    <3> HIDE DEF f, upto
    <3> QED
      BY <2>2, <3>2
  <2>3. ASSUME m # 0 PROVE FALSE
    <3>1. PICK f : upto(f, m - 1)
      <4>1. m - 1 \in Nat /\ ~(m <= m - 1)
        BY <2>1, <2>3
      <4>2. m - 1 \notin bad
        BY <2>1, <4>1
      <4> HIDE DEF upto
      <4> QED
        BY <4>1, <4>2
    <3> DEFINE g == [s \in SUBSET S |-> Plus(f, s)]
    <3>2. ASSUME NEW s \in SUBSET S, Cardinality(s) <= m PROVE g[s] = Plus(g, s)
      <4>1. CASE s = {}
        BY <4>1 DEF Plus
      <4>2. CASE s # {}
        <5> DEFINE t == s \ {Picked(s)}
        <5>1. Picked(s) \in s
          BY <4>2 DEF Picked
        <5>2. t \in SUBSET S /\ Cardinality(t) = Cardinality(s) - 1
          BY <1>1, <5>1, FS_RemoveElement
        <5>3. Cardinality(t) <= m - 1
          BY <1>1, <3>2, <5>2
        <5>4. f[t] = Plus(f, t)
          BY <3>1, <5>2, <5>3
        <5>5. g[t] = f[t]
          BY <5>2, <5>4
        <5> QED
          BY <4>2, <5>5 DEF Plus
      <4> QED
        BY <4>1, <4>2
    <3>3. g = [s \in SUBSET S |-> g[s]]
      OBVIOUS
    <3>4. upto(g, m)
      BY <3>2, <3>3
    <3> HIDE DEF g, upto
    <3> QED
      BY <2>1, <3>4
  <2> QED
    BY <2>2, <2>3
<1>3. Cardinality(S) \in Nat
  BY FS_CardinalityType
<1>4. PICK f : upto(f, Cardinality(S))
  BY <1>2, <1>3
<1>5. \A s \in SUBSET S : f[s] = Plus(f, s)
  BY <1>1, <1>4
<1>6. f = [s \in SUBSET S |-> f[s]]
  BY <1>4
<1>7. f = [s \in SUBSET S |-> Plus(f, s)]
  BY <1>4, <1>5
<1> QED
  BY <1>7 DEF Sums

\* A sum is the same in a larger set.
LEMMA SumsAgree ==
    ASSUME NEW S, IsFiniteSet(S), NEW T, T \subseteq S, NEW f, NEW g, Sums(f, S), Sums(g, T)
    PROVE  \A s \in SUBSET T : f[s] = g[s]
<1> DEFINE bad == {s \in SUBSET T : f[s] # g[s]}
<1>1. \A s \in SUBSET T : f[s] = Plus(f, s) /\ g[s] = Plus(g, s)
  BY DEF Sums
<1>2. ASSUME bad # {} PROVE FALSE
  <2>1. PICK s \in bad : \A t \in bad : t \subseteq s => t = s
    <3>1. bad \subseteq SUBSET S /\ IsFiniteSet(S)
      OBVIOUS
    <3> HIDE DEF bad
    <3> QED
      BY <1>2, <3>1, SmallestSet
  <2>2. s # {}
    BY <1>1, <2>1 DEF Plus
  <2>3. Picked(s) \in s
    BY <2>2 DEF Picked
  <2>4. f[s \ {Picked(s)}] = g[s \ {Picked(s)}]
    BY <2>1, <2>3
  <2> QED
    BY <1>1, <2>1, <2>2, <2>4 DEF Plus
<1> QED
  BY <1>2

\* What a sum is made of.
LEMMA CostsAdd ==
    ASSUME NEW S, IsFiniteSet(S)
    PROVE  CostOf(S) = IF S = {} THEN 0 ELSE Picked(S).cost + CostOf(S \ {Picked(S)})
<1>1. \A T : CostOf(T) = (CHOOSE f : Sums(f, T))[T]
  <2> TAKE T
  <2> DEFINE iter[s \in SUBSET T] ==
                IF s = {} THEN 0 ELSE (CHOOSE x \in s : TRUE).cost + iter[s \ {CHOOSE x \in s : TRUE}]
  <2>1. CostOf(T) = iter[T]
    BY DEF CostOf, MapThenSumSet, MapThenFoldSet
  <2>2. iter = CHOOSE f : Sums(f, T)
    BY DEF Sums, Plus, Picked
  <2> QED
    BY <2>1, <2>2
<1>2. PICK f : f = (CHOOSE h : Sums(h, S)) /\ Sums(f, S)
  BY SumsExist
<1>3. CostOf(S) = Plus(f, S)
  BY <1>1, <1>2 DEF Sums
<1>4. CASE S # {}
  <2> DEFINE T == S \ {Picked(S)}
  <2>1. IsFiniteSet(T) /\ T \subseteq S
    BY FS_RemoveElement
  <2>2. PICK g : g = (CHOOSE h : Sums(h, T)) /\ Sums(g, T)
    BY <2>1, SumsExist
  <2>3. \A s \in SUBSET T : f[s] = g[s]
    <3>1. Sums(f, S) /\ Sums(g, T)
      BY <1>2, <2>2
    <3> HIDE DEF T
    <3> QED
      BY <2>1, <3>1, SumsAgree
  <2>4. CostOf(T) = g[T]
    BY <1>1, <2>2
  <2> QED
    BY <1>3, <1>4, <2>3, <2>4 DEF Plus
<1> QED
  BY <1>3, <1>4 DEF Plus

Priced(S) == IsFiniteSet(S) /\ \A r \in S : r.cost \in Nat

LEMMA CostIsNumber ==
    ASSUME NEW S, Priced(S)
    PROVE  CostOf(S) \in Nat
<1> DEFINE bad == {s \in SUBSET S : CostOf(s) \notin Nat}
<1>1. ASSUME bad # {} PROVE FALSE
  <2>1. PICK s \in bad : \A t \in bad : t \subseteq s => t = s
    <3>1. bad \subseteq SUBSET S
      OBVIOUS
    <3> HIDE DEF bad
    <3> QED
      BY <1>1, <3>1, SmallestSet DEF Priced
  <2>2. IsFiniteSet(s)
    BY FS_Subset DEF Priced
  <2>3. s # {}
    BY <2>1, <2>2, CostsAdd
  <2>4. Picked(s) \in s
    BY <2>3 DEF Picked
  <2>5. CostOf(s \ {Picked(s)}) \in Nat
    BY <2>1, <2>4
  <2>6. Picked(s).cost \in Nat
    BY <2>4 DEF Priced
  <2> QED
    BY <2>1, <2>2, <2>3, <2>5, <2>6, CostsAdd
<1> QED
  BY <1>1

\* Whichever member is taken out first.
LEMMA CostWithout ==
    ASSUME NEW S, Priced(S), NEW x \in S
    PROVE  CostOf(S) = x.cost + CostOf(S \ {x})
<1> DEFINE bad == {s \in SUBSET S : \E y \in s : CostOf(s) # y.cost + CostOf(s \ {y})}
<1>1. ASSUME bad # {} PROVE FALSE
  <2>1. PICK s \in bad : \A t \in bad : t \subseteq s => t = s
    <3>1. bad \subseteq SUBSET S
      OBVIOUS
    <3> HIDE DEF bad
    <3> QED
      BY <1>1, <3>1, SmallestSet DEF Priced
  <2>2. PICK y \in s : CostOf(s) # y.cost + CostOf(s \ {y})
    BY <2>1
  <2> DEFINE a == Picked(s)
  <2>3. a \in s /\ s \in SUBSET S
    BY <2>2 DEF Picked
  <2>4. IsFiniteSet(s)
    BY FS_Subset DEF Priced
  <2>5. CostOf(s) = a.cost + CostOf(s \ {a})
    BY <2>3, <2>4, CostsAdd
  <2> HIDE DEF a
  <2>6. a # y
    BY <2>2, <2>5
  <2>7. CostOf(s \ {a}) = y.cost + CostOf((s \ {a}) \ {y})
    <3>1. s \ {a} \notin bad /\ s \ {a} \in SUBSET S /\ y \in s \ {a}
      BY <2>1, <2>3, <2>6
    <3> QED
      BY <3>1
  <2>8. CostOf(s \ {y}) = a.cost + CostOf((s \ {y}) \ {a})
    <3>1. s \ {y} \notin bad /\ s \ {y} \in SUBSET S /\ a \in s \ {y}
      BY <2>1, <2>3, <2>6
    <3> QED
      BY <3>1
  <2>9. (s \ {a}) \ {y} = (s \ {y}) \ {a}
    OBVIOUS
  <2>10. Priced((s \ {a}) \ {y})
    BY <2>3, FS_Subset DEF Priced
  <2>11. CostOf((s \ {a}) \ {y}) \in Nat /\ a.cost \in Nat /\ y.cost \in Nat
    BY <2>3, <2>10, CostIsNumber DEF Priced
  <2> QED
    BY <2>2, <2>5, <2>7, <2>8, <2>9, <2>11
<1> QED
  BY <1>1

LEMMA CostOfPart ==
    ASSUME NEW S, Priced(S), NEW T, T \subseteq S
    PROVE  CostOf(T) <= CostOf(S)
<1> DEFINE bad == {s \in SUBSET S : T \subseteq s /\ ~(CostOf(T) <= CostOf(s))}
<1>1. \A s \in SUBSET S : Priced(s) /\ CostOf(s) \in Nat
  BY FS_Subset, CostIsNumber DEF Priced
<1>2. ASSUME bad # {} PROVE FALSE
  <2>1. PICK s \in bad : \A t \in bad : t \subseteq s => t = s
    <3>1. bad \subseteq SUBSET S
      OBVIOUS
    <3> HIDE DEF bad
    <3> QED
      BY <1>2, <3>1, SmallestSet DEF Priced
  <2>2. CASE s = T
    BY <1>1, <2>1, <2>2
  <2>3. CASE s # T
    <3>1. PICK x \in s : x \notin T
      BY <2>1, <2>3
    <3>2. CostOf(T) <= CostOf(s \ {x})
      BY <2>1, <3>1
    <3>3. CostOf(s) = x.cost + CostOf(s \ {x})
      BY <1>1, <3>1, CostWithout
    <3>4. x.cost \in Nat /\ CostOf(T) \in Nat /\ CostOf(s \ {x}) \in Nat
      BY <1>1 DEF Priced
    <3> QED
      BY <2>1, <3>2, <3>3, <3>4
  <2> QED
    BY <2>2, <2>3
<1> QED
  BY <1>2

LEMMA CostWithOneMore ==
    ASSUME NEW S, Priced(S), NEW x, x.cost \in Nat
    PROVE  /\ Priced(S \cup {x}) /\ CostOf(S \cup {x}) <= CostOf(S) + x.cost
           /\ CostOf(S) \in Nat /\ CostOf(S \cup {x}) \in Nat
<1>1. Priced(S \cup {x})
  BY FS_AddElement DEF Priced
<1>2. CostOf(S) \in Nat /\ CostOf(S \cup {x}) \in Nat
  BY <1>1, CostIsNumber
<1>3. CASE x \in S
  <2>1. S \cup {x} = S
    BY <1>3
  <2>2. CostOf(S \cup {x}) = CostOf(S)
    BY <2>1
  <2> QED
    BY <1>1, <1>2, <2>2
<1>4. CASE x \notin S
  <2>1. (S \cup {x}) \ {x} = S
    BY <1>4
  <2>2. CostOf(S \cup {x}) = x.cost + CostOf((S \cup {x}) \ {x})
    BY <1>1, CostWithout
  <2>3. CostOf((S \cup {x}) \ {x}) = CostOf(S)
    BY <2>1
  <2>4. CostOf(S \cup {x}) = x.cost + CostOf(S)
    BY <2>2, <2>3
  <2> QED
    BY <1>1, <1>2, <2>4
<1> QED
  BY <1>3, <1>4

\* What is added costs no more than its number times what one of it may cost.
LEMMA CostOfBoth ==
    ASSUME NEW S, Priced(S), NEW T, IsFiniteSet(T), NEW m \in Nat, \A r \in T : r.cost \in 0 .. m
    PROVE  CostOf(S \cup T) <= CostOf(S) + Cardinality(T) * m
<1> DEFINE bad == {t \in SUBSET T : ~(CostOf(S \cup t) <= CostOf(S) + Cardinality(t) * m)}
<1>1. CostOf(S) \in Nat
  BY CostIsNumber
<1>2. ASSUME bad # {} PROVE FALSE
  <2>1. PICK t \in bad : \A u \in bad : u \subseteq t => u = t
    <3>1. bad \subseteq SUBSET T
      OBVIOUS
    <3> HIDE DEF bad
    <3> QED
      BY <1>2, <3>1, SmallestSet
  <2>2. IsFiniteSet(t) /\ Cardinality(t) \in Nat
    BY FS_Subset, FS_CardinalityType
  <2>3. CASE t = {}
    <3>1. S \cup t = S
      BY <2>3
    <3>2. CostOf(S \cup t) = CostOf(S)
      BY <3>1
    <3>3. Cardinality(t) * m = 0
      BY <2>3, FS_EmptySet
    <3>4. CostOf(S \cup t) <= CostOf(S) + Cardinality(t) * m
      BY <1>1, <3>2, <3>3
    <3> QED
      BY <2>1, <3>4
  <2>4. CASE t # {}
    <3>1. PICK x \in t : TRUE
      BY <2>4
    <3> DEFINE u == t \ {x}
    <3>2. u \in SUBSET T /\ IsFiniteSet(u) /\ Cardinality(u) = Cardinality(t) - 1
      BY <2>2, FS_RemoveElement
    <3>3. CostOf(S \cup u) <= CostOf(S) + Cardinality(u) * m
      BY <2>1, <3>1, <3>2
    <3>4. Priced(S \cup u)
      <4>1. \A r \in u : r.cost \in Nat
        OBVIOUS
      <4>2. IsFiniteSet(S) /\ IsFiniteSet(S \cup u)
        BY <3>2, FS_Union DEF Priced
      <4> QED
        BY <4>1, <4>2 DEF Priced
    <3>5. (S \cup u) \cup {x} = S \cup t
      BY <3>1
    <3>7. x.cost \in Nat /\ x.cost <= m
      OBVIOUS
    <3>6. CostOf(S \cup t) <= CostOf(S \cup u) + x.cost /\ CostOf(S \cup u) \in Nat /\ CostOf(S \cup t) \in Nat
      <4> HIDE DEF u
      <4> QED
        BY <3>4, <3>5, <3>7, CostWithOneMore
    <3>8. Cardinality(u) * m + m = Cardinality(t) * m
      <4>1. \A c \in Nat : (c - 1) * m + m = c * m
        OBVIOUS
      <4> QED
        BY <2>2, <3>2, <4>1
    <3>9. Cardinality(u) * m \in Int /\ Cardinality(t) * m \in Int
      <4>1. \A c \in Int : c * m \in Int
        OBVIOUS
      <4> QED
        BY <2>2, <3>2, <4>1
    <3> HIDE DEF u
    <3>10. CostOf(S \cup t) <= CostOf(S) + Cardinality(t) * m
      BY <1>1, <3>3, <3>6, <3>7, <3>8, <3>9
    <3> QED
      BY <2>1, <3>10
  <2> QED
    BY <2>3, <2>4
<1>3. T \notin bad
  BY <1>2
<1> QED
  BY <1>3

----------------------------------------------------------------------------
(* Jobs *)

CallerRows ==
    [pc: {"idle", "begin", "preview", "call", "charge", "settle", "fail", "mark"},
     kind: Kinds \cup {"dream"}, job: Jobs \cup {NoJob}, input: Inputs,
     n: 0 .. MaxAsked, at: 0 .. MaxHours, left: 0 .. MaxCalls, late: BOOLEAN,
     cost: Nat, run: RunIds \cup {NoRun}, status: RunStatuses \cup {"none"}]

\* The rows of dream_runs: what was refused has an id of its request.
RowsAreNamed ==
    /\ IsFiniteSet(dreamRuns) /\ dreamRuns \in SUBSET DreamRunRows
    /\ \A r \in dreamRuns, q \in dreamRuns : r.id = q.id => r = q
    /\ \A r \in dreamRuns : r.status = "error" <=> r.id[1] \in {"error", "budget"}
    /\ \A r \in dreamRuns : r.status = "error" => r.id[2] \in 1 .. asked

\* A request is the only one of its number, and has not yet written under the ids it will use.
RequestsAreApart ==
    \A c \in Callers : ~At(c, "idle") =>
        /\ callers[c].n \in 1 .. asked
        /\ \A d \in Callers \ {c} : ~At(d, "idle") => callers[d].n # callers[c].n
        /\ ~At(c, "mark") => \A r \in dreamRuns : r.id # ErrorId(c)
        /\ callers[c].pc \in {"begin", "preview", "call", "charge"} => \A r \in dreamRuns : r.id # BudgetId(c)

AtMost == Min({Ceiling, Max(Costs)})

\* What a caller is about to record was asked for, and billed no more than one answer may be.
AnswersAreOne ==
    \A c \in Callers :
        /\ callers[c].pc \in {"begin", "preview", "call", "fail"} => callers[c].cost = 0
        /\ At(c, "charge") => callers[c].cost \in Costs
        /\ At(c, "settle") => /\ callers[c].run \in {"plain", "model"} \X Inputs
                              /\ callers[c].cost \in 0 .. AtMost

JobsHold ==
    /\ RowsAreNamed /\ RequestsAreApart /\ AnswersAreOne /\ callers \in [Callers -> CallerRows]
    /\ dreamJobs \in [Jobs -> [status: RunStatuses \cup {"none", "running"}, last: RunIds \cup {NoRun}]]
    /\ asked \in 0 .. MaxAsked /\ hours \in 0 .. MaxHours /\ lost \in 0 .. MaxLost

LEMMA LargestNumber ==
    ASSUME NEW S, IsFiniteSet(S)
    PROVE  S \subseteq Nat /\ S # {} => Max(S) \in S /\ \A k \in S : k <= Max(S)
<1>0. \A B \in SUBSET SUBSET S : B # {} => \E s \in B : \A t \in B : t \subseteq s => t = s
  BY SmallestSet
<1> SUFFICES ASSUME S \subseteq Nat, S # {} PROVE Max(S) \in S /\ \A k \in S : k <= Max(S)
  OBVIOUS
<1> DEFINE above == {s \in SUBSET S : ~\E n \in Nat : \A k \in s : k <= n}
<1>1. ASSUME above # {} PROVE FALSE
  <2>1. PICK s \in above : \A t \in above : t \subseteq s => t = s
    <3>1. above \in SUBSET SUBSET S
      OBVIOUS
    <3> HIDE DEF above
    <3> QED
      BY <1>0, <1>1, <3>1
  <2>2. PICK x \in s : TRUE
    <3>1. s = {} => \A k \in s : k <= 0
      OBVIOUS
    <3> QED
      BY <2>1, <3>1
  <2>3. PICK n \in Nat : \A k \in s \ {x} : k <= n
    <3>1. s \ {x} \notin above
      BY <2>1, <2>2
    <3> QED
      BY <2>1, <3>1
  <2>4. x \in Nat /\ n + x \in Nat
    BY <2>1, <2>2
  <2>5. \A k \in s : k \in Nat /\ k <= n + x
    BY <2>1, <2>3, <2>4
  <2> QED
    BY <2>1, <2>4, <2>5
<1> DEFINE bounds == {n \in Nat : \A k \in S : k <= n}
<1>2. bounds # {}
  BY <1>1
<1>3. PICK m \in bounds : \A n \in bounds : m <= n
  BY <1>2, LeastNumber
<1>4. m \in S
  <2>1. SUFFICES ASSUME m \notin S PROVE FALSE
    OBVIOUS
  <2>2. PICK x \in S : x \in Nat /\ x <= m
    BY <1>3
  <2>3. m - 1 \in Nat
    BY <1>3, <2>1, <2>2
  <2>4. \A k \in S : k \in Nat /\ k <= m /\ k # m
    BY <1>3, <2>1
  <2>5. \A k \in S : k <= m - 1
    BY <1>3, <2>4
  <2>6. m <= m - 1
    BY <1>3, <2>3, <2>5
  <2> QED
    BY <1>3, <2>6
<1> QED
  BY <1>3, <1>4 DEF Max

LEMMA OneAnswerIsBounded ==
    AtMost \in Nat /\ AtMost <= Ceiling /\ \A k \in Costs : k <= Ceiling => k <= AtMost
<1>1. Max(Costs) \in Costs /\ \A k \in Costs : k <= Max(Costs)
  BY DreamJobsAssumption, LargestNumber
<1>2. {Ceiling, Max(Costs)} \subseteq Nat
  BY <1>1, DreamJobsAssumption
<1>3. AtMost \in {Ceiling, Max(Costs)} /\ \A n \in {Ceiling, Max(Costs)} : AtMost <= n
  BY <1>2, LeastNumber DEF AtMost
<1> QED
  BY <1>1, <1>2, <1>3, DreamJobsAssumption

LEMMA JobsBegin == JobsInit => JobsHold
<1> SUFFICES ASSUME JobsInit PROVE JobsHold
  OBVIOUS
<1> USE DreamJobsAssumption
<1>1. NotAsking \in CallerRows /\ NotAsking.pc = "idle"
  BY DEF NotAsking, CallerRows, RunStatuses
<1>2. \A c \in Callers : callers[c] = NotAsking
  BY DEF JobsInit
<1>3. RowsAreNamed
  BY FS_EmptySet DEF JobsInit, RowsAreNamed
<1>4. RequestsAreApart /\ AnswersAreOne
  BY <1>1, <1>2 DEF RequestsAreApart, AnswersAreOne, At
<1> QED
  BY <1>1, <1>3, <1>4 DEF JobsInit, JobsHold

Early == {"begin", "preview", "call", "charge"}

\* A step of one caller that writes no run.
LEMMA CallersKeep ==
    ASSUME JobsHold, NEW c \in Callers, NEW r \in CallerRows, callers' = [callers EXCEPT ![c] = r],
           UNCHANGED <<dreamRuns, asked>>,
           \/ r.pc = "idle"
           \/ /\ ~At(c, "idle") /\ r.n = callers[c].n /\ (r.pc # "mark" => ~At(c, "mark"))
              /\ r.pc \in Early => callers[c].pc \in Early,
           r.pc \in {"begin", "preview", "call", "fail"} => r.cost = 0,
           r.pc = "charge" => r.cost \in Costs,
           r.pc = "settle" => r.run \in {"plain", "model"} \X Inputs /\ r.cost \in 0 .. AtMost
    PROVE  RowsAreNamed' /\ RequestsAreApart' /\ AnswersAreOne' /\ callers' \in [Callers -> CallerRows]
<1>1. callers \in [Callers -> CallerRows]
  BY DEF JobsHold
<1>2. callers' \in [Callers -> CallerRows] /\ callers'[c] = r /\ \A d \in Callers \ {c} : callers'[d] = callers[d]
  BY <1>1
<1>3. RowsAreNamed'
  BY DEF JobsHold, RowsAreNamed
<1>4. AnswersAreOne'
  BY <1>2 DEF JobsHold, AnswersAreOne, At, AtMost
<1>5. ASSUME NEW d \in Callers, callers'[d].pc # "idle"
      PROVE  ~At(d, "idle") /\ callers'[d].n = callers[d].n
             /\ (callers'[d].pc # "mark" => ~At(d, "mark")) /\ (callers'[d].pc \in Early => callers[d].pc \in Early)
  BY <1>2, <1>5 DEF At
<1>6. RequestsAreApart'
  BY <1>5 DEF JobsHold, RequestsAreApart, At, ErrorId, BudgetId, Early
<1> QED
  BY <1>2, <1>3, <1>4, <1>6

LEMMA AskKeeps ==
    ASSUME JobsHold, NEW c \in Callers, Ask(c)
    PROVE  JobsHold'
<1> USE DreamJobsAssumption
<1>1. PICK k \in Kinds, j \in Jobs, i \in Inputs :
          callers' = [callers EXCEPT ![c] = [NotAsking EXCEPT
              !.pc = IF k = "dream" THEN "preview" ELSE "begin", !.kind = k,
              !.job = IF k = "dream" THEN NoJob ELSE j, !.input = i,
              !.n = asked + 1, !.at = hours]]
  BY DEF Ask
<1> DEFINE r == [NotAsking EXCEPT
              !.pc = IF k = "dream" THEN "preview" ELSE "begin", !.kind = k,
              !.job = IF k = "dream" THEN NoJob ELSE j, !.input = i,
              !.n = asked + 1, !.at = hours]
<1>2. asked \in Nat /\ asked + 1 \in 0 .. MaxAsked /\ asked' = asked + 1 /\ hours \in 0 .. MaxHours
  BY DEF Ask, JobsHold
<1>3. r \in CallerRows /\ r.n = asked + 1 /\ r.pc \in {"preview", "begin"} /\ r.cost = 0
  <2>1. NotAsking \in CallerRows /\ NotAsking.cost = 0
    BY DEF NotAsking, CallerRows, RunStatuses
  <2>2. PICK p, q : /\ p = IF k = "dream" THEN "preview" ELSE "begin"
                    /\ q = IF k = "dream" THEN NoJob ELSE j
    OBVIOUS
  <2>3. r = [NotAsking EXCEPT !.pc = p, !.kind = k, !.job = q, !.input = i, !.n = asked + 1, !.at = hours]
    BY <2>2
  <2>4. p \in {"preview", "begin"} /\ q \in Jobs \cup {NoJob}
    BY <2>2
  <2> QED
    <3> PICK n : n = asked + 1
      OBVIOUS
    <3> PICK b : b = [NotAsking EXCEPT !.pc = p, !.kind = k, !.job = q]
      OBVIOUS
    <3>1. b \in CallerRows /\ b.pc = p /\ b.cost = 0
      BY <2>1, <2>4 DEF CallerRows
    <3>2. r = [b EXCEPT !.input = i, !.n = n, !.at = hours]
      BY <2>3
    <3>3. n \in 0 .. MaxAsked /\ hours \in 0 .. MaxHours
      BY <1>2
    <3> HIDE DEF r
    <3>4. r \in CallerRows /\ r.n = n /\ r.pc = b.pc /\ r.cost = b.cost
      BY ZenonT(30), <3>1, <3>2, <3>3 DEF CallerRows
    <3> QED
      BY <2>4, <3>1, <3>4
<1> HIDE DEF r
<1>4. /\ callers' \in [Callers -> CallerRows] /\ callers'[c] = r
      /\ \A d \in Callers \ {c} : callers'[d] = callers[d]
  BY <1>1, <1>3 DEF r, JobsHold
<1>5. dreamRuns' = dreamRuns /\ RowsAreNamed'
  BY <1>2 DEF Ask, JobsHold, RowsAreNamed
<1>6. AnswersAreOne'
  <2>1. r.pc # "charge" /\ r.pc # "settle"
    BY <1>3
  <2>2. AnswersAreOne
    BY DEF JobsHold
  <2> QED
    BY ZenonT(30), <1>3, <1>4, <2>1, <2>2 DEF AnswersAreOne, At, AtMost
<1>7. \A q \in dreamRuns : q.id # <<"error", asked + 1>> /\ q.id # <<"budget", asked + 1>>
  <2>1. ASSUME NEW q \in dreamRuns, q.id[1] \in {"error", "budget"} PROVE q.id[2] \in 1 .. asked
    BY <2>1 DEF JobsHold, RowsAreNamed
  <2>2. asked + 1 \notin 1 .. asked
    BY <1>2
  <2> QED
    BY <2>1, <2>2
<1>8. ASSUME NEW d \in Callers \ {c}, ~At(d, "idle") PROVE callers[d].n \in 1 .. asked
  BY <1>8 DEF JobsHold, RequestsAreApart
<1>9. \A n \in 1 .. asked : n \in 1 .. asked + 1 /\ n # asked + 1
  BY <1>2
<1>10. asked + 1 \in 1 .. asked + 1
  BY <1>2
<1>11. RequestsAreApart'
  BY <1>2, <1>3, <1>4, <1>5, <1>7, <1>8, <1>9, <1>10 DEF JobsHold, RequestsAreApart, At, ErrorId, BudgetId
<1> QED
  BY <1>2, <1>4, <1>5, <1>6, <1>11 DEF JobsHold, Ask

LEMMA BeginJobKeeps ==
    ASSUME JobsHold, NEW c \in Callers, BeginJob(c)
    PROVE  JobsHold'
<1> DEFINE r == [callers[c] EXCEPT !.pc = "preview"]
<1>1. callers[c] \in CallerRows /\ callers \in [Callers -> CallerRows] /\ callers[c].pc = "begin" /\ callers[c].cost = 0
  BY DEF JobsHold, AnswersAreOne, BeginJob, At
<1>2. callers' = [callers EXCEPT ![c] = r]
  BY DEF BeginJob, Move
<1>3. r \in CallerRows /\ r.pc = "preview" /\ r.n = callers[c].n /\ r.cost = 0
  BY <1>1 DEF CallerRows
<1> HIDE DEF r
<1>4. RowsAreNamed' /\ RequestsAreApart' /\ AnswersAreOne' /\ callers' \in [Callers -> CallerRows]
  BY <1>1, <1>2, <1>3, CallersKeep DEF BeginJob, At, Early
<1> QED
  BY <1>4 DEF JobsHold, BeginJob

\* A failure is a step of this kind.
LEMMA FailsKeeps ==
    ASSUME JobsHold, NEW c \in Callers, callers[c].pc \in Early \cup {"fail", "settle"}, Fails(c),
           UNCHANGED <<dreamRuns, dreamJobs, asked, hours, lost>>
    PROVE  JobsHold'
<1> DEFINE r == [callers[c] EXCEPT !.pc = "fail", !.left = MaxCalls, !.late = FALSE, !.cost = 0]
<1>1. callers[c] \in CallerRows /\ callers \in [Callers -> CallerRows]
  BY DEF JobsHold
<1>2. callers' = [callers EXCEPT ![c] = r]
  BY DEF Fails
<1>3. r \in CallerRows /\ r.pc = "fail" /\ r.n = callers[c].n /\ r.cost = 0
  <2>1. MaxCalls \in 0 .. MaxCalls
    BY DreamJobsAssumption
  <2> QED
    BY <1>1, <2>1 DEF CallerRows
<1> HIDE DEF r
<1>4. RowsAreNamed' /\ RequestsAreApart' /\ AnswersAreOne' /\ callers' \in [Callers -> CallerRows]
  BY <1>1, <1>2, <1>3, CallersKeep DEF At, Early
<1> QED
  BY <1>4 DEF JobsHold

LEMMA ToRecordKeeps ==
    ASSUME JobsHold, NEW c \in Callers, callers[c].pc \in Early, NEW with \in {"plain", "model"},
           callers[c].cost \in 0 .. AtMost, ToRecord(c, with),
           UNCHANGED <<dreamRuns, dreamJobs, asked, hours, lost>>
    PROVE  JobsHold'
<1> DEFINE r == [callers[c] EXCEPT !.pc = "settle", !.left = MaxCalls, !.run = <<with, callers[c].input>>]
<1>1. callers[c] \in CallerRows /\ callers \in [Callers -> CallerRows]
  BY DEF JobsHold
<1>2. callers' = [callers EXCEPT ![c] = r]
  BY DEF ToRecord
<1>3. callers[c].input \in Inputs
  BY <1>1 DEF CallerRows
<1>4. <<with, callers[c].input>> \in {"plain", "model"} \X Inputs /\ <<with, callers[c].input>> \in RunIds
  BY <1>3 DEF RunIds
<1>5. r \in CallerRows /\ r.pc = "settle" /\ r.n = callers[c].n /\ r.cost = callers[c].cost
      /\ r.run = <<with, callers[c].input>>
  <2>1. MaxCalls \in 0 .. MaxCalls
    BY DreamJobsAssumption
  <2> QED
    BY <1>1, <1>4, <2>1 DEF CallerRows
<1> HIDE DEF r
<1>6. RowsAreNamed' /\ RequestsAreApart' /\ AnswersAreOne' /\ callers' \in [Callers -> CallerRows]
  BY <1>1, <1>2, <1>4, <1>5, CallersKeep DEF At, Early
<1> QED
  BY <1>6 DEF JobsHold

LEMMA PreviewRunKeeps ==
    ASSUME JobsHold, NEW c \in Callers, PreviewRun(c)
    PROVE  JobsHold'
<1>1. callers[c] \in CallerRows /\ callers \in [Callers -> CallerRows] /\ callers[c].pc = "preview" /\ callers[c].cost = 0
  BY DEF JobsHold, AnswersAreOne, PreviewRun, At
<1>2. CASE Fails(c)
  BY <1>1, <1>2, FailsKeeps DEF PreviewRun, Early
<1>3. CASE ToRecord(c, "plain")
  <2>1. callers[c].cost \in 0 .. AtMost
    BY <1>1, OneAnswerIsBounded
  <2> QED
    BY <1>1, <1>3, <2>1, ToRecordKeeps DEF PreviewRun, Early
<1>4. CASE Move(c, "call")
  <2> DEFINE r == [callers[c] EXCEPT !.pc = "call"]
  <2>1. callers' = [callers EXCEPT ![c] = r]
    BY <1>4 DEF Move
  <2>2. r \in CallerRows /\ r.pc = "call" /\ r.n = callers[c].n /\ r.cost = 0
    BY <1>1 DEF CallerRows
  <2> HIDE DEF r
  <2>3. RowsAreNamed' /\ RequestsAreApart' /\ AnswersAreOne' /\ callers' \in [Callers -> CallerRows]
    BY <1>1, <2>1, <2>2, CallersKeep DEF PreviewRun, At, Early
  <2> QED
    BY <2>3 DEF JobsHold, PreviewRun
<1> QED
  BY <1>2, <1>3, <1>4 DEF PreviewRun

LEMMA AttemptKeeps ==
    ASSUME JobsHold, NEW c \in Callers, Attempt(c)
    PROVE  JobsHold'
<1>1. callers[c] \in CallerRows /\ callers \in [Callers -> CallerRows] /\ callers[c].pc = "call" /\ callers[c].cost = 0
  BY DEF JobsHold, AnswersAreOne, Attempt, At
<1>2. CASE BadReply(c)
  BY <1>1, <1>2, FailsKeeps DEF Attempt, BadReply, Early
<1>3. CASE NoReply(c)
  <2> DEFINE r == [callers[c] EXCEPT !.left = @ - 1]
  <2>1. callers' = [callers EXCEPT ![c] = r]
    BY <1>3 DEF NoReply
  <2>2. callers[c].left - 1 \in 0 .. MaxCalls
    BY <1>1, DreamJobsAssumption DEF CallerRows, Attempt
  <2>3. r \in CallerRows /\ r.pc = "call" /\ r.n = callers[c].n /\ r.cost = 0
    BY <1>1, <2>2 DEF CallerRows
  <2> HIDE DEF r
  <2>4. RowsAreNamed' /\ RequestsAreApart' /\ AnswersAreOne' /\ callers' \in [Callers -> CallerRows]
    BY <1>1, <2>1, <2>3, CallersKeep DEF Attempt, At, Early
  <2> QED
    BY <2>4 DEF JobsHold, Attempt
<1>4. CASE Answered(c)
  <2>1. PICK k \in Costs : callers' = [callers EXCEPT ![c].pc = "charge", ![c].cost = k]
    BY <1>4 DEF Answered
  <2> DEFINE r == [callers[c] EXCEPT !.pc = "charge", !.cost = k]
  <2>2. callers' = [callers EXCEPT ![c] = r]
    BY <2>1
  <2>3. k \in Nat
    BY DreamJobsAssumption
  <2>4. r \in CallerRows /\ r.pc = "charge" /\ r.n = callers[c].n /\ r.cost = k
    BY <1>1, <2>3 DEF CallerRows
  <2> HIDE DEF r
  <2>5. RowsAreNamed' /\ RequestsAreApart' /\ AnswersAreOne' /\ callers' \in [Callers -> CallerRows]
    BY <1>1, <2>2, <2>4, CallersKeep DEF Attempt, At, Early
  <2> QED
    BY <2>5 DEF JobsHold, Attempt
<1> QED
  BY <1>2, <1>3, <1>4 DEF Attempt

LEMMA RunOutKeeps ==
    ASSUME JobsHold, NEW c \in Callers, RunOut(c)
    PROVE  JobsHold'
BY FailsKeeps DEF RunOut, At, Early

LEMMA ExpireKeeps ==
    ASSUME JobsHold, NEW c \in Callers, Expire(c)
    PROVE  JobsHold'
<1> DEFINE r == [callers[c] EXCEPT !.late = TRUE]
<1>1. callers[c] \in CallerRows /\ callers \in [Callers -> CallerRows]
  BY DEF JobsHold
<1>2. callers' = [callers EXCEPT ![c] = r]
  BY DEF Expire
<1>3. /\ r \in CallerRows /\ r.pc = callers[c].pc /\ r.n = callers[c].n /\ r.cost = callers[c].cost
      /\ r.run = callers[c].run
  BY <1>1 DEF CallerRows
<1> HIDE DEF r
<1>4. /\ r.pc \in {"preview", "call", "charge", "settle"}
      /\ r.pc \in {"begin", "preview", "call", "fail"} => r.cost = 0
      /\ r.pc = "charge" => r.cost \in Costs
      /\ r.pc = "settle" => r.run \in {"plain", "model"} \X Inputs /\ r.cost \in 0 .. AtMost
  BY <1>3 DEF JobsHold, AnswersAreOne, At, Expire
<1>5. RowsAreNamed' /\ RequestsAreApart' /\ AnswersAreOne' /\ callers' \in [Callers -> CallerRows]
  BY <1>2, <1>3, <1>4, CallersKeep DEF Expire, At, Early
<1> QED
  BY <1>5 DEF JobsHold, Expire

LEMMA NotAskingIsTyped == NotAsking \in CallerRows /\ NotAsking.pc = "idle" /\ NotAsking.cost = 0
BY DreamJobsAssumption DEF NotAsking, CallerRows, RunStatuses

LEMMA GiveUpKeeps ==
    ASSUME JobsHold, NEW c \in Callers, GiveUp(c)
    PROVE  JobsHold'
<1>1. callers' = [callers EXCEPT ![c] = NotAsking]
  BY DEF GiveUp
<1>2. RowsAreNamed' /\ RequestsAreApart' /\ AnswersAreOne' /\ callers' \in [Callers -> CallerRows]
  BY <1>1, NotAskingIsTyped, CallersKeep DEF GiveUp
<1>3. lost' \in 0 .. MaxLost
  BY DreamJobsAssumption DEF GiveUp, JobsHold
<1> QED
  BY <1>2, <1>3 DEF JobsHold, GiveUp

LEMMA MarkKeeps ==
    ASSUME JobsHold, NEW c \in Callers, Mark(c)
    PROVE  JobsHold'
<1>1. callers' = [callers EXCEPT ![c] = NotAsking]
  BY DEF Mark
<1>2. RowsAreNamed' /\ RequestsAreApart' /\ AnswersAreOne' /\ callers' \in [Callers -> CallerRows]
  BY <1>1, NotAskingIsTyped, CallersKeep DEF Mark
<1>3. callers[c].status \in RunStatuses \cup {"none"} /\ callers[c].run \in RunIds \cup {NoRun}
  BY DEF JobsHold, CallerRows
<1>4. dreamJobs' \in [Jobs -> [status: RunStatuses \cup {"none", "running"}, last: RunIds \cup {NoRun}]]
  BY <1>3 DEF JobsHold, Mark
<1> QED
  BY <1>2, <1>4 DEF JobsHold, Mark

\* A row that is written takes the place of none that was refused.
LEMMA RowsKeep ==
    ASSUME JobsHold, NEW c \in Callers, ~At(c, "idle"), NEW row \in DreamRunRows, dreamRuns' = Inserted(row),
           asked' = asked, row.status = "error" <=> row.id[1] \in {"error", "budget"},
           row.status = "error" => row.id[2] = callers[c].n /\ \A r \in dreamRuns : r.id # row.id
    PROVE  RowsAreNamed' /\ \A r \in dreamRuns : r.status = "error" => r \in dreamRuns'
<1>1. RowsAreNamed /\ callers[c].n \in 1 .. asked
  BY DEF JobsHold, RequestsAreApart
<1>2. IsFiniteSet(dreamRuns')
  <2>1. {r \in dreamRuns : r.id # row.id} \in SUBSET dreamRuns
    OBVIOUS
  <2>2. IsFiniteSet({r \in dreamRuns : r.id # row.id})
    BY <1>1, <2>1, FS_Subset DEF RowsAreNamed
  <2> QED
    BY <2>2, FS_AddElement DEF Inserted
<1>3. RowsAreNamed'
  BY <1>1, <1>2 DEF RowsAreNamed, Inserted
<1>4. ASSUME NEW r \in dreamRuns, r.status = "error" PROVE r.id # row.id
  BY <1>1, <1>4 DEF RowsAreNamed
<1> QED
  BY <1>3, <1>4 DEF Inserted

\* And none of the others' either.
LEMMA OthersStayApart ==
    ASSUME JobsHold, NEW c \in Callers, ~At(c, "idle"), NEW row, dreamRuns' = Inserted(row),
           asked' = asked, \/ row.id[1] \in {"plain", "model"}
                           \/ row.id \in {<<"error", callers[c].n>>, <<"budget", callers[c].n>>},
           NEW r \in CallerRows, callers' = [callers EXCEPT ![c] = r],
           r.pc \in {"idle", "mark"} \/ (r.pc = "fail" /\ row.id = BudgetId(c) /\ ~At(c, "mark")),
           r.pc # "idle" => r.n = callers[c].n
    PROVE  RequestsAreApart'
<1>1. callers' \in [Callers -> CallerRows] /\ callers'[c] = r /\ \A d \in Callers \ {c} : callers'[d] = callers[d]
  BY DEF JobsHold
<1>2. RequestsAreApart
  BY DEF JobsHold
<1>3. ASSUME NEW d \in Callers \ {c}, ~At(d, "idle")
      PROVE  row.id # <<"error", callers[d].n>> /\ row.id # <<"budget", callers[d].n>>
  BY <1>2, <1>3 DEF RequestsAreApart
<1>4. \A q \in dreamRuns' : q \in dreamRuns \/ q.id = row.id
  BY DEF Inserted
<1>5. ASSUME NEW d \in Callers \ {c}, ~At(d, "idle")'
      PROVE  /\ callers'[d].n \in 1 .. asked'
             /\ \A e \in Callers \ {d} : ~At(e, "idle")' => callers'[e].n # callers'[d].n
             /\ ~At(d, "mark")' => \A q \in dreamRuns' : q.id # ErrorId(d)'
             /\ callers'[d].pc \in {"begin", "preview", "call", "charge"} =>
                    \A q \in dreamRuns' : q.id # BudgetId(d)'
  BY <1>1, <1>2, <1>3, <1>4, <1>5 DEF RequestsAreApart, At, ErrorId, BudgetId
<1>6. ASSUME ~At(c, "idle")'
      PROVE  /\ callers'[c].n \in 1 .. asked'
             /\ \A e \in Callers \ {c} : ~At(e, "idle")' => callers'[e].n # callers'[c].n
             /\ ~At(c, "mark")' => \A q \in dreamRuns' : q.id # ErrorId(c)'
             /\ callers'[c].pc \notin {"begin", "preview", "call", "charge"}
  BY <1>1, <1>2, <1>4, <1>6 DEF RequestsAreApart, At, ErrorId, BudgetId
<1> QED
  BY <1>5, <1>6 DEF RequestsAreApart, At

\* The row of a run that ends is an error of its request, or what was asked for and billed.
LEMMA AuditsAreNamed ==
    ASSUME JobsHold, NEW c \in Callers, callers[c].pc \in {"settle", "fail"}, NEW s \in {"ok", "ok_with_limits"}
    PROVE  /\ Audit(c, s) \in DreamRunRows
           /\ \/ /\ Audit(c, s).status = "error" /\ Audit(c, s).id = <<"error", callers[c].n>>
                 /\ \A r \in dreamRuns : r.id # Audit(c, s).id
              \/ /\ Audit(c, s).status # "error" /\ Audit(c, s).id \in {"plain", "model"} \X Inputs
                 /\ At(c, "settle") /\ Audit(c, s).cost = callers[c].cost
<1>1. callers[c] \in CallerRows /\ callers[c].n \in 1 .. asked /\ asked \in 0 .. MaxAsked
  BY DEF JobsHold, RequestsAreApart, At
<1>2. callers[c].at \in 0 .. MaxHours /\ callers[c].cost \in Nat /\ callers[c].n \in 1 .. MaxAsked
  BY <1>1, DreamJobsAssumption DEF CallerRows
<1>3. CASE At(c, "fail") \/ callers[c].late
  <2>1. Audit(c, s) = [id |-> <<"error", callers[c].n>>, status |-> "error", cost |-> 0, at |-> callers[c].at]
    BY <1>3 DEF Audit, RunRow, ErrorId
  <2>2. <<"error", callers[c].n>> \in RunIds
    BY <1>2 DEF RunIds
  <2>3. Audit(c, s) \in DreamRunRows
    BY <1>2, <2>1, <2>2 DEF DreamRunRows, RunStatuses
  <2>4. \A r \in dreamRuns : r.id # <<"error", callers[c].n>>
    BY DEF JobsHold, RequestsAreApart, At, ErrorId
  <2> QED
    BY <2>1, <2>3, <2>4
<1>4. CASE ~(At(c, "fail") \/ callers[c].late)
  <2>1. Audit(c, s) = [id |-> callers[c].run, status |-> s, cost |-> callers[c].cost, at |-> callers[c].at]
    BY <1>4 DEF Audit, RunRow
  <2>2. At(c, "settle")
    BY <1>4 DEF At
  <2>3. callers[c].run \in {"plain", "model"} \X Inputs
    BY <2>2 DEF JobsHold, AnswersAreOne
  <2>4. callers[c].run \in RunIds
    BY <2>3 DEF RunIds
  <2>5. Audit(c, s) \in DreamRunRows
    BY <1>2, <2>1, <2>4 DEF DreamRunRows, RunStatuses
  <2> QED
    BY <2>1, <2>2, <2>3, <2>5
<1> QED
  BY <1>3, <1>4

LEMMA AuditKeeps ==
    ASSUME JobsHold, NEW c \in Callers, callers[c].pc \in {"settle", "fail"}, NEW s \in {"ok", "ok_with_limits"},
           dreamRuns' = Inserted(Audit(c, s)), UNCHANGED <<dreamJobs, asked, hours, lost>>,
           NEW r \in CallerRows, callers' = [callers EXCEPT ![c] = r], r.pc \in {"idle", "mark"},
           r.pc # "idle" => r.n = callers[c].n
    PROVE  JobsHold' /\ \A q \in dreamRuns : q.status = "error" => q \in dreamRuns'
<1> PICK row : row = Audit(c, s)
  OBVIOUS
<1>1. /\ row \in DreamRunRows
      /\ \/ row.status = "error" /\ row.id = <<"error", callers[c].n>> /\ \A q \in dreamRuns : q.id # row.id
         \/ row.status # "error" /\ row.id \in {"plain", "model"} \X Inputs
  BY AuditsAreNamed
<1>2. row.status = "error" <=> row.id[1] \in {"error", "budget"}
  BY <1>1
<1>3. row.status = "error" => row.id[2] = callers[c].n /\ \A q \in dreamRuns : q.id # row.id
  BY <1>1
<1>4. dreamRuns' = Inserted(row) /\ ~At(c, "idle")
  BY DEF At
<1>5. RowsAreNamed' /\ \A q \in dreamRuns : q.status = "error" => q \in dreamRuns'
  BY <1>1, <1>2, <1>3, <1>4, RowsKeep
<1>6. \/ row.id[1] \in {"plain", "model"}
      \/ row.id \in {<<"error", callers[c].n>>, <<"budget", callers[c].n>>}
  BY <1>1
<1>7. RequestsAreApart'
  BY <1>4, <1>6, OthersStayApart
<1>8. callers' \in [Callers -> CallerRows] /\ callers'[c] = r /\ \A d \in Callers \ {c} : callers'[d] = callers[d]
  BY DEF JobsHold
<1>9. AnswersAreOne'
  <2>1. AnswersAreOne
    BY DEF JobsHold
  <2> QED
    BY <1>8, <2>1 DEF AnswersAreOne, At, AtMost
<1> QED
  BY <1>5, <1>7, <1>8, <1>9 DEF JobsHold

LEMMA SettleDreamKeeps ==
    ASSUME JobsHold, NEW c \in Callers, SettleDream(c)
    PROVE  JobsHold' /\ \A q \in dreamRuns : q.status = "error" => q \in dreamRuns'
<1>1. callers' = [callers EXCEPT ![c] = NotAsking] /\ dreamRuns' = Inserted(Audit(c, "ok"))
  BY DEF SettleDream
<1> QED
  BY <1>1, NotAskingIsTyped, AuditKeeps DEF SettleDream

LEMMA SettleJobKeeps ==
    ASSUME JobsHold, NEW c \in Callers, SettleJob(c)
    PROVE  JobsHold' /\ \A q \in dreamRuns : q.status = "error" => q \in dreamRuns'
<1>1. PICK s \in {"ok", "ok_with_limits"} :
          dreamRuns' = Inserted(Audit(c, s)) /\ callers' = [callers EXCEPT ![c] = Marks(c, Audit(c, s))]
  BY DEF SettleJob
<1> PICK r : r = Marks(c, Audit(c, s))
  OBVIOUS
<1>2. callers[c].pc \in {"settle", "fail"} /\ callers[c] \in CallerRows
  BY DEF SettleJob, JobsHold
<1>3. Audit(c, s).id \in RunIds /\ Audit(c, s).status \in RunStatuses
  BY <1>2, AuditsAreNamed DEF DreamRunRows
<1>4. r \in CallerRows /\ r.pc = "mark" /\ r.n = callers[c].n
  BY <1>2, <1>3 DEF Marks, CallerRows
<1>5. callers' = [callers EXCEPT ![c] = r]
  BY <1>1
<1> QED
  BY <1>1, <1>2, <1>4, <1>5, AuditKeeps DEF SettleJob

LEMMA ChargeKeeps ==
    ASSUME JobsHold, NEW c \in Callers, Charge(c)
    PROVE  JobsHold' /\ \A q \in dreamRuns : q.status = "error" => q \in dreamRuns'
<1>1. /\ callers[c] \in CallerRows /\ callers \in [Callers -> CallerRows] /\ callers[c].pc = "charge"
      /\ callers[c].cost \in Costs /\ callers[c].cost \in Nat
  BY DEF JobsHold, AnswersAreOne, Charge, At, CallerRows
<1>2. hours \in 0 .. MaxHours /\ callers[c].n \in 1 .. asked /\ asked \in 0 .. MaxAsked
  BY <1>1 DEF JobsHold, RequestsAreApart, At
<1>3. CASE dreamRuns' = Inserted(RunRow(BudgetId(c), "error", callers[c].cost, hours)) /\ Fails(c)
  <2> PICK row : row = RunRow(BudgetId(c), "error", callers[c].cost, hours)
    OBVIOUS
  <2>1. row = [id |-> <<"budget", callers[c].n>>, status |-> "error", cost |-> callers[c].cost, at |-> hours]
    BY DEF RunRow, BudgetId
  <2>2. <<"budget", callers[c].n>> \in RunIds
    BY <1>2, DreamJobsAssumption DEF RunIds
  <2>3. row \in DreamRunRows /\ row.status = "error" /\ row.id[1] = "budget" /\ row.id[2] = callers[c].n
    BY <1>1, <1>2, <2>1, <2>2 DEF DreamRunRows, RunStatuses
  <2>4. \A q \in dreamRuns : q.id # row.id
    BY <1>1, <2>1 DEF JobsHold, RequestsAreApart, At, BudgetId
  <2>5. dreamRuns' = Inserted(row) /\ ~At(c, "idle") /\ asked' = asked
    BY <1>1, <1>3 DEF At, Charge
  <2>6. RowsAreNamed' /\ \A q \in dreamRuns : q.status = "error" => q \in dreamRuns'
    BY <2>3, <2>4, <2>5, RowsKeep
  <2> DEFINE r == [callers[c] EXCEPT !.pc = "fail", !.left = MaxCalls, !.late = FALSE, !.cost = 0]
  <2>7. callers' = [callers EXCEPT ![c] = r]
    BY <1>3 DEF Fails
  <2>8. r \in CallerRows /\ r.pc = "fail" /\ r.n = callers[c].n /\ r.cost = 0
    <3>1. MaxCalls \in 0 .. MaxCalls
      BY DreamJobsAssumption
    <3> QED
      BY <1>1, <3>1 DEF CallerRows
  <2> HIDE DEF r
  <2>9. row.id = BudgetId(c) /\ row.id \in {<<"error", callers[c].n>>, <<"budget", callers[c].n>>} /\ ~At(c, "mark")
    BY <1>1, <2>1 DEF BudgetId, At
  <2>10. RequestsAreApart'
    BY <2>5, <2>7, <2>8, <2>9, OthersStayApart
  <2>11. callers' \in [Callers -> CallerRows] /\ callers'[c] = r /\ \A d \in Callers \ {c} : callers'[d] = callers[d]
    BY <1>1, <2>7, <2>8
  <2>12. AnswersAreOne'
    <3>1. AnswersAreOne
      BY DEF JobsHold
    <3> QED
      BY ZenonT(30), <2>8, <2>11, <3>1 DEF AnswersAreOne, At, AtMost
  <2> QED
    BY <2>6, <2>10, <2>11, <2>12 DEF JobsHold, Charge
<1>4. CASE ToRecord(c, "model") /\ UNCHANGED dreamRuns /\ ~OverCeiling(c)
  <2>1. callers[c].cost \in 0 .. AtMost
    <3>1. Priced({r \in dreamRuns : r.at >= hours - Day})
      <4>1. {r \in dreamRuns : r.at >= hours - Day} \in SUBSET dreamRuns
        OBVIOUS
      <4>2. IsFiniteSet({r \in dreamRuns : r.at >= hours - Day})
        BY <4>1, FS_Subset DEF JobsHold, RowsAreNamed
      <4> QED
        BY <4>2 DEF Priced, JobsHold, RowsAreNamed, DreamRunRows
    <3>2. Spent = CostOf({r \in dreamRuns : r.at >= hours - Day})
      BY DEF Spent, SpentOf, CostOf
    <3>3. Spent \in Nat
      BY <3>1, <3>2, CostIsNumber
    <3>4. callers[c].cost <= Ceiling
      BY <1>1, <1>4, <3>3, DreamJobsAssumption DEF OverCeiling
    <3> QED
      BY <1>1, <3>4, OneAnswerIsBounded
  <2> QED
    BY <1>1, <1>4, <2>1, ToRecordKeeps DEF Charge, Early
<1> QED
  BY <1>3, <1>4 DEF Charge

LEMMA TimePassesKeeps ==
    ASSUME JobsHold, TimePasses
    PROVE  JobsHold'
<1>1. hours' \in 0 .. MaxHours /\ UNCHANGED <<dreamRuns, dreamJobs, callers, asked, lost>>
  BY DreamJobsAssumption DEF JobsHold, TimePasses
<1> QED
  BY <1>1 DEF JobsHold, RowsAreNamed, RequestsAreApart, AnswersAreOne, At, AtMost, ErrorId, BudgetId

RefusedStay == \A r \in dreamRuns : r.status = "error" => r \in dreamRuns'

LEMMA JobsKeep == JobsHold /\ [JobsNext]_jobVars => JobsHold' /\ RefusedStay
<1> SUFFICES ASSUME JobsHold, [JobsNext]_jobVars PROVE JobsHold' /\ RefusedStay
  OBVIOUS
<1>1. CASE UNCHANGED jobVars
  BY <1>1 DEF jobVars, RefusedStay, JobsHold, RowsAreNamed, RequestsAreApart, AnswersAreOne, At, AtMost, ErrorId, BudgetId
<1>2. ASSUME NEW c \in Callers, Charge(c) \/ SettleDream(c) \/ SettleJob(c) PROVE JobsHold' /\ RefusedStay
  BY <1>2, ChargeKeeps, SettleDreamKeeps, SettleJobKeeps DEF RefusedStay
<1>3. ASSUME NEW c \in Callers,
             Ask(c) \/ BeginJob(c) \/ PreviewRun(c) \/ Attempt(c) \/ RunOut(c) \/ Mark(c) \/ Expire(c) \/ GiveUp(c)
      PROVE  JobsHold' /\ RefusedStay
  <2>1. JobsHold'
    BY <1>3, AskKeeps, BeginJobKeeps, PreviewRunKeeps, AttemptKeeps, RunOutKeeps, MarkKeeps, ExpireKeeps, GiveUpKeeps
  <2>2. dreamRuns' = dreamRuns
    BY <1>3 DEF Ask, BeginJob, PreviewRun, Attempt, RunOut, Mark, Expire, GiveUp
  <2> QED
    BY <2>1, <2>2 DEF RefusedStay
<1>4. CASE TimePasses
  BY <1>4, TimePassesKeeps DEF RefusedStay, TimePasses
<1> QED
  BY <1>1, <1>2, <1>3, <1>4 DEF JobsNext, JobStep

LEMMA JobsAreTyped == JobsHold => JobsTypeOK
BY DEF JobsHold, RowsAreNamed, JobsTypeOK, CallerRows

LEMMA JobsStayTyped == JobsInit /\ [][JobsNext]_jobVars => []JobsTypeOK /\ RefusedCostsStay
<1>1. JobsHold /\ [JobsNext]_jobVars => [\A r \in dreamRuns : r.status = "error" => r \in dreamRuns']_jobVars
  BY JobsKeep DEF RefusedStay
<1> QED
  BY <1>1, JobsBegin, JobsKeep, JobsAreTyped, PTL DEF RefusedCostsStay

----------------------------------------------------------------------------
(* The ceiling *)

Recent == {r \in Kept : r.at >= hours - Day}
UnderWay(c) == [id |-> <<"pending", c>>, cost |-> callers[c].cost]
Pending == {UnderWay(c) : c \in {d \in Callers : At(d, "settle")}}

\* What is kept, and what will be, together exceed the ceiling by one answer of each caller but one.
CostsAreCovered == CostOf(Recent \cup Pending) <= Ceiling + (Cardinality(Callers) - 1) * AtMost

LEMMA PendingIsFinite ==
    ASSUME NEW D, D \subseteq Callers
    PROVE  IsFiniteSet({UnderWay(c) : c \in D}) /\ Cardinality({UnderWay(c) : c \in D}) <= Cardinality(D)
           /\ IsFiniteSet(D)
<1> DEFINE f == [c \in D |-> UnderWay(c)]
<1>1. f \in Surjection(D, {UnderWay(c) : c \in D})
  BY DEF Surjection
<1>2. IsFiniteSet(D)
  BY DreamJobsAssumption, FS_Subset
<1> QED
  BY <1>1, <1>2, FS_Surjection

LEMMA CostsArePriced ==
    ASSUME JobsHold
    PROVE  Priced(Recent) /\ Priced(Pending) /\ Priced(Recent \cup Pending)
<1>1. Recent \in SUBSET dreamRuns
  BY DEF Recent, Kept
<1>2. IsFiniteSet(Recent) /\ \A r \in Recent : r.cost \in Nat
  BY <1>1, FS_Subset DEF JobsHold, RowsAreNamed, DreamRunRows
<1>3. IsFiniteSet(Pending) /\ \A r \in Pending : r.cost \in Nat
  <2> DEFINE D == {d \in Callers : At(d, "settle")}
  <2>1. IsFiniteSet({UnderWay(c) : c \in D})
    BY PendingIsFinite
  <2>2. \A c \in Callers : callers[c].cost \in Nat
    BY DEF JobsHold, CallerRows
  <2> QED
    BY <2>1, <2>2 DEF Pending, UnderWay
<1>4. IsFiniteSet(Recent \cup Pending)
  BY <1>2, <1>3, FS_Union
<1> QED
  BY <1>2, <1>3, <1>4 DEF Priced

\* What is under way is not in the table.
LEMMA PendingIsApart ==
    ASSUME JobsHold, NEW c \in Callers
    PROVE  UnderWay(c) \notin Recent
<1>1. \A r \in Recent : r.id \in RunIds
  BY DEF Recent, Kept, JobsHold, RowsAreNamed, DreamRunRows
<1>2. UnderWay(c).id[1] = "pending"
  BY DEF UnderWay
<1>3. \A i \in RunIds : i[1] \in {"plain", "model", "error", "budget"}
  BY DEF RunIds
<1> QED
  BY <1>1, <1>2, <1>3

\* Fewer rows and answers cost less.
LEMMA LessIsCovered ==
    ASSUME JobsHold, JobsHold', CostsAreCovered, (Recent \cup Pending)' \subseteq Recent \cup Pending
    PROVE  CostsAreCovered'
<1>1. PICK S, T : S = Recent \cup Pending /\ T = (Recent \cup Pending)' /\ Priced(S) /\ T \subseteq S
                  /\ CostOf(S) <= Ceiling + (Cardinality(Callers) - 1) * AtMost
  BY CostsArePriced DEF CostsAreCovered
<1>2. CostOf(T) <= CostOf(S) /\ Priced(T)
  <2>1. IsFiniteSet(T)
    BY <1>1, FS_Subset DEF Priced
  <2> QED
    BY <1>1, <2>1, CostOfPart DEF Priced
<1>3. CostOf(S) \in Nat /\ CostOf(T) \in Nat
  BY <1>1, <1>2, CostIsNumber
<1>4. Ceiling + (Cardinality(Callers) - 1) * AtMost \in Int
  <2>1. Cardinality(Callers) \in Nat /\ Ceiling \in Nat
    BY DreamJobsAssumption, FS_CardinalityType
  <2> QED
    BY <2>1, OneAnswerIsBounded
<1>5. CostOf(T) <= Ceiling + (Cardinality(Callers) - 1) * AtMost
  BY <1>1, <1>2, <1>3, <1>4
<1> QED
  BY <1>1, <1>5 DEF CostsAreCovered

\* A caller that begins to settle with nothing billed adds nothing.
LEMMA NothingIsCovered ==
    ASSUME JobsHold, JobsHold', CostsAreCovered, NEW x, x.cost = 0,
           (Recent \cup Pending)' \subseteq (Recent \cup Pending) \cup {x}
    PROVE  CostsAreCovered'
<1>1. PICK S, T : S = Recent \cup Pending /\ T = (Recent \cup Pending)' /\ Priced(S) /\ T \subseteq S \cup {x}
                  /\ CostOf(S) <= Ceiling + (Cardinality(Callers) - 1) * AtMost
  BY CostsArePriced DEF CostsAreCovered
<1>2. Priced(S \cup {x}) /\ CostOf(S \cup {x}) <= CostOf(S) + 0 /\ CostOf(S) \in Nat /\ CostOf(S \cup {x}) \in Nat
  <2>1. x.cost \in Nat
    OBVIOUS
  <2>2. Priced(S \cup {x}) /\ CostOf(S \cup {x}) <= CostOf(S) + x.cost /\ CostOf(S) \in Nat /\ CostOf(S \cup {x}) \in Nat
    BY <1>1, <2>1, CostWithOneMore
  <2> QED
    BY <2>2
<1>3. CostOf(T) <= CostOf(S \cup {x}) /\ Priced(T)
  <2>1. IsFiniteSet(T)
    BY <1>1, <1>2, FS_Subset DEF Priced
  <2> QED
    BY <1>1, <1>2, <2>1, CostOfPart DEF Priced
<1>4. CostOf(T) \in Nat
  BY <1>3, CostIsNumber
<1>5. Ceiling + (Cardinality(Callers) - 1) * AtMost \in Int
  <2>1. Cardinality(Callers) \in Nat /\ Ceiling \in Nat
    BY DreamJobsAssumption, FS_CardinalityType
  <2> QED
    BY <2>1, OneAnswerIsBounded
<1>6. CostOf(T) <= Ceiling + (Cardinality(Callers) - 1) * AtMost
  BY <1>1, <1>2, <1>3, <1>4, <1>5
<1> QED
  BY <1>1, <1>6 DEF CostsAreCovered

\* What was under way is recorded.
LEMMA SettledIsCovered ==
    ASSUME JobsHold, JobsHold', CostsAreCovered, NEW c \in Callers, callers[c].pc \in {"settle", "fail"},
           NEW s \in {"ok", "ok_with_limits"}, dreamRuns' = Inserted(Audit(c, s)), hours' = hours,
           ~At(c, "settle")', \A d \in Callers \ {c} : callers'[d] = callers[d]
    PROVE  CostsAreCovered'
<1> PICK row : row = Audit(c, s)
  OBVIOUS
<1>1. \/ row.status = "error"
      \/ row.status # "error" /\ At(c, "settle") /\ row.cost = callers[c].cost
  BY AuditsAreNamed
<1>2. Pending' \subseteq Pending \ {UnderWay(c)}
  BY DEF Pending, UnderWay, At
<1>3. CASE row.status = "error"
  <2>1. Recent' \subseteq Recent
    BY <1>3 DEF Recent, Kept, Inserted
  <2> QED
    BY <1>2, <2>1, LessIsCovered
<1>4. CASE row.status # "error" /\ At(c, "settle") /\ row.cost = callers[c].cost
  <2>1. Recent' \subseteq Recent \cup {row}
    BY DEF Recent, Kept, Inserted
  <2>2. PICK S, p : S = Recent \cup Pending /\ p = UnderWay(c)
    OBVIOUS
  <2>3. PICK T : T = (Recent \cup Pending)'
    OBVIOUS
  <2>4. Priced(S) /\ p \in S /\ p.cost = row.cost /\ CostOf(S) <= Ceiling + (Cardinality(Callers) - 1) * AtMost
    BY <1>4, <2>2, CostsArePriced DEF CostsAreCovered, Pending, UnderWay
  <2>5. Recent \subseteq S \ {p} /\ T \subseteq (S \ {p}) \cup {row}
    BY <1>2, <2>1, <2>2, <2>3, PendingIsApart
  <2>6. Priced(S \ {p}) /\ p.cost \in Nat
    BY <2>4, FS_RemoveElement DEF Priced
  <2>7. CostOf(S) = p.cost + CostOf(S \ {p})
    BY <2>4, CostWithout
  <2>8. /\ Priced((S \ {p}) \cup {row}) /\ CostOf((S \ {p}) \cup {row}) <= CostOf(S \ {p}) + row.cost
        /\ CostOf(S \ {p}) \in Nat /\ CostOf((S \ {p}) \cup {row}) \in Nat
    BY <2>4, <2>6, CostWithOneMore
  <2>9. CostOf(T) <= CostOf((S \ {p}) \cup {row}) /\ Priced(T)
    <3>1. IsFiniteSet(T)
      BY <2>5, <2>8, FS_Subset DEF Priced
    <3> QED
      BY <2>5, <2>8, <3>1, CostOfPart DEF Priced
  <2>10. CostOf(T) \in Nat
    BY <2>9, CostIsNumber
  <2>11. Ceiling + (Cardinality(Callers) - 1) * AtMost \in Int
    <3>1. Cardinality(Callers) \in Nat /\ Ceiling \in Nat
      BY DreamJobsAssumption, FS_CardinalityType
    <3> QED
      BY <3>1, OneAnswerIsBounded
  <2>12. CostOf(T) <= Ceiling + (Cardinality(Callers) - 1) * AtMost
    BY <2>4, <2>6, <2>7, <2>8, <2>9, <2>10, <2>11
  <2> QED
    BY <2>3, <2>12 DEF CostsAreCovered
<1> QED
  BY <1>1, <1>3, <1>4

\* An answer is taken when the ceiling has room for it beside what is recorded; what the others
\* have under way is not seen.
LEMMA ChargedIsCovered ==
    ASSUME JobsHold, NEW c \in Callers, At(c, "charge"), ~OverCeiling(c), ToRecord(c, "model"),
           UNCHANGED <<dreamRuns, hours>>
    PROVE  CostsAreCovered'
<1>1. callers \in [Callers -> CallerRows] /\ callers[c].cost \in Nat
  BY DEF JobsHold, CallerRows
<1>2. PICK R, A : R = Recent /\ A = {r \in dreamRuns : r.at >= hours - Day}
  OBVIOUS
<1>3. Priced(R) /\ R \subseteq A /\ A \subseteq dreamRuns
  BY <1>2, CostsArePriced DEF Recent, Kept
<1>4. Priced(A)
  <2>1. IsFiniteSet(A)
    BY <1>3, FS_Subset DEF JobsHold, RowsAreNamed
  <2> QED
    BY <1>3, <2>1 DEF Priced, JobsHold, RowsAreNamed, DreamRunRows
<1>5. Spent = CostOf(A)
  BY <1>2 DEF Spent, SpentOf, CostOf
<1>6. CostOf(R) <= CostOf(A) /\ CostOf(R) \in Nat /\ CostOf(A) \in Nat
  BY <1>3, <1>4, CostOfPart, CostIsNumber
<1>7. PICK x : x = [id |-> <<"pending", c>>, cost |-> callers[c].cost]
  OBVIOUS
<1>8. x.cost = callers[c].cost /\ x.cost \in Nat
  BY <1>1, <1>7
<1>9. CostOf(R) + x.cost <= Ceiling
  BY <1>5, <1>6, <1>8, DreamJobsAssumption DEF OverCeiling
<1>10. /\ Priced(R \cup {x}) /\ CostOf(R \cup {x}) <= CostOf(R) + x.cost
       /\ CostOf(R \cup {x}) \in Nat
  BY <1>3, <1>8, CostWithOneMore
<1> DEFINE D == {d \in Callers \ {c} : At(d, "settle")}
<1>11. PICK O : O = {UnderWay(d) : d \in D}
  OBVIOUS
<1>12. IsFiniteSet(O) /\ Cardinality(O) <= Cardinality(Callers) - 1 /\ Cardinality(O) \in Nat
       /\ Cardinality(Callers) \in Nat
  <2>1. IsFiniteSet(O) /\ Cardinality(O) <= Cardinality(D) /\ IsFiniteSet(D)
    BY <1>11, PendingIsFinite
  <2>2. IsFiniteSet(Callers \ {c}) /\ Cardinality(Callers \ {c}) = Cardinality(Callers) - 1
    BY DreamJobsAssumption, FS_RemoveElement
  <2>3. D \in SUBSET (Callers \ {c})
    OBVIOUS
  <2>4. Cardinality(D) <= Cardinality(Callers \ {c})
    <3> HIDE DEF D
    <3> QED
      BY <2>2, <2>3, FS_Subset
  <2>5. Cardinality(O) \in Nat /\ Cardinality(D) \in Nat /\ Cardinality(Callers) \in Nat
    BY <2>1, DreamJobsAssumption, FS_CardinalityType
  <2> QED
    BY <2>1, <2>2, <2>4, <2>5
<1>13. \A r \in O : r.cost \in 0 .. AtMost
  BY <1>11 DEF UnderWay, JobsHold, AnswersAreOne
<1>14. Recent' = R
  BY <1>2 DEF Recent, Kept
<1>15. Pending' \subseteq {x} \cup O
  BY <1>1, <1>7, <1>11 DEF Pending, UnderWay, At, ToRecord
<1>16. CostOf((R \cup {x}) \cup O) <= CostOf(R \cup {x}) + Cardinality(O) * AtMost
  BY <1>10, <1>12, <1>13, OneAnswerIsBounded, CostOfBoth
<1>17. Cardinality(O) * AtMost <= (Cardinality(Callers) - 1) * AtMost
       /\ Cardinality(O) * AtMost \in Int /\ (Cardinality(Callers) - 1) * AtMost \in Int
  <2>1. \A a \in Nat, b \in Int, m \in Nat : a <= b => a * m <= b * m /\ a * m \in Int /\ b * m \in Int
    OBVIOUS
  <2> QED
    BY <1>12, <2>1, OneAnswerIsBounded
<1>18. PICK T : T = (Recent \cup Pending)' /\ T \subseteq (R \cup {x}) \cup O
  BY <1>14, <1>15
<1>19. Priced((R \cup {x}) \cup O)
  <2>1. \A r \in O : r.cost \in Nat
    BY <1>13, OneAnswerIsBounded
  <2> QED
    BY <1>10, <1>12, <2>1, FS_Union DEF Priced
<1>20. CostOf(T) <= CostOf((R \cup {x}) \cup O) /\ CostOf(T) \in Nat /\ CostOf((R \cup {x}) \cup O) \in Nat
  <2>1. IsFiniteSet(T)
    BY <1>18, <1>19, FS_Subset DEF Priced
  <2> QED
    BY <1>18, <1>19, <2>1, CostOfPart, CostIsNumber DEF Priced
<1>21. CostOf(T) <= Ceiling + (Cardinality(Callers) - 1) * AtMost
  BY <1>6, <1>8, <1>9, <1>10, <1>16, <1>17, <1>20, DreamJobsAssumption
<1> QED
  BY <1>18, <1>21 DEF CostsAreCovered

LEMMA CostsBegin == JobsInit => CostsAreCovered
<1> SUFFICES ASSUME JobsInit PROVE CostsAreCovered
  OBVIOUS
<1>1. Recent = {} /\ Pending = {}
  BY DEF JobsInit, Recent, Kept, Pending, At, NotAsking
<1>2. PICK S : S = Recent \cup Pending /\ S = {}
  BY <1>1
<1>3. CostOf(S) = 0
  BY <1>2, CostsAdd, FS_EmptySet
<1>4. 0 <= Ceiling + (Cardinality(Callers) - 1) * AtMost
  <2>1. Cardinality(Callers) \in Nat /\ Ceiling \in Nat
    BY DreamJobsAssumption, FS_CardinalityType
  <2>2. \A n \in Nat, k \in Nat, m \in Nat : m <= k => 0 <= k + (n - 1) * m
    <3> TAKE n \in Nat, k \in Nat, m \in Nat
    <3>1. n * m >= 0 /\ (n - 1) * m = n * m - m
      OBVIOUS
    <3> QED
      BY <3>1
  <2> QED
    BY <2>1, <2>2, OneAnswerIsBounded
<1> QED
  BY <1>2, <1>3, <1>4 DEF CostsAreCovered

LEMMA CostsKeep == JobsHold /\ CostsAreCovered /\ [JobsNext]_jobVars => CostsAreCovered'
<1> SUFFICES ASSUME JobsHold, CostsAreCovered, [JobsNext]_jobVars PROVE CostsAreCovered'
  OBVIOUS
<1>1. JobsHold'
  BY JobsKeep
<1>2. callers \in [Callers -> CallerRows]
  BY DEF JobsHold
<1>3. CASE UNCHANGED jobVars
  <2>1. (Recent \cup Pending)' \subseteq Recent \cup Pending
    BY <1>3 DEF jobVars, Recent, Kept, Pending, UnderWay, At
  <2> QED
    BY <1>1, <2>1, LessIsCovered
<1>4. CASE TimePasses
  <2>1. Recent' \subseteq Recent
    BY <1>4, DreamJobsAssumption DEF TimePasses, Recent, Kept, JobsHold, RowsAreNamed, DreamRunRows
  <2>2. Pending' = Pending
    BY <1>4 DEF TimePasses, Pending, UnderWay, At
  <2> QED
    BY <1>1, <2>1, <2>2, LessIsCovered
<1>5. ASSUME NEW c \in Callers, UNCHANGED <<dreamRuns, hours>>, \A d \in Callers \ {c} : callers'[d] = callers[d],
             callers'[c].pc = "settle" => callers[c].pc = "settle" /\ callers'[c].cost = callers[c].cost
      PROVE  CostsAreCovered'
  <2>1. Recent' = Recent
    BY <1>5 DEF Recent, Kept
  <2>2. Pending' \subseteq Pending
    BY <1>5 DEF Pending, UnderWay, At
  <2> QED
    BY <1>1, <2>1, <2>2, LessIsCovered
<1>6. ASSUME NEW c \in Callers, Ask(c) PROVE CostsAreCovered'
  <2>1. PICK k \in Kinds, j \in Jobs, i \in Inputs :
          callers' = [callers EXCEPT ![c] = [NotAsking EXCEPT
              !.pc = IF k = "dream" THEN "preview" ELSE "begin", !.kind = k,
              !.job = IF k = "dream" THEN NoJob ELSE j, !.input = i,
              !.n = asked + 1, !.at = hours]]
    BY <1>6 DEF Ask
  <2>2. callers'[c].pc = IF k = "dream" THEN "preview" ELSE "begin"
    BY <1>2, <2>1 DEF NotAsking
  <2>3. \A d \in Callers \ {c} : callers'[d] = callers[d]
    BY <1>2, <2>1
  <2> QED
    BY <1>5, <1>6, <2>2, <2>3 DEF Ask
<1>7. ASSUME NEW c \in Callers, BeginJob(c) \/ Attempt(c) \/ RunOut(c) \/ Mark(c) \/ Expire(c) \/ GiveUp(c)
      PROVE  CostsAreCovered'
  <2>1. callers'[c].pc = "settle" => callers[c].pc = "settle" /\ callers'[c].cost = callers[c].cost
    <3> PICK r : r = callers[c]
      OBVIOUS
    <3>1. r \in CallerRows
      BY <1>2
    <3>2. \/ callers' = [callers EXCEPT ![c] = NotAsking]
          \/ callers' = [callers EXCEPT ![c].pc = "preview"]
          \/ callers' = [callers EXCEPT ![c].left = @ - 1]
          \/ callers' = [callers EXCEPT ![c].late = TRUE]
          \/ \E k \in Costs : callers' = [callers EXCEPT ![c].pc = "charge", ![c].cost = k]
          \/ callers' = [callers EXCEPT ![c].pc = "fail", ![c].left = MaxCalls,
                                       ![c].late = FALSE, ![c].cost = 0]
      BY <1>7 DEF BeginJob, Move, Attempt, NoReply, BadReply, Answered, Fails, RunOut, Mark, Expire, GiveUp
    <3>3. \/ callers'[c] = NotAsking
          \/ callers'[c].pc \in {"preview", "charge", "fail"}
          \/ callers'[c].pc = r.pc /\ callers'[c].cost = r.cost
      BY <1>2, <3>1, <3>2 DEF CallerRows
    <3> QED
      BY <3>3 DEF NotAsking
  <2>2. \A d \in Callers \ {c} : callers'[d] = callers[d]
    BY <1>2, <1>7 DEF BeginJob, Move, Attempt, NoReply, BadReply, Answered, Fails, RunOut, Mark, Expire, GiveUp
  <2> QED
    BY <1>5, <1>7, <2>1, <2>2 DEF BeginJob, Attempt, RunOut, Mark, Expire, GiveUp
<1>8. ASSUME NEW c \in Callers, PreviewRun(c) PROVE CostsAreCovered'
  <2>1. CASE Fails(c) \/ Move(c, "call")
    <3>1. callers'[c].pc # "settle" /\ \A d \in Callers \ {c} : callers'[d] = callers[d]
      <4>1. callers[c] \in CallerRows
        BY <1>2
      <4> QED
        BY <1>2, <2>1, <4>1 DEF Fails, Move, CallerRows
    <3> QED
      BY <1>5, <1>8, <3>1 DEF PreviewRun
  <2>2. CASE ToRecord(c, "plain")
    <3>1. callers[c].cost = 0
      BY <1>8 DEF JobsHold, AnswersAreOne, PreviewRun, At
    <3>2. callers'[c].cost = 0 /\ \A d \in Callers \ {c} : callers'[d] = callers[d]
      BY <1>2, <2>2, <3>1 DEF ToRecord
    <3>3. PICK x : x = [id |-> <<"pending", c>>, cost |-> 0]
      OBVIOUS
    <3>4. Recent' = Recent
      BY <1>8 DEF PreviewRun, Recent, Kept
    <3>5. Pending' \subseteq Pending \cup {x}
      BY <3>2, <3>3 DEF Pending, UnderWay, At
    <3>6. x.cost = 0 /\ (Recent \cup Pending)' \subseteq (Recent \cup Pending) \cup {x}
      BY <3>3, <3>4, <3>5
    <3> QED
      BY <1>1, <3>6, NothingIsCovered
  <2> QED
    BY <1>8, <2>1, <2>2 DEF PreviewRun
<1>9. ASSUME NEW c \in Callers, Charge(c) PROVE CostsAreCovered'
  <2>1. CASE ToRecord(c, "model") /\ UNCHANGED dreamRuns /\ ~OverCeiling(c)
    BY <1>9, <2>1, ChargedIsCovered DEF Charge
  <2>2. CASE dreamRuns' = Inserted(RunRow(BudgetId(c), "error", callers[c].cost, hours)) /\ Fails(c)
    <3>1. Recent' \subseteq Recent
      BY <1>9, <2>2 DEF Charge, Recent, Kept, Inserted, RunRow
    <3>2. callers'[c].pc # "settle" /\ \A d \in Callers \ {c} : callers'[d] = callers[d]
      BY <1>2, <2>2 DEF Fails
    <3>3. Pending' \subseteq Pending
      BY <3>2 DEF Pending, UnderWay, At
    <3> QED
      BY <1>1, <3>1, <3>3, LessIsCovered
  <2> QED
    BY <1>9, <2>1, <2>2 DEF Charge
<1>10. ASSUME NEW c \in Callers, SettleDream(c) PROVE CostsAreCovered'
  <2>1. callers'[c].pc = "idle" /\ \A d \in Callers \ {c} : callers'[d] = callers[d]
    BY <1>2, <1>10 DEF SettleDream, NotAsking
  <2>2. dreamRuns' = Inserted(Audit(c, "ok")) /\ hours' = hours /\ ~At(c, "settle")' /\ callers[c].pc \in {"settle", "fail"}
    BY <1>10, <2>1 DEF SettleDream, At
  <2> QED
    BY <1>1, <2>1, <2>2, SettledIsCovered
<1>11. ASSUME NEW c \in Callers, SettleJob(c) PROVE CostsAreCovered'
  <2>1. PICK s \in {"ok", "ok_with_limits"} :
          dreamRuns' = Inserted(Audit(c, s)) /\ callers' = [callers EXCEPT ![c] = Marks(c, Audit(c, s))]
    BY <1>11 DEF SettleJob
  <2>2. callers[c] \in CallerRows
    BY <1>2
  <2>3. Marks(c, Audit(c, s)).pc = "mark"
    BY <2>2 DEF Marks, CallerRows
  <2>4. callers'[c].pc = "mark" /\ \A d \in Callers \ {c} : callers'[d] = callers[d]
    BY <1>2, <2>1, <2>3
  <2>5. hours' = hours /\ ~At(c, "settle")' /\ callers[c].pc \in {"settle", "fail"}
    BY <1>11, <2>4 DEF SettleJob, At
  <2> QED
    BY <1>1, <2>1, <2>4, <2>5, SettledIsCovered
<1> QED
  BY <1>3, <1>4, <1>6, <1>7, <1>8, <1>9, <1>10, <1>11 DEF JobsNext, JobStep

LEMMA CeilingHolds == JobsHold /\ CostsAreCovered => CeilingIsOvershotOnceEach
<1> SUFFICES ASSUME JobsHold, CostsAreCovered PROVE CeilingIsOvershotOnceEach
  OBVIOUS
<1>1. PICK R, S : R = Recent /\ S = Recent \cup Pending /\ Priced(S) /\ Priced(R)
                  /\ CostOf(S) <= Ceiling + (Cardinality(Callers) - 1) * AtMost
  BY CostsArePriced DEF CostsAreCovered
<1>2. CostOf(R) <= CostOf(S) /\ CostOf(R) \in Nat /\ CostOf(S) \in Nat
  BY <1>1, CostOfPart, CostIsNumber
<1>3. SpentOf(Kept) = CostOf(R)
  BY <1>1 DEF SpentOf, CostOf, Recent
<1>4. Ceiling + (Cardinality(Callers) - 1) * AtMost \in Int
  <2>1. Cardinality(Callers) \in Nat /\ Ceiling \in Nat
    BY DreamJobsAssumption, FS_CardinalityType
  <2> QED
    BY <2>1, OneAnswerIsBounded
<1>5. SpentOf(Kept) <= Ceiling + (Cardinality(Callers) - 1) * AtMost
  BY <1>1, <1>2, <1>3, <1>4
<1> QED
  BY <1>5 DEF CeilingIsOvershotOnceEach, AtMost

LEMMA JobsStayBounded == JobsInit /\ [][JobsNext]_jobVars => []CeilingIsOvershotOnceEach
BY JobsBegin, JobsKeep, CostsBegin, CostsKeep, CeilingHolds, PTL
----------------------------------------------------------------------------
(* Promotions *)

StoredRows == [home: Homes, content: Contents, state: States, supersedes: SUBSET Ids, promoted: BOOLEAN, retired: BOOLEAN]

PromoterRows ==
    [pc: {"none", "observe", "find", "insert", "retire", "note", "end"}, home: Homes, todo: Seq(Observations),
     most: 0 .. MaxTaken, tried: 0 .. MaxTaken, valid: SUBSET Ids, hit: BOOLEAN]

\* The promoted record for which others are about to be retired is there.
Replaces(r) ==
    \E m \in DOMAIN stored : stored[m].promoted /\ stored[m].home = r.home /\ r.valid \subseteq stored[m].supersedes

\* What a promoter may rely on.
PromoterStands(r) ==
    /\ r.tried <= r.most
    /\ r.pc = "end" /\ ~r.hit => r.todo = <<>>
    /\ r.pc \in {"find", "insert", "retire", "note"} => r.todo # <<>>
    /\ r.pc \in {"find", "insert", "retire"} => r.valid \subseteq DOMAIN stored
    /\ r.pc = "retire" => Replaces(r)

\* As long as nobody interferes, what is superseded is out, or about to be taken out.
SupersededIsAwaited ==
    troubles = 0 =>
        \A m \in DOMAIN stored : \A n \in stored[m].supersedes :
            stored[n].home = stored[m].home =>
                \/ stored[n].state # "active"
                \/ \E p \in Promoters : /\ promoters[p].pc = "retire" /\ promoters[p].home = stored[m].home
                                        /\ n \in promoters[p].valid

PreviewStands ==
    /\ previews.to \in Endpoints \cup {Unset} /\ previews.taken \subseteq DOMAIN previews.values
    /\ Cardinality(previews.taken) + previews.refused <= MaxTaken
    /\ previews.hit <=> Cardinality(previews.taken) + previews.refused < Len(previews.values)
    /\ RestsOnWhatWasShown /\ SentWhereItMay

PromotionInv ==
    /\ stored \in Seq(StoredRows) /\ Len(stored) <= MaxRowsStored
    /\ promoters \in [Promoters -> PromoterRows]
    /\ answered \in 0 .. MaxAnswers /\ troubles \in 0 .. MaxTroubles
    /\ \A m \in DOMAIN stored : stored[m].supersedes \subseteq 1 .. m - 1
    /\ \A p \in Promoters : PromoterStands(promoters[p])
    /\ RetiredIsReplaced /\ SupersededIsAwaited /\ PreviewStands

LEMMA NotPromotingStands == NotPromoting \in PromoterRows /\ NotPromoting.pc = "none" /\ PromoterStands(NotPromoting)
<1>1. (CHOOSE h \in Homes : TRUE) \in Homes /\ 0 \in 0 .. MaxTaken /\ <<>> \in Seq(Observations)
  BY PromotionAssumption
<1> QED
  BY <1>1 DEF NotPromoting, PromoterRows, PromoterStands

LEMMA NoPreviewStands ==
    ASSUME previews = NoPreview
    PROVE  PreviewStands
BY PromotionAssumption, FS_EmptySet DEF NoPreview, PreviewStands, RestsOnWhatWasShown, SentWhereItMay

LEMMA PromotionBegins == PromotionInit => PromotionInv
<1> SUFFICES ASSUME PromotionInit PROVE PromotionInv
  OBVIOUS
<1> USE PromotionAssumption
<1> DEFINE First == [home: Homes, content: Contents, state: States, supersedes: {{}}, promoted: {FALSE}, retired: {FALSE}]
<1>1. stored \in Seq(First)
  BY DEF PromotionInit
<1>2. First \subseteq StoredRows
  BY DEF StoredRows
<1>3. \A m \in DOMAIN stored : stored[m].supersedes = {} /\ ~stored[m].retired
  <2>1. \A m \in DOMAIN stored : stored[m] \in First
    <3> HIDE DEF First
    <3> QED
      BY <1>1
  <2> QED
    BY <2>1
<1> HIDE DEF First
<1>4. stored \in Seq(StoredRows)
  BY <1>1, <1>2
<1>5. \A p \in Promoters : promoters[p] = NotPromoting
  BY DEF PromotionInit
<1>6. RetiredIsReplaced /\ SupersededIsAwaited
  BY <1>3 DEF RetiredIsReplaced, SupersededIsAwaited
<1>7. PreviewStands
  BY NoPreviewStands DEF PromotionInit
<1>8. promoters \in [Promoters -> PromoterRows]
  BY NotPromotingStands DEF PromotionInit
<1> QED
  BY <1>3, <1>4, <1>5, <1>6, <1>7, <1>8, NotPromotingStands DEF PromotionInv, PromotionInit

\* A promoter that changes no record.
LEMMA PromotersKeep ==
    ASSUME PromotionInv, NEW p \in Promoters, NEW r \in PromoterRows, To(p, r), stored' = stored,
           previews' = previews \/ previews' = NoPreview, answered' \in 0 .. MaxAnswers,
           troubles' \in 0 .. MaxTroubles, troubles' = 0 => troubles = 0 /\ promoters[p].pc # "retire",
           PromoterStands(r)
    PROVE  PromotionInv'
<1>1. promoters' \in [Promoters -> PromoterRows] /\ promoters'[p] = r
      /\ \A q \in Promoters \ {p} : promoters'[q] = promoters[q]
  BY DEF PromotionInv, To
<1>2. ASSUME NEW q \in Promoters PROVE PromoterStands(promoters[q])'
  <2>1. PromoterStands(promoters'[q])
    BY <1>1 DEF PromotionInv
  <2> QED
    BY <2>1 DEF PromoterStands, Replaces
<1>3. RetiredIsReplaced'
  BY DEF PromotionInv, RetiredIsReplaced
<1>4. SupersededIsAwaited'
  <2>1. SupersededIsAwaited
    BY DEF PromotionInv
  <2> QED
    BY <1>1, <2>1 DEF SupersededIsAwaited
<1>5. PreviewStands'
  <2>1. CASE previews' = previews
    BY <2>1 DEF PromotionInv, PreviewStands, RestsOnWhatWasShown, SentWhereItMay
  <2>2. CASE previews' = NoPreview
    BY <2>2, PromotionAssumption, FS_EmptySet DEF NoPreview, PreviewStands, RestsOnWhatWasShown, SentWhereItMay
  <2> QED
    BY <2>1, <2>2
<1>6. /\ stored' \in Seq(StoredRows) /\ Len(stored') <= MaxRowsStored
      /\ \A m \in DOMAIN stored' : stored'[m].supersedes \subseteq 1 .. m - 1
  BY DEF PromotionInv
<1> QED
  BY <1>1, <1>2, <1>3, <1>4, <1>5, <1>6 DEF PromotionInv

LEMMA TailIsLess ==
    ASSUME NEW S, NEW t \in Seq(S), t # <<>>
    PROVE  Tail(t) \in Seq(S) /\ Head(t) \in S
OBVIOUS

\* The next observation, whatever became of this one.
LEMMA NextStands ==
    ASSUME NEW r \in PromoterRows, r.todo # <<>>, r.tried <= r.most
    PROVE  /\ Next1(r) \in PromoterRows /\ Next1(r).pc = "observe" /\ Next1(r).tried = r.tried
           /\ PromoterStands(Next1(r))
<1>1. Tail(r.todo) \in Seq(Observations)
  BY TailIsLess DEF PromoterRows
<1>2. Next1(r) = [r EXCEPT !.pc = "observe", !.todo = Tail(r.todo)]
  BY DEF Next1, PromoterRows
<1> PICK q : q = Next1(r)
  OBVIOUS
<1>3. q \in PromoterRows /\ q.pc = "observe" /\ q.tried = r.tried /\ q.most = r.most
  BY <1>1, <1>2 DEF PromoterRows
<1>4. PromoterStands(q)
  BY <1>3 DEF PromoterStands
<1> QED
  BY <1>3, <1>4

LEMMA TakeAnswerKeeps ==
    ASSUME PromotionInv, NEW p \in Promoters, TakeAnswer(p)
    PROVE  PromotionInv'
<1>1. PICK h \in Homes, a \in Answers, most \in 0 .. MaxTaken :
          To(p, [NotPromoting EXCEPT !.pc = "observe", !.home = h, !.todo = a, !.most = most])
  BY DEF TakeAnswer
<1> PICK r : r = [NotPromoting EXCEPT !.pc = "observe", !.home = h, !.todo = a, !.most = most]
  OBVIOUS
<1>2. a \in Seq(Observations) /\ most \in Nat
  BY PromotionAssumption
<1>3. r \in PromoterRows /\ r.pc = "observe" /\ r.tried = 0 /\ r.most = most
  BY <1>2, PromotionAssumption, NotPromotingStands DEF NotPromoting, PromoterRows
<1>4. PromoterStands(r)
  BY <1>2, <1>3 DEF PromoterStands
<1>5. answered' \in 0 .. MaxAnswers /\ troubles' = troubles /\ troubles \in 0 .. MaxTroubles
  BY PromotionAssumption DEF TakeAnswer, PromotionInv
<1>6. To(p, r) /\ promoters[p].pc # "retire"
  BY <1>1 DEF TakeAnswer
<1> QED
  BY <1>3, <1>4, <1>5, <1>6, PromotersKeep DEF TakeAnswer

LEMMA ObserveKeeps ==
    ASSUME PromotionInv, NEW p \in Promoters, Observe(p)
    PROVE  PromotionInv'
<1> PICK r, o, q : /\ r = promoters[p] /\ o = Head(r.todo)
                   /\ q = IF ~o.provider THEN Next1(r)
                         ELSE IF r.tried >= r.most THEN [r EXCEPT !.pc = "end", !.hit = TRUE]
                         ELSE IF ~o.ok THEN [Next1(r) EXCEPT !.tried = @ + 1]
                         ELSE [r EXCEPT !.pc = "find", !.tried = @ + 1,
                                        !.valid = {n \in o.retires \cap DOMAIN stored : stored[n].state # "deleted"}]
  OBVIOUS
<1>1. r \in PromoterRows /\ PromoterStands(r) /\ r.pc = "observe" /\ r.todo # <<>> /\ To(p, q)
  BY DEF PromotionInv, Observe
<1>2. r.tried \in 0 .. MaxTaken /\ r.most \in 0 .. MaxTaken /\ MaxTaken \in Nat /\ r.tried <= r.most
  BY <1>1, PromotionAssumption DEF PromoterRows, PromoterStands
<1>3. ASSUME ~(r.tried >= r.most) PROVE r.tried + 1 \in 0 .. MaxTaken /\ r.tried + 1 <= r.most
  <2>1. \A t, u \in 0 .. MaxTaken : ~(t >= u) => t + 1 \in 0 .. MaxTaken /\ t + 1 <= u
    BY <1>2
  <2> QED
    BY <1>2, <1>3, <2>1
<1>4. q \in PromoterRows /\ PromoterStands(q)
  <2>1. CASE q = Next1(r)
    BY <1>1, <1>2, <2>1, NextStands
  <2>2. CASE q = [r EXCEPT !.pc = "end", !.hit = TRUE]
    <3>1. q \in PromoterRows /\ q.pc = "end" /\ q.hit /\ q.tried = r.tried /\ q.most = r.most
      BY <1>1, <2>2 DEF PromoterRows
    <3> QED
      BY <1>2, <3>1 DEF PromoterStands
  <2>3. CASE q = [Next1(r) EXCEPT !.tried = @ + 1] /\ ~(r.tried >= r.most)
    <3>1. Next1(r) \in PromoterRows /\ Next1(r).pc = "observe" /\ Next1(r).tried = r.tried /\ Next1(r).most = r.most
      BY <1>1, <1>2, NextStands DEF Next1, PromoterRows
    <3>2. r.tried + 1 \in 0 .. MaxTaken /\ r.tried + 1 <= r.most
      BY <1>3, <2>3
    <3>3. PICK b, t : b = Next1(r) /\ t = b.tried + 1
      OBVIOUS
    <3>4. q = [b EXCEPT !.tried = t] /\ t = r.tried + 1
      BY <2>3, <3>1, <3>3
    <3>5. b \in PromoterRows /\ t \in 0 .. MaxTaken
      BY <3>1, <3>2, <3>3, <3>4
    <3>6. q \in PromoterRows /\ q.pc = "observe" /\ q.tried = r.tried + 1 /\ q.most = r.most
      BY <3>1, <3>3, <3>4, <3>5 DEF PromoterRows
    <3> QED
      BY <3>2, <3>6 DEF PromoterStands
  <2>4. CASE q = [r EXCEPT !.pc = "find", !.tried = @ + 1,
                                !.valid = {n \in o.retires \cap DOMAIN stored : stored[n].state # "deleted"}]
             /\ ~(r.tried >= r.most)
    <3>1. PICK valid : valid = {n \in o.retires \cap DOMAIN stored : stored[n].state # "deleted"}
      OBVIOUS
    <3>2. valid \subseteq DOMAIN stored /\ DOMAIN stored \subseteq Ids
      BY <3>1, PromotionAssumption DEF PromotionInv, Ids
    <3>3. r.tried + 1 \in 0 .. MaxTaken /\ r.tried + 1 <= r.most
      BY <1>3, <2>4
    <3> PICK t : t = r.tried + 1
      OBVIOUS
    <3>4. q = [r EXCEPT !.pc = "find", !.tried = t, !.valid = valid] /\ valid \in SUBSET Ids /\ t \in 0 .. MaxTaken
      BY <2>4, <3>1, <3>2, <3>3
    <3>5. /\ q \in PromoterRows /\ q.pc = "find" /\ q.tried = r.tried + 1 /\ q.most = r.most
          /\ q.valid = valid /\ q.todo = r.todo
      BY <1>1, <3>4 DEF PromoterRows
    <3> QED
      BY <1>1, <3>2, <3>3, <3>5 DEF PromoterStands
  <2> QED
    BY <2>1, <2>2, <2>3, <2>4
<1> QED
  BY <1>1, <1>4, PromotersKeep DEF Observe, PromotionInv

LEMMA FindContentKeeps ==
    ASSUME PromotionInv, NEW p \in Promoters, FindContent(p)
    PROVE  PromotionInv'
<1> PICK r, q : r = promoters[p] /\ q = Find(r)
  OBVIOUS
<1>1. r \in PromoterRows /\ PromoterStands(r) /\ r.pc = "find" /\ To(p, q)
  BY DEF PromotionInv, FindContent
<1>2. /\ q \in PromoterRows /\ q.pc \in {"note", "insert"} /\ q.valid = r.valid /\ q.todo = r.todo
      /\ q.tried = r.tried /\ q.most = r.most
  BY <1>1 DEF Find, PromoterRows
<1>3. PromoterStands(q)
  BY <1>1, <1>2 DEF PromoterStands
<1> QED
  BY <1>1, <1>2, <1>3, PromotersKeep DEF FindContent, PromotionInv

LEMMA NoteKeeps ==
    ASSUME PromotionInv, NEW p \in Promoters, Note(p)
    PROVE  PromotionInv'
<1>1. promoters[p] \in PromoterRows /\ PromoterStands(promoters[p]) /\ promoters[p].pc = "note"
  BY DEF PromotionInv, Note
<1>2. Next1(promoters[p]) \in PromoterRows /\ PromoterStands(Next1(promoters[p]))
  BY <1>1, NextStands DEF PromoterStands
<1> QED
  BY <1>1, <1>2, PromotersKeep DEF Note, PromotionInv

LEMMA EndAnswerKeeps ==
    ASSUME PromotionInv, NEW p \in Promoters, EndAnswer(p)
    PROVE  PromotionInv'
<1> PICK r, q : r = promoters[p] /\ q = [r EXCEPT !.pc = "end", !.hit = r.tried >= r.most /\ r.most > 0]
  OBVIOUS
<1>1. r \in PromoterRows /\ PromoterStands(r) /\ r.pc = "observe" /\ r.todo = <<>> /\ To(p, q)
  BY DEF PromotionInv, EndAnswer
<1>2. /\ q \in PromoterRows /\ q.pc = "end" /\ q.todo = <<>> /\ q.tried = r.tried /\ q.most = r.most
  <2>1. (r.tried >= r.most /\ r.most > 0) \in BOOLEAN
    OBVIOUS
  <2> QED
    BY <1>1, <2>1 DEF PromoterRows
<1>3. PromoterStands(q)
  BY <1>1, <1>2 DEF PromoterStands
<1> QED
  BY <1>1, <1>2, <1>3, PromotersKeep DEF EndAnswer, PromotionInv

LEMMA CutShortKeeps ==
    ASSUME PromotionInv, NEW p \in Promoters, CutShort(p)
    PROVE  PromotionInv'
<1>1. promoters[p] \in PromoterRows /\ PromoterStands(promoters[p])
      /\ promoters[p].pc \in {"find", "insert", "retire", "note"}
  BY DEF PromotionInv, CutShort
<1>2. Next1(promoters[p]) \in PromoterRows /\ PromoterStands(Next1(promoters[p]))
  BY <1>1, NextStands DEF PromoterStands
<1>3. troubles' \in 0 .. MaxTroubles /\ troubles' # 0
  BY PromotionAssumption DEF CutShort, PromotionInv
<1>4. To(p, Next1(promoters[p])) \/ To(p, NotPromoting)
  BY DEF CutShort
<1> QED
  BY <1>2, <1>3, <1>4, NotPromotingStands, PromotersKeep DEF CutShort, PromotionInv

LEMMA LeaveKeeps ==
    ASSUME PromotionInv, NEW p \in Promoters, Leave(p)
    PROVE  PromotionInv'
BY NotPromotingStands, PromotersKeep DEF Leave, PromotionInv

\* A record is added.
LEMMA InsertContentKeeps ==
    ASSUME PromotionInv, NEW p \in Promoters, InsertContent(p)
    PROVE  PromotionInv'
<1> PICK r, k : r = promoters[p] /\ k = Head(r.todo).content
  OBVIOUS
<1>1. /\ r \in PromoterRows /\ PromoterStands(r) /\ r.pc = "insert" /\ r.todo # <<>> /\ r.valid \subseteq DOMAIN stored
      /\ stored \in Seq(StoredRows) /\ Len(stored) < MaxRowsStored /\ MaxRowsStored \in Nat
      /\ promoters \in [Promoters -> PromoterRows]
      /\ UNCHANGED <<previews, answered, troubles>>
  BY PromotionAssumption DEF PromotionInv, PromoterStands, InsertContent
<1>2. CASE stored' = stored /\ To(p, Next1(r))
  <2>1. Next1(r) \in PromoterRows /\ PromoterStands(Next1(r))
    BY <1>1, NextStands DEF PromoterStands
  <2> QED
    BY <1>1, <1>2, <2>1, PromotersKeep DEF PromotionInv
<1>3. CASE stored' # stored \/ ~To(p, Next1(r))
  <2>1. PICK row, q : /\ row = [home |-> r.home, content |-> k, state |-> "active",
                                supersedes |-> r.valid, promoted |-> TRUE, retired |-> FALSE]
                      /\ q = [r EXCEPT !.pc = IF r.valid = {} THEN "note" ELSE "retire"]
    OBVIOUS
  <2>2. stored' = Append(stored, row) /\ To(p, q)
    BY <1>3, <2>1 DEF InsertContent
  <2>3. k \in Contents
    <3>1. Head(r.todo) \in Observations
      BY <1>1, TailIsLess DEF PromoterRows
    <3> QED
      BY <3>1 DEF Contents
  <2>4. row \in StoredRows
    BY <1>1, <2>1, <2>3 DEF StoredRows, PromoterRows, States
  <2> DEFINE m == Len(stored) + 1
  <2>5. /\ DOMAIN stored = 1 .. Len(stored) /\ Len(stored) \in Nat /\ Len(stored') = m
        /\ stored' \in Seq(StoredRows) /\ DOMAIN stored' = 1 .. m
        /\ stored'[m] = row /\ \A n \in DOMAIN stored : stored'[n] = stored[n]
    BY <1>1, <2>2, <2>4
  <2>6. Len(stored') <= MaxRowsStored
    BY <1>1, <2>5
  <2>7. /\ q \in PromoterRows /\ q.pc = (IF r.valid = {} THEN "note" ELSE "retire") /\ q.valid = r.valid
        /\ q.home = r.home /\ q.todo = r.todo /\ q.tried = r.tried /\ q.most = r.most
    BY <1>1, <2>1 DEF PromoterRows
  <2>8. /\ promoters' \in [Promoters -> PromoterRows] /\ promoters'[p] = q
        /\ \A u \in Promoters \ {p} : promoters'[u] = promoters[u]
    BY <1>1, <2>2, <2>7 DEF To
  <2>9. row.home = r.home /\ row.promoted /\ row.supersedes = r.valid /\ ~row.retired /\ row.state = "active"
    BY <2>1
  <2> HIDE DEF m
  <2>10. DOMAIN stored \subseteq DOMAIN stored' /\ m \in DOMAIN stored' /\ m \notin DOMAIN stored
    BY <2>5 DEF m
  <2>11. \A n \in DOMAIN stored' : stored'[n].supersedes \subseteq 1 .. n - 1
    <3>1. 1 .. m - 1 = DOMAIN stored
      BY <2>5 DEF m
    <3>2. \A n \in DOMAIN stored' : n = m \/ n \in DOMAIN stored
      BY <2>5 DEF m
    <3> QED
      BY <1>1, <2>5, <2>9, <3>1, <3>2 DEF PromotionInv
  <2>12. ASSUME NEW u \in Promoters PROVE PromoterStands(promoters[u])'
    <3>1. CASE u = p
      <4>1. q.tried <= q.most /\ q.todo # <<>> /\ q.valid \subseteq DOMAIN stored'
        BY <1>1, <2>7, <2>10 DEF PromoterStands
      <4>2. stored'[m].promoted /\ stored'[m].home = q.home /\ q.valid \subseteq stored'[m].supersedes
        BY <2>5, <2>7, <2>9
      <4> QED
        BY <2>7, <2>8, <2>10, <3>1, <4>1, <4>2 DEF PromoterStands, Replaces
    <3>2. CASE u # p
      <4>1. PromoterStands(promoters[u]) /\ promoters'[u] = promoters[u]
        BY <2>8, <3>2 DEF PromotionInv
      <4>2. Replaces(promoters[u]) => Replaces(promoters[u])'
        BY <2>5, <2>10, <4>1 DEF Replaces
      <4> QED
        BY <2>10, <4>1, <4>2 DEF PromoterStands
    <3> QED
      BY <3>1, <3>2
  <2>13. RetiredIsReplaced'
    <3>1. RetiredIsReplaced
      BY DEF PromotionInv
    <3>2. \A n \in DOMAIN stored' : stored'[n].retired => n \in DOMAIN stored
      BY <2>5, <2>9 DEF m
    <3> QED
      BY <2>5, <2>10, <3>1, <3>2 DEF RetiredIsReplaced
  <2>14. SupersededIsAwaited'
    <3> SUFFICES ASSUME troubles' = 0, NEW a \in DOMAIN stored', NEW n \in stored'[a].supersedes,
                        stored'[n].home = stored'[a].home
                 PROVE  \/ stored'[n].state # "active"
                        \/ \E u \in Promoters : /\ promoters'[u].pc = "retire" /\ promoters'[u].home = stored'[a].home
                                                /\ n \in promoters'[u].valid
      BY DEF SupersededIsAwaited
    <3>1. CASE a = m
      BY <2>5, <2>7, <2>8, <2>9, <3>1
    <3>2. CASE a \in DOMAIN stored
      <4>1. stored[a].supersedes \subseteq 1 .. a - 1 /\ stored'[a] = stored[a]
        BY <2>5, <3>2 DEF PromotionInv
      <4>2. n \in DOMAIN stored
        BY <2>5, <3>2, <4>1
      <4>3. stored[n] = stored'[n]
        BY <2>5, <4>2
      <4>4. \/ stored[n].state # "active"
            \/ \E u \in Promoters : /\ promoters[u].pc = "retire" /\ promoters[u].home = stored[a].home
                                    /\ n \in promoters[u].valid
        BY <1>1, <3>2, <4>1, <4>3 DEF PromotionInv, SupersededIsAwaited
      <4>5. promoters[p].pc # "retire"
        BY <1>1
      <4> QED
        BY <2>8, <4>1, <4>3, <4>4, <4>5
    <3> QED
      BY <2>5, <3>1, <3>2 DEF m
  <2>15. PreviewStands'
    BY <1>1 DEF PromotionInv, PreviewStands, RestsOnWhatWasShown, SentWhereItMay
  <2> QED
    BY <1>1, <2>5, <2>6, <2>8, <2>11, <2>12, <2>13, <2>14, <2>15 DEF PromotionInv
<1> QED
  BY <1>2, <1>3

\* Records are taken out of recall.
LEMMA ArchiveRetiredKeeps ==
    ASSUME PromotionInv, NEW p \in Promoters, ArchiveRetired(p)
    PROVE  PromotionInv'
<1> PICK r, q : r = promoters[p] /\ q = [r EXCEPT !.pc = "note"]
  OBVIOUS
<1>1. /\ r \in PromoterRows /\ PromoterStands(r) /\ r.pc = "retire" /\ r.todo # <<>> /\ r.valid \subseteq DOMAIN stored
      /\ Replaces(r) /\ To(p, q) /\ UNCHANGED <<previews, answered, troubles>>
  BY DEF PromotionInv, PromoterStands, ArchiveRetired
<1>2. /\ q \in PromoterRows /\ q.pc = "note" /\ q.todo = r.todo /\ q.tried = r.tried /\ q.most = r.most
  BY <1>1 DEF PromoterRows
<1>3. PromoterStands(q)
  BY <1>1, <1>2 DEF PromoterStands
<1>4. /\ promoters' \in [Promoters -> PromoterRows] /\ promoters'[p] = q
      /\ \A u \in Promoters \ {p} : promoters'[u] = promoters[u]
  BY <1>1, <1>2 DEF To, PromotionInv
<1> PICK out : out = Retired(r)
  OBVIOUS
<1>5. \A n : n \in out <=> /\ n \in r.valid /\ n \in DOMAIN stored /\ stored[n].home = r.home
                           /\ stored[n].state = "active"
  BY DEF Retired, InHome
<1>6. stored' = [n \in DOMAIN stored |-> IF n \in out
                         THEN [stored[n] EXCEPT !.state = "archived", !.retired = TRUE] ELSE stored[n]]
  BY DEF ArchiveRetired
<1>7. stored \in Seq(StoredRows) /\ Len(stored) <= MaxRowsStored /\ DOMAIN stored = 1 .. Len(stored)
      /\ Len(stored) \in Nat
  BY DEF PromotionInv
<1>8. ASSUME NEW n \in DOMAIN stored
      PROVE  /\ stored[n] \in StoredRows /\ stored'[n] \in StoredRows
             /\ stored'[n].home = stored[n].home /\ stored'[n].promoted = stored[n].promoted
             /\ stored'[n].supersedes = stored[n].supersedes
             /\ n \in out => stored'[n].state = "archived" /\ stored'[n].retired
             /\ n \notin out => stored'[n] = stored[n]
  <2>1. stored[n] \in StoredRows
    BY <1>7
  <2>2. CASE n \in out
    <3>1. stored'[n] = [stored[n] EXCEPT !.state = "archived", !.retired = TRUE]
      BY <1>6, <2>2
    <3> QED
      BY <2>1, <2>2, <3>1 DEF StoredRows, States
  <2>3. CASE n \notin out
    BY <1>6, <2>1, <2>3
  <2> QED
    BY <2>2, <2>3
<1>9. /\ stored' \in Seq(StoredRows) /\ Len(stored') = Len(stored) /\ DOMAIN stored' = DOMAIN stored
  <2>1. DOMAIN stored' = DOMAIN stored
    BY <1>6
  <2>2. stored' \in [1 .. Len(stored) -> StoredRows]
    BY <1>6, <1>7, <1>8
  <2> QED
    BY <1>7, <2>1, <2>2
<1>10. \A u \in Promoters : PromoterStands(promoters[u])'
  <2> SUFFICES ASSUME NEW u \in Promoters PROVE PromoterStands(promoters[u])'
    OBVIOUS
  <2>1. CASE u = p
    BY <1>2, <1>3, <1>4, <2>1 DEF PromoterStands
  <2>2. CASE u # p
    <3>1. PromoterStands(promoters[u]) /\ promoters'[u] = promoters[u]
      BY <1>4, <2>2 DEF PromotionInv
    <3>2. Replaces(promoters[u]) => Replaces(promoters[u])'
      BY <1>8, <1>9, <3>1 DEF Replaces
    <3> QED
      BY <1>9, <3>1, <3>2 DEF PromoterStands
  <2> QED
    BY <2>1, <2>2
<1>11. \A m \in DOMAIN stored' : stored'[m].supersedes \subseteq 1 .. m - 1
  BY <1>8, <1>9 DEF PromotionInv
<1>12. RetiredIsReplaced'
  <2> SUFFICES ASSUME NEW n \in DOMAIN stored, stored'[n].retired
               PROVE  \E m \in DOMAIN stored' : /\ m > n /\ stored'[m].promoted /\ n \in stored'[m].supersedes
                                                /\ stored'[m].home = stored'[n].home
    BY <1>9 DEF RetiredIsReplaced
  <2>1. CASE n \in out
    <3>1. PICK m \in DOMAIN stored : stored[m].promoted /\ stored[m].home = r.home /\ r.valid \subseteq stored[m].supersedes
      BY <1>1 DEF Replaces
    <3>2. n \in r.valid /\ stored[n].home = r.home
      BY <1>5, <2>1
    <3>3. n \in 1 .. m - 1
      BY <3>1, <3>2 DEF PromotionInv
    <3>4. m \in Int /\ n \in Int /\ m > n
      BY <1>7, <3>3
    <3> QED
      BY <1>8, <1>9, <3>1, <3>2, <3>4
  <2>2. CASE n \notin out
    <3>1. stored[n].retired /\ RetiredIsReplaced
      BY <1>8, <2>2 DEF PromotionInv
    <3>2. PICK m \in DOMAIN stored : /\ m > n /\ stored[m].promoted /\ n \in stored[m].supersedes
                                     /\ stored[m].home = stored[n].home
      BY <3>1 DEF RetiredIsReplaced
    <3> QED
      BY <1>8, <1>9, <3>2
  <2> QED
    BY <2>1, <2>2
<1>13. SupersededIsAwaited'
  <2> SUFFICES ASSUME troubles' = 0, NEW m \in DOMAIN stored, NEW n \in stored[m].supersedes,
                      stored[n].home = stored[m].home, n \in DOMAIN stored
               PROVE  \/ stored'[n].state # "active"
                      \/ \E u \in Promoters : /\ promoters'[u].pc = "retire" /\ promoters'[u].home = stored[m].home
                                              /\ n \in promoters'[u].valid
    <3>1. \A m \in DOMAIN stored : \A n \in stored[m].supersedes : n \in DOMAIN stored
      <4> SUFFICES ASSUME NEW m \in DOMAIN stored, NEW n \in stored[m].supersedes PROVE n \in DOMAIN stored
        OBVIOUS
      <4>1. n \in 1 .. m - 1
        BY DEF PromotionInv
      <4> QED
        BY <1>7, <4>1
    <3> QED
      BY <1>8, <1>9, <3>1 DEF SupersededIsAwaited
  <2>1. \/ stored[n].state # "active"
        \/ \E u \in Promoters : /\ promoters[u].pc = "retire" /\ promoters[u].home = stored[m].home
                                /\ n \in promoters[u].valid
    BY <1>1 DEF PromotionInv, SupersededIsAwaited
  <2>2. CASE n \in out
    <3>1. stored'[n].state = "archived"
      BY <1>8, <2>2
    <3> QED
      BY <3>1
  <2>3. CASE n \notin out /\ stored[n].state # "active"
    BY <1>8, <2>3
  <2>4. CASE n \notin out /\ stored[n].state = "active"
    <3>1. PICK u \in Promoters : /\ promoters[u].pc = "retire" /\ promoters[u].home = stored[m].home
                                 /\ n \in promoters[u].valid
      BY <2>1, <2>4
    <3>2. u # p
      BY <1>5, <2>4, <3>1
    <3>3. promoters'[u] = promoters[u]
      BY <1>4, <3>2
    <3> QED
      BY <3>1, <3>3
  <2> QED
    BY <2>2, <2>3, <2>4
<1>14. PreviewStands'
  BY <1>1 DEF PromotionInv, PreviewStands, RestsOnWhatWasShown, SentWhereItMay
<1> QED
  BY <1>1, <1>4, <1>7, <1>9, <1>10, <1>11, <1>12, <1>13, <1>14 DEF PromotionInv

\* A user interferes.
LEMMA WithdrawKeeps ==
    ASSUME PromotionInv, NEW w \in DOMAIN stored, Withdraw(w)
    PROVE  PromotionInv'
<1>1. PICK s \in {"archived", "deleted"} : stored' = [stored EXCEPT ![w].state = s]
  BY DEF Withdraw
<1>2. troubles' \in 0 .. MaxTroubles /\ troubles' # 0 /\ UNCHANGED <<promoters, previews, answered>>
  BY PromotionAssumption DEF Withdraw, PromotionInv
<1>3. stored \in Seq(StoredRows) /\ DOMAIN stored = 1 .. Len(stored) /\ Len(stored) \in Nat
  BY DEF PromotionInv
<1>4. \A n \in DOMAIN stored : stored[n] \in StoredRows
  BY <1>3
<1>5. PICK row : row = [stored[w] EXCEPT !.state = s]
  OBVIOUS
<1>6. row \in StoredRows /\ row.home = stored[w].home /\ row.promoted = stored[w].promoted
      /\ row.supersedes = stored[w].supersedes /\ row.retired = stored[w].retired
  BY <1>4, <1>5 DEF StoredRows, States
<1>7. stored' = [stored EXCEPT ![w] = row]
  BY <1>1, <1>5
<1>8. stored' \in Seq(StoredRows) /\ Len(stored') = Len(stored) /\ DOMAIN stored' = DOMAIN stored
  BY <1>3, <1>6, <1>7
<1>9. \A n \in DOMAIN stored : /\ stored'[n].home = stored[n].home /\ stored'[n].promoted = stored[n].promoted
                               /\ stored'[n].supersedes = stored[n].supersedes
                               /\ stored'[n].retired = stored[n].retired
  BY <1>3, <1>6, <1>7
<1>10. \A u \in Promoters : PromoterStands(promoters[u])'
  <2> SUFFICES ASSUME NEW u \in Promoters PROVE PromoterStands(promoters[u])'
    OBVIOUS
  <2>1. PromoterStands(promoters[u]) /\ promoters'[u] = promoters[u]
    BY <1>2 DEF PromotionInv
  <2>2. Replaces(promoters[u]) => Replaces(promoters[u])'
    BY <1>8, <1>9, <2>1 DEF Replaces
  <2> QED
    BY <1>8, <2>1, <2>2 DEF PromoterStands
<1>11. \A m \in DOMAIN stored' : stored'[m].supersedes \subseteq 1 .. m - 1
  BY <1>8, <1>9 DEF PromotionInv
<1>12. RetiredIsReplaced'
  <2> SUFFICES ASSUME NEW n \in DOMAIN stored, stored[n].retired
               PROVE  \E m \in DOMAIN stored' : /\ m > n /\ stored'[m].promoted /\ n \in stored'[m].supersedes
                                                /\ stored'[m].home = stored'[n].home
    BY <1>8, <1>9 DEF RetiredIsReplaced
  <2>1. PICK m \in DOMAIN stored : /\ m > n /\ stored[m].promoted /\ n \in stored[m].supersedes
                                   /\ stored[m].home = stored[n].home
    BY DEF PromotionInv, RetiredIsReplaced
  <2> QED
    BY <1>8, <1>9, <2>1
<1>13. SupersededIsAwaited' /\ PreviewStands'
  BY <1>2 DEF PromotionInv, SupersededIsAwaited, PreviewStands, RestsOnWhatWasShown, SentWhereItMay
<1> QED
  BY <1>2, <1>8, <1>10, <1>11, <1>12, <1>13 DEF PromotionInv

\* What is taken from an answer, and what is refused, is as much as there is room for.
LEMMA AppendedFits ==
    ASSUME NEW values \in Seq(Observations), NEW window, NEW room \in Nat
    PROVE  LET got == Appended(values, window, room)
           IN  /\ got.taken \subseteq DOMAIN values
               /\ \A i \in got.taken : IsCandidate(values[i], window)
               /\ got.refused \in Int /\ Cardinality(got.taken) + got.refused <= room
               /\ got.hit <=> Cardinality(got.taken) + got.refused < Len(values)
<1>1. PICK count : count = (IF Len(values) < room THEN Len(values) ELSE room)
  OBVIOUS
<1>2. Len(values) \in Nat /\ DOMAIN values = 1 .. Len(values)
  OBVIOUS
<1>3. count \in Int /\ count <= Len(values) /\ count <= room
  <2>1. \A a, b \in Nat : LET c == IF a < b THEN a ELSE b IN c \in Int /\ c <= a /\ c <= b
    OBVIOUS
  <2> QED
    BY <1>1, <1>2, <2>1
<1>4. 1 .. count \subseteq DOMAIN values
  BY <1>2, <1>3
<1>5. IsFiniteSet(1 .. count)
  BY <1>3, FS_Interval
<1>6. PICK taken : taken = {i \in 1 .. count : IsCandidate(values[i], window)}
  OBVIOUS
<1>7. taken \subseteq 1 .. count /\ \A i \in taken : IsCandidate(values[i], window)
  BY <1>6
<1>8. PICK n : n = Cardinality(taken)
  OBVIOUS
<1>9. n \in Nat
  <2>1. IsFiniteSet(taken)
    BY <1>5, <1>7, FS_Subset
  <2> QED
    BY <1>8, <2>1, FS_CardinalityType
<1> PICK got : got = Appended(values, window, room)
  OBVIOUS
<1>10. got = [taken |-> taken, refused |-> count - n, hit |-> count < Len(values)]
  BY <1>1, <1>6, <1>8 DEF Appended
<1>11. got.taken = taken /\ got.refused = count - n /\ got.hit = (count < Len(values))
  BY <1>10
<1>12. n + (count - n) = count /\ count - n \in Int
  BY <1>3, <1>9
<1>13. got.taken \subseteq DOMAIN values /\ \A i \in got.taken : IsCandidate(values[i], window)
  BY <1>4, <1>7, <1>11
<1>14. Cardinality(got.taken) + got.refused = count
  BY <1>8, <1>11, <1>12
<1> QED
  BY <1>2, <1>3, <1>11, <1>12, <1>13, <1>14

\* A preview asks where it may, and takes what rests on what was asked about.
LEMMA PreviewAnswerKeeps ==
    ASSUME PromotionInv, NEW h \in Homes, NEW job \in Requested, NEW conf \in Configured, NEW values \in Answers,
           PreviewAnswer(h, job, conf, values)
    PROVE  PromotionInv'
<1>1. /\ answered' \in 0 .. MaxAnswers /\ stored' = stored /\ promoters' = promoters /\ troubles' = troubles
  BY PromotionAssumption DEF PreviewAnswer, PromotionInv
<1>2. PreviewStands'
  <2>1. CASE ~Resolved(job, conf)
    <3>1. previews' = NoPreview
      BY <2>1 DEF PreviewAnswer
    <3> QED
      BY <3>1, PromotionAssumption, FS_EmptySet DEF NoPreview, PreviewStands, RestsOnWhatWasShown, SentWhereItMay
  <2>2. CASE Resolved(job, conf)
    <3> PICK got, window, to, key : /\ got = Appended(values, window, MaxTaken) /\ window = InHome(h)
                                    /\ to = (IF job.adapter = "command" THEN Unset ELSE EndpointOf(job, conf))
                                    /\ key = (job.adapter # "command" /\ KeyFor(job, conf))
      OBVIOUS
    <3>1. previews' = [sent |-> TRUE, to |-> to, key |-> key, by |-> job.adapter, conf |-> conf.endpoint,
                       window |-> window, values |-> values,
                       taken |-> got.taken, refused |-> got.refused, hit |-> got.hit]
      BY <2>2 DEF PreviewAnswer
    <3>2. values \in Seq(Observations) /\ MaxTaken \in Nat
      BY PromotionAssumption
    <3>3. /\ got.taken \subseteq DOMAIN values /\ \A i \in got.taken : IsCandidate(values[i], window)
          /\ Cardinality(got.taken) + got.refused <= MaxTaken
          /\ got.hit <=> Cardinality(got.taken) + got.refused < Len(values)
      BY <3>2, AppendedFits
    <3>4. to \in Endpoints \cup {Unset} /\ (key => to = conf.endpoint)
      BY PromotionAssumption DEF EndpointOf, KeyFor
    <3>5. job.adapter # "command" => to \in OnHttps \cup OnThisHost
      <4>1. job.adapter \in {"deterministic", "command", "local-model", "provider"}
        BY PromotionAssumption
      <4> QED
        BY <2>2, <4>1 DEF Resolved, MaySend
    <3>6. RestsOnWhatWasShown'
      <4>1. \A i \in got.taken : /\ values[i].evidence # {} /\ values[i].evidence \subseteq window
                                 /\ values[i].retires \subseteq values[i].evidence
        BY <3>3 DEF IsCandidate
      <4> QED
        BY <3>1, <4>1 DEF RestsOnWhatWasShown
    <3> PICK pv : pv = previews'
      OBVIOUS
    <3>7. /\ pv.to = to /\ pv.by = job.adapter /\ pv.conf = conf.endpoint /\ pv.values = values
          /\ pv.taken = got.taken /\ pv.refused = got.refused
      BY <3>1
    <3>8. (pv.key <=> key) /\ (pv.hit <=> got.hit)
      <4>1. pv.key = key /\ pv.hit = got.hit
        BY <3>1
      <4> QED
        BY <4>1, Zenon
    <3>9. SentWhereItMay'
      <4>1. pv.key => pv.to = pv.conf
        BY <3>4, <3>7, <3>8
      <4>2. pv.by # "command" => pv.to \in OnHttps \cup OnThisHost
        BY <3>5, <3>7
      <4> QED
        BY <4>1, <4>2 DEF SentWhereItMay
    <3>10. pv.hit <=> Cardinality(pv.taken) + pv.refused < Len(pv.values)
      BY <3>3, <3>7, <3>8
    <3>11. /\ pv.to \in Endpoints \cup {Unset} /\ pv.taken \subseteq DOMAIN pv.values
           /\ Cardinality(pv.taken) + pv.refused <= MaxTaken
      BY <3>3, <3>4, <3>7
    <3> QED
      BY <3>6, <3>9, <3>10, <3>11 DEF PreviewStands
  <2> QED
    BY <2>1, <2>2
<1>3. (\A p \in Promoters : PromoterStands(promoters[p]))'
  BY <1>1 DEF PromotionInv, PromoterStands, Replaces
<1>4. RetiredIsReplaced' /\ SupersededIsAwaited'
  BY <1>1 DEF PromotionInv, RetiredIsReplaced, SupersededIsAwaited
<1> QED
  BY <1>1, <1>2, <1>3, <1>4 DEF PromotionInv

LEMMA PromotionKeeps ==
    ASSUME PromotionInv, [PromotionNext]_promotionVars
    PROVE  PromotionInv'
<1>1. CASE \E h \in Homes, job \in Requested, conf \in Configured, values \in Answers :
               PreviewAnswer(h, job, conf, values)
  BY <1>1, PreviewAnswerKeeps
<1>2. CASE \E p \in Promoters : \/ TakeAnswer(p) \/ Observe(p) \/ FindContent(p) \/ InsertContent(p)
                                \/ ArchiveRetired(p) \/ Note(p) \/ EndAnswer(p) \/ CutShort(p) \/ Leave(p)
  BY <1>2, TakeAnswerKeeps, ObserveKeeps, FindContentKeeps, InsertContentKeeps, ArchiveRetiredKeeps, NoteKeeps,
     EndAnswerKeeps, CutShortKeeps, LeaveKeeps
<1>3. CASE \E n \in DOMAIN stored : Withdraw(n)
  BY <1>3, WithdrawKeeps
<1>4. CASE UNCHANGED promotionVars
  <2>1. (\A p \in Promoters : PromoterStands(promoters[p]))'
    BY <1>4 DEF promotionVars, PromotionInv, PromoterStands, Replaces
  <2> QED
    BY <1>4, <2>1 DEF promotionVars, PromotionInv, RetiredIsReplaced, SupersededIsAwaited, PreviewStands,
        RestsOnWhatWasShown, SentWhereItMay
<1> QED
  BY <1>1, <1>2, <1>3, <1>4 DEF PromotionNext

LEMMA PromotionInvSuffices ==
    ASSUME PromotionInv
    PROVE  PromotionTypeOK /\ PromotionsHold
<1>1. PromotionTypeOK
  <2>1. stored \in Seq(StoredRows) /\ Len(stored) \in Nat /\ \A n \in DOMAIN stored : stored[n] \in StoredRows
    BY DEF PromotionInv
  <2>2. \A n \in DOMAIN stored :
          /\ stored[n].home \in Homes /\ stored[n].state \in States
          /\ stored[n].supersedes \subseteq Ids /\ stored[n].promoted \in BOOLEAN
    BY <2>1 DEF StoredRows
  <2>3. ASSUME NEW p \in Promoters
        PROVE  /\ promoters[p].pc \in {"none", "observe", "find", "insert", "retire", "note", "end"}
               /\ ToSet(promoters[p].todo) \subseteq Observations /\ promoters[p].valid \subseteq Ids
               /\ promoters[p].tried \in 0 .. MaxTaken /\ promoters[p].home \in Homes
    <3>1. promoters[p] \in PromoterRows
      BY DEF PromotionInv
    <3>2. ToSet(promoters[p].todo) \subseteq Observations
      BY <3>1 DEF ToSet, PromoterRows
    <3> QED
      BY <3>1, <3>2 DEF PromoterRows
  <2>4. Len(stored) \in 0 .. MaxRowsStored
    BY <2>1, PromotionAssumption DEF PromotionInv
  <2> QED
    BY <2>2, <2>3, <2>4 DEF PromotionInv, PreviewStands, PromotionTypeOK
<1>2. SupersededIsOut
  BY DEF PromotionInv, SupersededIsAwaited, SupersededIsOut
<1>3. LimitIsTold
  BY DEF PromotionInv, PromoterStands, PreviewStands, LimitIsTold
<1> QED
  BY <1>1, <1>2, <1>3 DEF PromotionInv, PreviewStands, PromotionsHold

LEMMA PromotionsStand == PromotionSpec => [](PromotionTypeOK /\ PromotionsHold)
<1>1. PromotionInv /\ [PromotionNext]_promotionVars => PromotionInv'
  BY PromotionKeeps
<1>2. PromotionInv => PromotionTypeOK /\ PromotionsHold
  BY PromotionInvSuffices
<1> QED
  BY PromotionBegins, <1>1, <1>2, PTL DEF PromotionSpec
----------------------------------------------------------------------------
(* Together *)

\* A behaviour of the dreams is one of each of its parts.
LEMMA DreamsAreTheirParts ==
    DreamsSpec => /\ TicksInit /\ [][TicksNext]_tickVars
                  /\ JobsInit /\ [][JobsNext]_jobVars
                  /\ PromotionInit /\ [][PromotionNext]_promotionVars
<1>1. DreamsInit => TicksInit /\ JobsInit /\ PromotionInit
  BY DEF DreamsInit
<1>2. [DreamsNext]_<<part, vars, jobVars, tickVars, promotionVars>> =>
          [TicksNext]_tickVars /\ [JobsNext]_jobVars /\ [PromotionNext]_promotionVars
  BY DEF DreamsNext
<1> QED
  BY <1>1, <1>2, PTL DEF DreamsSpec

\* The cursor that record_dream_run saves passes no candidate that was never adopted, however ticks
\* fail, are limited or overlap, batches are undone and claims are forgotten; and with a command
\* provider no row that was neither sent nor too long (scheduled_dream in src/src/service.rs).
THEOREM CursorPassesWhatWasHandled == DreamsSpec => []CoveredWasHandled
BY DreamsAreTheirParts, TicksStayHandled, PTL

\* A claim comes back only with a batch that was not undone before (apply_consolidation_proposal).
THEOREM UndoneBatchesStayUndone == DreamsSpec => UndoneIsNotReplayed
BY DreamsAreTheirParts, UndoneStaysUndone, PTL

\* Runs and their inputs, jobs and their budget rows, ticks, proposals, cursors, promoted records and
\* what a preview shows have the types their tables declare, a run id names one run, and the cursor
\* stays within the evidence (insert_dream_run and record_dream_run in src/src/store.rs).
THEOREM DreamsAreTyped == DreamsSpec => []DreamsTypeOK
<1>1. TicksTypeOK /\ JobsTypeOK /\ PromotionTypeOK => DreamsTypeOK
  BY DEF DreamsTypeOK
<1> QED
  BY <1>1, DreamsAreTheirParts, TicksStayHandled, JobsStayTyped, PromotionsStand, PTL DEF PromotionSpec

\* What a day's answers cost exceeds daily_cost_ceiling_micros by one answer for each caller but one at
\* most, as an answer's cost is held against what is on record and goes on record later
\* (augment_model_dream_preview in src/src/service.rs); and a promotion takes a record out of recall only for one of its home that replaces it, a candidate
\* rests on what the model was shown, and no key or evidence goes where it may not
\* (promote_provider_observations, provider_candidate_from_value, resolve_dream_provider).
THEOREM AnswersStayBounded == DreamsSpec => []AnswersAreBounded
<1>1. CeilingIsOvershotOnceEach /\ PromotionsHold => AnswersAreBounded
  BY DEF AnswersAreBounded
<1> QED
  BY <1>1, DreamsAreTheirParts, JobsStayBounded, PromotionsStand, PTL DEF PromotionSpec

\* What a call cost is on record for good, also when the answer was refused for it: no row of a
\* budget error is ever overwritten by one of another run (insert_dream_run in src/src/store.rs).
THEOREM RefusedCostsAreKept == DreamsSpec => RefusedCostsStay
BY DreamsAreTheirParts, JobsStayTyped, PTL
=============================================================================
