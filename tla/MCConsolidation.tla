-------------------------- MODULE MCConsolidation --------------------------
(* Instances of Consolidation for TLC, and the properties the runs check.  *)
EXTENDS ConsolidationProperties, TLC

CONSTANTS r1, r2, n1, n2, c1, c2, c3, c4, s1, s2

MCSeed == (r1 :> [claim |-> c1, sources |-> {s1}]) @@ (r2 :> [claim |-> c2, sources |-> {s2}])
MCOne  == r1 :> [claim |-> c1, sources |-> {s1}]

Say(c, S, T) == [adopt |-> TRUE, claim |-> c, sources |-> S, supersedes |-> T,
                 temporal |-> "unset"]

\* A new claim replaces a stored row, and the row's own claim comes back over the
\* new one: each proposal's target is the other's adopted row.
Forth == <<Say(c3, {s2}, {r1})>>
Back  == <<Say(c1, {s2}, {n1})>>
MCChain == {Forth, Back}

\* One claim replaces two rows.
MCPair == {<<Say(c3, {s2}, {r1, r2})>>, <<Say(c4, {s1}, {n1})>>}

\* Batches of two decisions: the second supersedes the row the first adopts, or is
\* about another row and stated as historical, or follows one that is not adopted.
MCTwo == {<<Say(c1, {s2}, {}), Say(c3, {s2}, {r1})>>,
          <<Say(c3, {s1}, {r1}), [Say(c4, {s2}, {r2}) EXCEPT !.temporal = "historical"]>>,
          <<[Say(c2, {s1}, {}) EXCEPT !.adopt = FALSE], Say(c1, {s2}, {r2})>>}

MCBatches == MCPair \cup MCTwo \cup MCChain

MCForth == {Forth}

\* Every claim is its own normal form; or c4 is c3 in lower case.
MCPlain == [c \in Claims |-> c]
MCCased == [c \in Claims |-> IF c = c3 THEN c4 ELSE c]
=============================================================================
