--------------------------- MODULE ProposalLedger ---------------------------
(***************************************************************************)
(* What the consolidation_proposals table promises whoever reads it:       *)
(* a proposal keeps the payload and decisions it was submitted with, two   *)
(* proposals never carry the same payload, and each is adopted at most     *)
(* once, taken back only after it was adopted, and dead once rejected.     *)
(***************************************************************************)
CONSTANTS Batches, Payloads, NoPayload

VARIABLE ledger

Row(s, p) == [status |-> s, payload |-> p]

Init == ledger = [b \in Batches |-> Row("absent", NoPayload)]

Submit(b, p) ==
    /\ ledger[b].status = "absent"
    /\ \A c \in Batches : ledger[c].payload # p
    /\ ledger' = [ledger EXCEPT ![b] = Row("validated", p)]

Adopt(b) ==
    /\ ledger[b].status = "validated"
    /\ ledger' = [ledger EXCEPT ![b].status = "applied"]

TakeBack(b) ==
    /\ ledger[b].status = "applied"
    /\ ledger' = [ledger EXCEPT ![b].status = "reverted"]

Reject(B) ==
    /\ \A b \in B : ledger[b].status \in {"validated", "applied", "rejected"}
    /\ ledger' = [b \in Batches |-> IF b \in B THEN [ledger[b] EXCEPT !.status = "rejected"]
                                    ELSE ledger[b]]

Next ==
    \/ \E b \in Batches, p \in Payloads : Submit(b, p)
    \/ \E b \in Batches : Adopt(b) \/ TakeBack(b)
    \/ \E B \in SUBSET Batches : Reject(B)

Spec == Init /\ [][Next]_ledger
=============================================================================
