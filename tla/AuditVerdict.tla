---------------------------- MODULE AuditVerdict ----------------------------
(***************************************************************************)
(* What a council audit promises, whatever its stages, indexes and         *)
(* reviews: findings are collected, then frozen, then ruled upon, each     *)
(* once; one verdict is taken, which the rulings support; one report is    *)
(* published, which states that verdict or none.                           *)
(***************************************************************************)
CONSTANTS None, Candidates

VARIABLES
    collected,  \* candidates recorded
    frozen,     \* no more are
    ruling,     \* of a candidate
    verdict,
    published

vars == <<collected, frozen, ruling, verdict, published>>

Rulings == {"validated", "refuted", "unresolved"}
Verdicts == {"clean", "minor", "severe", "incomplete"}

\* The rulings support a verdict: "clean" when every candidate is refuted, a
\* severity when every one is settled and one of them stands.
Supports(v) ==
    \/ v = "incomplete"
    \/ v = "clean" /\ \A c \in collected : ruling[c] = "refuted"
    \/ /\ v \in {"minor", "severe"}
       /\ \A c \in collected : ruling[c] \in {"validated", "refuted"}
       /\ \E c \in collected : ruling[c] = "validated"

Init ==
    /\ collected = {}
    /\ frozen = FALSE
    /\ ruling = [c \in Candidates |-> None]
    /\ verdict = None
    /\ published = None

Collect ==
    /\ ~frozen
    /\ \E C \in SUBSET Candidates : collected' = collected \cup C
    /\ UNCHANGED <<frozen, ruling, verdict, published>>

Freeze ==
    /\ ~frozen
    /\ frozen' = TRUE
    /\ UNCHANGED <<collected, ruling, verdict, published>>

Rule(c) ==
    /\ frozen /\ verdict = None
    /\ c \in collected /\ ruling[c] = None
    /\ \E r \in Rulings : ruling' = [ruling EXCEPT ![c] = r]
    /\ UNCHANGED <<collected, frozen, verdict, published>>

Decide ==
    /\ frozen /\ verdict = None
    /\ \E v \in Verdicts : Supports(v) /\ verdict' = v
    /\ UNCHANGED <<collected, frozen, ruling, published>>

Publish ==
    /\ published = None
    /\ published' \in {"incomplete"} \cup ({verdict} \ {None})
    /\ UNCHANGED <<collected, frozen, ruling, verdict>>

Next == Collect \/ Freeze \/ (\E c \in Candidates : Rule(c)) \/ Decide \/ Publish

Spec == Init /\ [][Next]_vars

=============================================================================
