------------------------------ MODULE Decision ------------------------------
(***************************************************************************)
(* How a council audit's verdict follows from its ledger: which findings   *)
(* need validation (validation.mjs), how findings merge into canonical     *)
(* ones (dedupe.mjs), what the merged findings and the coverage gates      *)
(* allow as a verdict (scoring.mjs), and which remediation plan the ledger *)
(* accepts (remediation.mjs, findingLedger.mjs). Operators on values only. *)
(***************************************************************************)
EXTENDS BehaviorGraph

CONSTANTS
    SeverityOf,     \* the severity it is reported with
    SignatureOf,    \* its behaviour signature
    Floor           \* the audit's validationMinSeverity

\* Two of the five severities: "severe" stands for high and critical.
Severities == {"minor", "severe"}

ASSUME FindingsAssumption ==
    /\ SeverityOf \in [Findings -> Severities]
    /\ Floor \in Severities

States == {"candidate", "validating", "validated", "refuted", "unresolved"}
Entries == [state: States, severity: Severities]
Ledgers == [Candidates -> Entries \cup {None}]
Verdicts == {"clean", "minor", "severe", "incomplete"}

ASSUME NoneEntryAssumption == None \notin Entries /\ None \notin Verdicts

Recorded(ledger) == {c \in Candidates : ledger[c] # None}
Cites(c, ix) == \A p \in CitedBy(c[1]) : Indexed(ix, p, c[2][p])

\* findingRequiresValidation
RequiresValidation(entry) ==
    entry.severity = "severe" \/ Floor = "minor"

Required(ledger) == {c \in Recorded(ledger) : RequiresValidation(ledger[c])}

\* validateAdjudicationSubmission: the ruling two opposite reviews admit, besides
\* "unresolved", which is always admitted.
Permitted(confirm, refute) ==
    IF confirm = "confirmed" /\ refute \in {"not-refuted", "unresolved"} THEN "validated"
    ELSE IF confirm \in {"not-confirmed", "unresolved"} /\ refute = "refuted" THEN "refuted"
    ELSE "unresolved"

-----------------------------------------------------------------------------
(* dedupe.mjs *)

StateClass(entry) ==
    IF entry.state \in {"validated", "refuted"} THEN entry.state ELSE "unresolved"

\* canonicalGroup: findings of one signature and state class are one finding. The code's
\* signature has the neighbourhood of the finding in the traced chains as well: here a
\* finding has one signature, whatever was drawn around it, and no property tells the
\* groups of two signatures from those of one.
GroupOf(ledger, c) ==
    {d \in Recorded(ledger) : /\ SignatureOf[d[1]] = SignatureOf[c[1]]
                              /\ StateClass(ledger[d]) = StateClass(ledger[c])}

Groups(ledger) == {GroupOf(ledger, c) : c \in Recorded(ledger)}
ClassOf(ledger, g) == StateClass(ledger[CHOOSE c \in g : TRUE])
Active(ledger) == {g \in Groups(ledger) : ClassOf(ledger, g) # "refuted"}

(* scoring.mjs: chain holds the candidates whose ruling cites a complete chain. *)

\* scoreFinding: trustedValidatedChain, of the group as soon as one alias has it.
Trusted(ledger, chain, g) == ClassOf(ledger, g) = "validated" /\ g \cap chain # {}

SeverityOfGroup(ledger, g) ==
    IF \E c \in g : ledger[c].severity = "severe" THEN "severe" ELSE "minor"

\* Mutant: a severity verdict as soon as one finding is trusted.
RecommendedVerdict_AnyTrusted(ledger, chain, covered) ==
    IF ~covered THEN "incomplete"
    ELSE IF Active(ledger) = {} THEN "clean"
    ELSE IF \E g \in Active(ledger) : Trusted(ledger, chain, g) THEN "severe"
    ELSE "incomplete"

\* buildTrustedDecisionSnapshot: recommendedVerdict
RecommendedVerdict(ledger, chain, covered) ==
    IF ~covered THEN "incomplete"
    ELSE IF Active(ledger) = {} THEN "clean"
    ELSE IF \A g \in Active(ledger) : Trusted(ledger, chain, g)
         THEN IF \E g \in Active(ledger) : SeverityOfGroup(ledger, g) = "severe"
              THEN "severe" ELSE "minor"
    ELSE "incomplete"

\* setRemediationPlan accepts guidance for findings in state "unresolved" only, and
\* generateRemediationPlan has guidance for every group of that state class.
RemediationAccepted(ledger) ==
    \A c \in Recorded(ledger) :
        StateClass(ledger[c]) = "unresolved" => ledger[c].state = "unresolved"

=============================================================================
