-------------------------- MODULE AuditSessionProofs --------------------------
(* What AuditSession promises, for any number of sessions, commits and audits, *)
(* with every fault allowed.                                                   *)
EXTENDS AuditSession, TLAPS

-----------------------------------------------------------------------------
(* The inductive invariant.  It speaks of one session at a time: its audit a, *)
(* its handler h and what it keeps, k.                                        *)

\* The handler at work and the audit it works for agree.
Consistent(a, h) ==
    /\ a.clonePath \in {None, a.commit}
    /\ a.stage # "acquired" => a.commit # None
    /\ a.record # None => a.record.commit = a.commit
    /\ h.step \in Publishing \cup {"stage", "seal", "host"} => h.commit = a.commit
    /\ h.step \in Publishing \cup {"stage", "seal"} \cup Cloning => h.commit \in Commits
    /\ h.step \in Publishing =>
         /\ a.record = None
         /\ h.flow \in Flows
         /\ h.flow # "other" => a.stage = "validated"
         /\ a.stage # "finalized"
    /\ h.step \in {"stage", "seal"} => a.record # None /\ a.record.flow = h.flow
    /\ h.step = "stage" => h.flow # "other"
    /\ h.step = "seal" /\ h.flow # "other" => a.stage = "finalized"
    /\ a.record # None /\ a.record.sealed /\ a.record.flow # "other" => a.stage = "finalized"
    /\ a.stage = "finalized" => a.record # None /\ a.record.flow # "other"

SessionOK(a, h, k) ==
    /\ a \in Audits \cup {None}
    /\ h \in Handlers
    /\ k \in [Stores -> Ids \cup {None}]
    /\ h.step # "idle" => a \in Audits
    /\ \A store \in Stores : k[store] # None => a \in Audits /\ a.id = k[store]
    /\ a \in Audits => Consistent(a, h)

SessionsOK == \A s \in Sessions : SessionOK(audit[s], handler[s], kept[s])

\* What is not a session's own.
DiskOK ==
    /\ expired \subseteq Sessions
    /\ nextId \in 1..(MaxAudits + 1)
    /\ clones \in [Commits -> Clones]
    /\ findings \in [Commits -> Ids \cup {None}]
    /\ report \in [Commits -> Ids \cup {None}]
    /\ temps \subseteq Sessions
    /\ settled \subseteq Ids

IInv == TypeOK /\ SessionsOK

\* A step that changes no other session's memory.
OnlyOf(s) ==
    /\ audit' = [audit EXCEPT ![s] = audit'[s]]
    /\ handler' = [handler EXCEPT ![s] = handler'[s]]
    /\ kept' = [kept EXCEPT ![s] = kept'[s]]

-----------------------------------------------------------------------------
(* A step of a session keeps the invariant when it keeps it for the session. *)

\* A step of one session that keeps what is said of it and of the disk keeps the invariant.
LEMMA OneSession ==
    ASSUME IInv, NEW s \in Sessions, OnlyOf(s), DiskOK',
           SessionOK(audit'[s], handler'[s], kept'[s])
    PROVE  IInv'
<1>1. \A t \in Sessions :
        \/ t = s
        \/ audit'[t] = audit[t] /\ handler'[t] = handler[t] /\ kept'[t] = kept[t]
  BY DEF IInv, TypeOK, OnlyOf
<1>2. SessionsOK'
  BY <1>1 DEF IInv, SessionsOK
<1>3. /\ audit'[s] \in Audits \cup {None} /\ handler'[s] \in Handlers
      /\ kept'[s] \in [Stores -> Ids \cup {None}]
  BY DEF SessionOK
<1>4. TypeOK'
  BY <1>3 DEF IInv, TypeOK, DiskOK, OnlyOf
<1> QED BY <1>2, <1>4 DEF IInv

\* A session that is not idle works for an audit, and for the one it began with.
LEMMA InOrder ==
    ASSUME IInv, NEW s \in Sessions
    PROVE  /\ SessionOK(audit[s], handler[s], kept[s]) /\ handler[s] \in Handlers
           /\ audit[s] # None => audit[s] \in Audits /\ Consistent(audit[s], handler[s])
           /\ handler[s].step # "idle" =>
                audit[s] \in Audits /\ audit[s] # None /\ Consistent(audit[s], handler[s])
  BY NoneAssumption DEF IInv, SessionsOK, SessionOK

-----------------------------------------------------------------------------
(* The values that handlers write.                                           *)

\* What a removal leaves of a clone is a clone.
LEMMA RemainsType ==
    ASSUME NEW clone \in Clones PROVE Remains(clone) \subseteq Clones
<1>1. NoClone \in Clones
  BY DEF NoClone, Clones
<1>2. [clone EXCEPT !.state = "partial"] \in Clones
  BY DEF Clones
<1> QED BY <1>1, <1>2 DEF Remains

\* A handler that returns leaves its session in order.
LEMMA Returned ==
    ASSUME NEW a, NEW h, NEW k, SessionOK(a, h, k)
    PROVE  SessionOK(a, Idling, k)
<1>1. Idling.step = "idle" /\ Idling \in Handlers
  BY DEF Idling, Handlers, Steps
<1>2. a \in Audits => Consistent(a, Idling)
  BY <1>1 DEF SessionOK, Consistent, Publishing, Cloning
<1> QED BY <1>1, <1>2 DEF SessionOK

\* So does an audit that goes, with what was kept beside it.
LEMMA Gone ==
    ASSUME NEW h \in Handlers, h.step = "idle"
    PROVE  SessionOK(None, h, NothingKept)
<1>1. None \notin Audits
  BY NoneAssumption
<1> QED BY <1>1 DEF SessionOK, NothingKept

\* A new audit starts in order, with nothing kept.
LEMMA Activated ==
    ASSUME NEW mode \in Modes, NEW h \in Handlers, h.step = "idle", nextId \in Ids
    PROVE  SessionOK(Fresh(mode), h, NothingKept)
<1>1. Consistent(Fresh(mode), h)
  BY DEF Consistent, Fresh, Publishing, Cloning
<1>2. Fresh(mode) \in Audits
  BY DEF Fresh, Audits
<1> QED BY <1>1, <1>2 DEF SessionOK, NothingKept

\* What is kept stays with an audit that keeps its id.
LEMMA Changed ==
    ASSUME NEW a \in Audits, NEW h, NEW k, SessionOK(a, h, k),
           NEW b \in Audits, b.id = a.id,
           NEW g \in Handlers, Consistent(b, g)
    PROVE  SessionOK(b, g, k)
  BY DEF SessionOK

\* Within publishing and within cloning a handler may move on.
LEMMA Moved ==
    ASSUME NEW a, NEW h \in Handlers, Consistent(a, h), NEW step,
           \/ h.step \in Publishing /\ step \in Publishing
           \/ h.step \in Cloning /\ step \in Cloning
    PROVE  [h EXCEPT !.step = step] \in Handlers /\ Consistent(a, [h EXCEPT !.step = step])
<1> DEFINE g == [h EXCEPT !.step = step]
<1>1. g.step = step /\ g.commit = h.commit /\ g.flow = h.flow
  BY DEF Handlers
<1>2. g \in Handlers
  BY DEF Handlers, Steps
<1> HIDE DEF g
<1>3. Consistent(a, g)
  BY <1>1 DEF Consistent, Publishing, Cloning
<1> QED BY <1>2, <1>3 DEF g

\* Pinning the commit, and the clone with it.
LEMMA Pinned ==
    ASSUME NEW a \in Audits, NEW h, Consistent(a, h), h.step = "idle",
           NEW c \in Commits, a.commit \in {None, c}
    PROVE  /\ LET b == [a EXCEPT !.commit = c]
              IN  b \in Audits /\ b.id = a.id /\ Consistent(b, h)
           /\ LET b == [a EXCEPT !.commit = c, !.clonePath = c]
              IN  b \in Audits /\ b.id = a.id /\ Consistent(b, h)
<1> DEFINE b1 == [a EXCEPT !.commit = c]
           b2 == [a EXCEPT !.commit = c, !.clonePath = c]
<1>1. /\ b1 \in Audits /\ b1.id = a.id /\ b1.commit = c /\ b1.clonePath = a.clonePath
      /\ b1.stage = a.stage /\ b1.record = a.record
      /\ b2 \in Audits /\ b2.id = a.id /\ b2.commit = c /\ b2.clonePath = c
      /\ b2.stage = a.stage /\ b2.record = a.record
  BY DEF Audits
<1>2. a.record # None => a.record.commit = c
  <2>1. a.record # None => a.record.commit \in Commits
    BY DEF Audits, Records
  <2> QED BY <2>1, NoneAssumption DEF Consistent
<1>3. a.clonePath \in {None, c} /\ c # None
  BY NoneAssumption DEF Consistent
<1> HIDE DEF b1, b2
<1>4. Consistent(b1, h)
  BY <1>1, <1>2, <1>3 DEF Consistent, Publishing, Cloning
<1>5. Consistent(b2, h)
  BY <1>1, <1>2, <1>3 DEF Consistent, Publishing, Cloning
<1> QED BY <1>1, <1>4, <1>5 DEF b1, b2

\* The stages before the last one.
LEMMA Advanced ==
    ASSUME NEW a \in Audits, NEW h, Consistent(a, h), h.step = "idle",
           a.stage # "finalized", a.commit # None,
           NEW stage \in {"started", "validated"}
    PROVE  LET b == [a EXCEPT !.stage = stage]
           IN  b \in Audits /\ b.id = a.id /\ Consistent(b, h)
<1> DEFINE b == [a EXCEPT !.stage = stage]
<1>1. /\ b \in Audits /\ b.id = a.id /\ b.commit = a.commit /\ b.clonePath = a.clonePath
      /\ b.stage = stage /\ b.record = a.record
  BY DEF Audits
<1> HIDE DEF b
<1>2. Consistent(b, h)
  BY <1>1 DEF Consistent, Publishing, Cloning
<1> QED BY <1>1, <1>2 DEF b

\* Recording a report.
LEMMA Recorded ==
    ASSUME NEW a \in Audits, NEW h \in Handlers, Consistent(a, h), h.step \in Publishing
    PROVE  LET b == [a EXCEPT !.record = [commit |-> h.commit, flow |-> h.flow, sealed |-> FALSE]]
               g == [h EXCEPT !.step = IF h.flow = "other" THEN "seal" ELSE "stage"]
           IN  b \in Audits /\ b.id = a.id /\ g \in Handlers /\ Consistent(b, g)
<1> DEFINE record == [commit |-> h.commit, flow |-> h.flow, sealed |-> FALSE]
           b == [a EXCEPT !.record = record]
           step == IF h.flow = "other" THEN "seal" ELSE "stage"
           g == [h EXCEPT !.step = step]
<1>1. /\ g.step = step /\ g.commit = h.commit /\ g.flow = h.flow
      /\ g \in Handlers
  BY DEF Handlers, Steps
<1>2. record \in Records /\ record # None
  <2>1. h.commit \in Commits /\ h.flow \in Flows
    BY DEF Consistent
  <2>2. record \in Records
    BY <2>1 DEF Records
  <2> QED BY <2>2, NoneAssumption
<1>3. record.commit = h.commit /\ record.flow = h.flow /\ record.sealed = FALSE
  OBVIOUS
<1>4. /\ h.commit = a.commit /\ h.commit \in Commits
      /\ a.stage # "finalized"
      /\ step \in {"seal", "stage"} /\ (step = "seal" <=> h.flow = "other")
  BY DEF Consistent
<1> HIDE DEF g, record, step
<1>5. /\ b.commit = a.commit /\ b.clonePath = a.clonePath /\ b.id = a.id
      /\ b.stage = a.stage /\ b.record = record /\ b \in Audits
  BY <1>2 DEF Audits
<1> HIDE DEF b
<1>6. Consistent(b, g)
  BY <1>1, <1>2, <1>3, <1>4, <1>5 DEF Consistent, Publishing, Cloning
<1> QED BY <1>1, <1>5, <1>6 DEF b, g, record, step

\* The stage is finalized after the report was recorded.
LEMMA StageFinalized ==
    ASSUME NEW a \in Audits, NEW h \in Handlers, Consistent(a, h), h.step = "stage"
    PROVE  LET b == [a EXCEPT !.stage = "finalized"]
               g == [h EXCEPT !.step = "seal"]
           IN  b \in Audits /\ b.id = a.id /\ g \in Handlers /\ Consistent(b, g)
<1> DEFINE b == [a EXCEPT !.stage = "finalized"]
           g == [h EXCEPT !.step = "seal"]
<1>1. g \in Handlers /\ g.step = "seal" /\ g.commit = h.commit /\ g.flow = h.flow
  BY DEF Handlers, Steps
<1>2. /\ b \in Audits /\ b.id = a.id /\ b.commit = a.commit /\ b.clonePath = a.clonePath
      /\ b.stage = "finalized" /\ b.record = a.record
  BY DEF Audits
<1>3. /\ h.commit = a.commit /\ h.commit \in Commits /\ h.commit # None
      /\ a.record # None /\ a.record.flow = h.flow /\ h.flow # "other"
      /\ a.record.commit = a.commit /\ a.clonePath \in {None, a.commit}
  BY NoneAssumption DEF Consistent
<1> HIDE DEF b, g
<1>4. Consistent(b, g)
  BY <1>1, <1>2, <1>3 DEF Consistent, Publishing, Cloning
<1> QED BY <1>1, <1>2, <1>4 DEF b, g

\* Sealing is the last step.
LEMMA Sealed ==
    ASSUME NEW a \in Audits, NEW h, Consistent(a, h), h.step = "seal"
    PROVE  LET b == [a EXCEPT !.record.sealed = TRUE]
           IN  b \in Audits /\ b.id = a.id /\ Consistent(b, Idling)
<1> DEFINE b == [a EXCEPT !.record.sealed = TRUE]
           record == [a.record EXCEPT !.sealed = TRUE]
<1>1. /\ a.record # None /\ a.record.flow = h.flow /\ a.record.commit = a.commit
      /\ h.flow # "other" => a.stage = "finalized"
      /\ a.clonePath \in {None, a.commit}
      /\ a.stage # "acquired" => a.commit # None
      /\ a.stage = "finalized" => a.record.flow # "other"
  BY DEF Consistent
<1>2. record \in Records /\ record.flow = a.record.flow /\ record.commit = a.record.commit
  BY <1>1 DEF Audits, Records
<1>3. b = [a EXCEPT !.record = record]
  BY DEF Audits
<1> HIDE DEF record
<1>4. /\ b \in Audits /\ b.id = a.id /\ b.record = record
      /\ b.commit = a.commit /\ b.clonePath = a.clonePath /\ b.stage = a.stage
  BY <1>2, <1>3 DEF Audits
<1>5. Idling.step = "idle" /\ record # None
  BY <1>2, NoneAssumption DEF Idling
<1> HIDE DEF b
<1>6. Consistent(b, Idling)
  BY <1>1, <1>2, <1>4, <1>5 DEF Consistent, Publishing, Cloning
<1> QED BY <1>4, <1>6 DEF b

-----------------------------------------------------------------------------
(* Every step keeps the invariant.                                           *)

\* Activation, expiry, closure, crashes, and what sessions keep.
LEMMA LifecycleStep ==
    ASSUME IInv, NEW r \in Sessions, Lifecycle(r) PROVE IInv'
<1>0. TypeOK
  BY DEF IInv
<1>1. ASSUME NEW s \in Sessions, NEW mode \in Modes, ActivateAudit(s, mode)
      PROVE  IInv'
  <2>1. handler[s].step = "idle" /\ handler[s] \in Handlers
    BY <1>1, InOrder DEF ActivateAudit, Idle
  <2>2. nextId \in Ids
    BY <1>1, <1>0 DEF ActivateAudit, TypeOK, Ids
  <2>3. /\ audit'[s] = Fresh(mode) /\ kept'[s] = NothingKept
        /\ handler'[s] = handler[s]
        /\ OnlyOf(s)
    BY <1>1, <1>0, <2>1, <2>2
       DEF OnlyOf, vars, memory, disk, pair, TypeOK, ActivateAudit, Idle
  <2>4. SessionOK(audit'[s], handler'[s], kept'[s])
    BY <2>1, <2>2, <2>3, Activated
  <2>5. DiskOK'
    BY <1>1, <1>0, <2>1, MaxAuditsAssumption
       DEF DiskOK, TypeOK, vars, memory, disk, pair, ActivateAudit, Idle
  <2> QED BY <2>3, <2>4, <2>5, OneSession
<1>2. ASSUME NEW s \in Sessions, Expires(s)
      PROVE  IInv'
  <2>1. /\ audit[s] \in Audits /\ audit[s] # None /\ handler[s] \in Handlers
        /\ Consistent(audit[s], handler[s]) /\ SessionOK(audit[s], handler[s], kept[s])
    BY <1>2, InOrder DEF Expires, Live
  <2>2. /\ audit'[s] = audit[s] /\ kept'[s] = kept[s]
        /\ handler'[s] = handler[s]
        /\ OnlyOf(s)
    BY <1>2, <1>0, <2>1 DEF OnlyOf, vars, memory, disk, pair, TypeOK, Expires, Live
  <2>3. SessionOK(audit'[s], handler'[s], kept'[s])
    BY <2>1, <2>2
  <2>4. DiskOK'
    BY <1>2, <1>0, <2>1, MaxAuditsAssumption
       DEF DiskOK, TypeOK, vars, memory, disk, pair, Expires, Live
  <2> QED BY <2>2, <2>3, <2>4, OneSession
<1>3. ASSUME NEW s \in Sessions, GetActiveAudit(s)
      PROVE  IInv'
  <2>1. handler[s].step = "idle" /\ handler[s] \in Handlers
    BY <1>3, InOrder DEF GetActiveAudit, Forget, Idle
  <2>2. /\ audit'[s] = None /\ kept'[s] = NothingKept
        /\ handler'[s] = handler[s]
        /\ OnlyOf(s)
    BY <1>3, <1>0, <2>1
       DEF OnlyOf, vars, memory, disk, pair, TypeOK, GetActiveAudit, Forget, Idle
  <2>3. SessionOK(audit'[s], handler'[s], kept'[s])
    BY <2>1, <2>2, Gone
  <2>4. DiskOK'
    BY <1>3, <1>0, <2>1, MaxAuditsAssumption
       DEF DiskOK, TypeOK, vars, memory, disk, pair, GetActiveAudit, Forget, Idle
  <2> QED BY <2>2, <2>3, <2>4, OneSession
<1>4. ASSUME NEW s \in Sessions, NEW abandon \in BOOLEAN, CloseAudit(s, abandon)
      PROVE  IInv'
  <2>1. handler[s].step = "idle" /\ handler[s] \in Handlers
    BY <1>4, InOrder DEF CloseAudit, Forget, Ready, Live, Idle
  <2>2. /\ audit'[s] = None /\ kept'[s] = NothingKept
        /\ handler'[s] = handler[s]
        /\ OnlyOf(s)
    BY <1>4, <1>0, <2>1
       DEF OnlyOf, vars, memory, disk, pair, TypeOK, CloseAudit, Forget, Ready, Live,
           Idle
  <2>3. SessionOK(audit'[s], handler'[s], kept'[s])
    BY <2>1, <2>2, Gone
  <2>4. DiskOK'
    BY <1>4, <1>0, <2>1, MaxAuditsAssumption
       DEF DiskOK, TypeOK, vars, memory, disk, pair, CloseAudit, Forget, Ready, Live,
           Idle
  <2> QED BY <2>2, <2>3, <2>4, OneSession
<1>5. ASSUME NEW s \in Sessions, Crash(s)
      PROVE  IInv'
  <2>1. Idling.step = "idle" /\ Idling \in Handlers
    BY DEF Idling, Handlers, Steps
  <2>2. /\ audit'[s] = None /\ kept'[s] = NothingKept
        /\ handler'[s] = Idling
        /\ OnlyOf(s)
    BY <1>5, <1>0, <2>1
       DEF OnlyOf, vars, memory, disk, pair, TypeOK, Crash, Forget, Return
  <2>3. SessionOK(audit'[s], handler'[s], kept'[s])
    BY <2>1, <2>2, Gone
  <2>4. handler[s].step \in Publishing => audit[s] \in Audits
    BY <1>5, <1>0, InOrder DEF Publishing
  <2>5. handler[s].step \in Publishing => audit[s].id \in Ids
    BY <2>4 DEF Audits
  <2>6. settled' \subseteq Ids
    BY <1>5, <1>0, <2>5 DEF TypeOK, Crash
  <2>7. DiskOK'
    BY <1>5, <1>0, <2>1, <2>6, MaxAuditsAssumption
       DEF DiskOK, TypeOK, vars, memory, disk, pair, Crash, Forget, Return
  <2> QED BY <2>2, <2>3, <2>7, OneSession
<1>6. ASSUME NEW s \in Sessions, NEW store \in Stores, Keep(s, store)
      PROVE  IInv'
  <2>1. /\ audit[s] \in Audits /\ audit[s] # None /\ handler[s] \in Handlers
        /\ Consistent(audit[s], handler[s]) /\ SessionOK(audit[s], handler[s], kept[s])
    BY <1>6, InOrder DEF Keep, Ready, Live, Idle
  <2>2. /\ audit'[s] = audit[s] /\ kept'[s] = [kept[s] EXCEPT ![store] = audit[s].id]
        /\ handler'[s] = handler[s]
        /\ OnlyOf(s)
    BY <1>6, <1>0, <2>1
       DEF OnlyOf, vars, memory, disk, pair, TypeOK, Keep, Ready, Live, Idle
  <2>3. audit[s].id \in Ids
    BY <2>1 DEF Audits
  <2>4. SessionOK(audit'[s], handler'[s], kept'[s])
    BY <2>1, <2>2, <2>3 DEF SessionOK
  <2>5. DiskOK'
    BY <1>6, <1>0, <2>1, MaxAuditsAssumption
       DEF DiskOK, TypeOK, vars, memory, disk, pair, Keep, Ready, Live, Idle
  <2> QED BY <2>2, <2>4, <2>5, OneSession
<1> QED BY <1>1, <1>2, <1>3, <1>4, <1>5, <1>6 DEF Lifecycle

\* Pinning the commit and walking the assurance stages.
LEMMA AuditingStep ==
    ASSUME IInv, NEW r \in Sessions, Auditing(r) PROVE IInv'
<1>0. TypeOK
  BY DEF IInv
<1>1. ASSUME NEW s \in Sessions, NEW c \in Commits, SafeListTree(s, c)
      PROVE  IInv'
  <2>1. /\ audit[s] \in Audits /\ audit[s] # None /\ handler[s] \in Handlers
        /\ Consistent(audit[s], handler[s]) /\ SessionOK(audit[s], handler[s], kept[s])
    BY <1>1, InOrder DEF SafeListTree, Ready, Live, Idle
  <2>2. handler[s].step = "idle"
    BY <1>1 DEF SafeListTree, Ready, Live, Idle
  <2>3. /\ audit'[s] = [audit[s] EXCEPT !.commit = c] /\ kept'[s] = kept[s]
        /\ handler'[s] = handler[s]
        /\ OnlyOf(s)
    BY <1>1, <1>0, <2>1, <2>2
       DEF OnlyOf, vars, memory, disk, pair, TypeOK, SafeListTree, Ready, Live, Idle
  <2>4. LET b == [audit[s] EXCEPT !.commit = c]
        IN  b \in Audits /\ b.id = audit[s].id /\ Consistent(b, handler[s])
    BY <1>1, <2>1, <2>2, Pinned DEF SafeListTree, Pinnable
  <2>5. SessionOK(audit'[s], handler'[s], kept'[s])
    BY <2>1, <2>2, <2>3, <2>4, Changed
  <2>6. DiskOK'
    BY <1>1, <1>0, <2>1, MaxAuditsAssumption
       DEF DiskOK, TypeOK, vars, memory, disk, pair, SafeListTree, Ready, Live, Idle
  <2> QED BY <2>3, <2>5, <2>6, OneSession
<1>2. ASSUME NEW s \in Sessions, Assure(s, "acquired", "started")
      PROVE  IInv'
  <2>1. /\ audit[s] \in Audits /\ audit[s] # None /\ handler[s] \in Handlers
        /\ Consistent(audit[s], handler[s]) /\ SessionOK(audit[s], handler[s], kept[s])
    BY <1>2, InOrder DEF Assure, Ready, Live, Idle
  <2>2. handler[s].step = "idle"
    BY <1>2 DEF Assure, Ready, Live, Idle
  <2>3. /\ audit'[s] = [audit[s] EXCEPT !.stage = "started"] /\ kept'[s] = kept[s]
        /\ handler'[s] = handler[s]
        /\ OnlyOf(s)
    BY <1>2, <1>0, <2>1, <2>2
       DEF OnlyOf, vars, memory, disk, pair, TypeOK, Assure, Ready, Live, Idle
  <2>4. LET b == [audit[s] EXCEPT !.stage = "started"]
        IN  b \in Audits /\ b.id = audit[s].id /\ Consistent(b, handler[s])
    BY <1>2, <2>1, <2>2, Advanced DEF Assure
  <2>5. SessionOK(audit'[s], handler'[s], kept'[s])
    BY <2>1, <2>2, <2>3, <2>4, Changed
  <2>6. DiskOK'
    BY <1>2, <1>0, <2>1, MaxAuditsAssumption
       DEF DiskOK, TypeOK, vars, memory, disk, pair, Assure, Ready, Live, Idle
  <2> QED BY <2>3, <2>5, <2>6, OneSession
<1>3. ASSUME NEW s \in Sessions, Assure(s, "started", "validated")
      PROVE  IInv'
  <2>1. /\ audit[s] \in Audits /\ audit[s] # None /\ handler[s] \in Handlers
        /\ Consistent(audit[s], handler[s]) /\ SessionOK(audit[s], handler[s], kept[s])
    BY <1>3, InOrder DEF Assure, Ready, Live, Idle
  <2>2. handler[s].step = "idle"
    BY <1>3 DEF Assure, Ready, Live, Idle
  <2>3. /\ audit'[s] = [audit[s] EXCEPT !.stage = "validated"] /\ kept'[s] = kept[s]
        /\ handler'[s] = handler[s]
        /\ OnlyOf(s)
    BY <1>3, <1>0, <2>1, <2>2
       DEF OnlyOf, vars, memory, disk, pair, TypeOK, Assure, Ready, Live, Idle
  <2>4. LET b == [audit[s] EXCEPT !.stage = "validated"]
        IN  b \in Audits /\ b.id = audit[s].id /\ Consistent(b, handler[s])
    BY <1>3, <2>1, <2>2, Advanced DEF Assure
  <2>5. SessionOK(audit'[s], handler'[s], kept'[s])
    BY <2>1, <2>2, <2>3, <2>4, Changed
  <2>6. DiskOK'
    BY <1>3, <1>0, <2>1, MaxAuditsAssumption
       DEF DiskOK, TypeOK, vars, memory, disk, pair, Assure, Ready, Live, Idle
  <2> QED BY <2>3, <2>5, <2>6, OneSession
<1> QED BY <1>1, <1>2, <1>3 DEF Auditing

\* safe_clone.
LEMMA SafeCloneStep ==
    ASSUME IInv, NEW r \in Sessions, SafeClone(r) PROVE IInv'
<1>0. TypeOK
  BY DEF IInv
<1>1. ASSUME NEW s \in Sessions, NEW c \in Commits, CloneBegins(s, c)
      PROVE  IInv'
  <2>1. /\ audit[s] \in Audits /\ audit[s] # None /\ handler[s] \in Handlers
        /\ Consistent(audit[s], handler[s]) /\ SessionOK(audit[s], handler[s], kept[s])
    BY <1>1, InOrder DEF CloneBegins, Ready, Live, Idle
  <2>2. handler[s].step = "idle"
    BY <1>1 DEF CloneBegins, Ready, Live, Idle
  <2>3. LET h == [step |-> "clone", commit |-> c, flow |-> None]
        IN  h \in Handlers /\ Consistent(audit[s], h)
    BY <1>1, <2>1, <2>2, NoneAssumption
       DEF Consistent, Handlers, Steps, Publishing, Cloning, CloneBegins, Ready,
           Live, Idle
  <2>4. /\ audit'[s] = audit[s] /\ kept'[s] = kept[s]
        /\ handler'[s] \in {handler[s], [step |-> "clone", commit |-> c, flow |-> None]}
        /\ OnlyOf(s)
    BY <1>1, <1>0, <2>1, <2>2, <2>3
       DEF OnlyOf, vars, memory, disk, pair, TypeOK, CloneBegins, Ready, Live, Idle
  <2>5. SessionOK(audit'[s], handler'[s], kept'[s])
    BY <2>1, <2>2, <2>3, <2>4, Changed
  <2>6. DiskOK'
    BY <1>1, <1>0, <2>1, MaxAuditsAssumption
       DEF DiskOK, TypeOK, vars, memory, disk, pair, CloneBegins, Ready, Live, Idle
  <2> QED BY <2>4, <2>5, <2>6, OneSession
<1>2. ASSUME NEW s \in Sessions, GitClones(s)
      PROVE  IInv'
  <2>1. /\ audit[s] \in Audits /\ audit[s] # None /\ handler[s] \in Handlers
        /\ Consistent(audit[s], handler[s]) /\ SessionOK(audit[s], handler[s], kept[s])
    BY <1>2, InOrder DEF GitClones, At, Proceed, Return
  <2>2. handler[s].commit \in Commits
    BY <1>2, <2>1 DEF Consistent, Cloning, GitClones, At, Proceed, Return
  <2>3. LET h == [handler[s] EXCEPT !.step = "checkout"]
        IN  h \in Handlers /\ Consistent(audit[s], h)
    BY <1>2, <2>1, Moved DEF Publishing, Cloning, GitClones, At, Proceed, Return
  <2>4. /\ audit'[s] = audit[s] /\ kept'[s] = kept[s]
        /\ handler'[s] \in {Idling, [handler[s] EXCEPT !.step = "checkout"]}
        /\ OnlyOf(s)
    BY <1>2, <1>0, <2>1, <2>2, <2>3
       DEF OnlyOf, vars, memory, disk, pair, TypeOK, GitClones, At, Proceed, Return
  <2>5. [state |-> "partial", by |-> audit[s].id, stale |-> FALSE] \in Clones
    BY <2>1 DEF Audits, Clones
  <2>6. SessionOK(audit'[s], handler'[s], kept'[s])
    BY <2>1, <2>2, <2>3, <2>4, <2>5, Changed, Returned
  <2>7. DiskOK'
    BY <1>2, <1>0, <2>2, <2>5 DEF DiskOK, TypeOK, vars, memory, disk, pair, GitClones
  <2> QED BY <2>4, <2>6, <2>7, OneSession
<1>3. ASSUME NEW s \in Sessions, GitChecksOut(s)
      PROVE  IInv'
  <2>1. /\ audit[s] \in Audits /\ audit[s] # None /\ handler[s] \in Handlers
        /\ Consistent(audit[s], handler[s]) /\ SessionOK(audit[s], handler[s], kept[s])
    BY <1>3, InOrder DEF GitChecksOut, At, Proceed, Return
  <2>2. handler[s].commit \in Commits
    BY <1>3, <2>1 DEF Consistent, Cloning, GitChecksOut, At, Proceed, Return
  <2>3. LET h == [handler[s] EXCEPT !.step = "bind"]
        IN  h \in Handlers /\ Consistent(audit[s], h)
    BY <1>3, <2>1, Moved DEF Publishing, Cloning, GitChecksOut, At, Proceed, Return
  <2>4. /\ audit'[s] = audit[s] /\ kept'[s] = kept[s]
        /\ handler'[s] \in {Idling, [handler[s] EXCEPT !.step = "bind"]}
        /\ OnlyOf(s)
    BY <1>3, <1>0, <2>1, <2>2, <2>3
       DEF OnlyOf, vars, memory, disk, pair, TypeOK, GitChecksOut, At, Proceed, Return
  <2>5. clones[handler[s].commit] \in Clones
    BY <1>0, <2>2 DEF TypeOK
  <2>6. [clones[handler[s].commit] EXCEPT !.state = "complete"] \in Clones
    BY <2>5 DEF Clones
  <2>7. SessionOK(audit'[s], handler'[s], kept'[s])
    BY <2>1, <2>2, <2>3, <2>4, <2>5, <2>6, Changed, Returned
  <2>8. DiskOK'
    BY <1>3, <1>0, <2>2, <2>6
       DEF DiskOK, TypeOK, vars, memory, disk, pair, GitChecksOut
  <2> QED BY <2>4, <2>7, <2>8, OneSession
<1>4. ASSUME NEW s \in Sessions, BindClone(s)
      PROVE  IInv'
  <2>1. /\ audit[s] \in Audits /\ audit[s] # None /\ handler[s] \in Handlers
        /\ Consistent(audit[s], handler[s]) /\ SessionOK(audit[s], handler[s], kept[s])
    BY <1>4, InOrder DEF BindClone, At, Return
  <2>2. handler[s].commit \in Commits
    BY <1>4, <2>1 DEF Consistent, Cloning, BindClone, At, Return
  <2>3. /\ SessionOK(audit[s], Idling, kept[s]) /\ Consistent(audit[s], Idling)
        /\ Idling \in Handlers /\ Idling.step = "idle"
    BY <2>1, Returned DEF SessionOK, Idling
  <2>4. audit[s].commit \in {None, handler[s].commit} =>
          LET b == [audit[s] EXCEPT !.commit = handler[s].commit,
                                             !.clonePath = handler[s].commit]
          IN  b \in Audits /\ b.id = audit[s].id /\ Consistent(b, Idling)
    BY <2>1, <2>2, <2>3, Pinned
  <2>5. \/ audit' = audit
        \/ /\ audit[s].commit \in {None, handler[s].commit}
           /\ audit' = [audit EXCEPT ![s].commit = handler[s].commit,
                                     ![s].clonePath = handler[s].commit]
    BY <1>4 DEF BindClone, Pinnable
  <2>6. /\ handler'[s] = Idling /\ kept'[s] = kept[s]
        /\ OnlyOf(s)
    BY <1>4, <1>0, <2>1, <2>2, <2>3, <2>4, <2>5
       DEF OnlyOf, vars, memory, disk, pair, TypeOK, BindClone, At, Return
  <2>7. \/ audit'[s] = audit[s]
        \/ /\ audit[s].commit \in {None, handler[s].commit}
           /\ audit'[s] = [audit[s] EXCEPT !.commit = handler[s].commit,
                                             !.clonePath = handler[s].commit]
    BY <1>0, <2>5 DEF TypeOK
  <2>8. SessionOK(audit'[s], handler'[s], kept'[s])
    BY <2>1, <2>2, <2>3, <2>4, <2>5, <2>6, <2>7, Changed
  <2>9. DiskOK'
    BY <1>4, <1>0, <2>1, MaxAuditsAssumption
       DEF DiskOK, TypeOK, vars, memory, disk, pair, BindClone, At, Return
  <2> QED BY <2>6, <2>8, <2>9, OneSession
<1> QED BY <1>1, <1>2, <1>3, <1>4 DEF SafeClone

\* cleanup_audit.
LEMMA CleanupAuditStep ==
    ASSUME IInv, NEW r \in Sessions, CleanupAudit(r) PROVE IInv'
<1>0. TypeOK
  BY DEF IInv
<1>1. ASSUME NEW s \in Sessions, NEW alsoReport \in BOOLEAN, CleanupRemovesClone(s, alsoReport)
      PROVE  IInv'
  <2>1. /\ audit[s] \in Audits /\ audit[s] # None /\ handler[s] \in Handlers
        /\ Consistent(audit[s], handler[s]) /\ SessionOK(audit[s], handler[s], kept[s])
    BY <1>1, InOrder DEF CleanupRemovesClone, Ready, Live, Idle
  <2>2. audit[s].clonePath \in Commits
    BY <1>1, <2>1 DEF Audits, CleanupRemovesClone
  <2>3. handler[s].step = "idle"
    BY <1>1 DEF CleanupRemovesClone, Ready, Live, Idle
  <2>4. LET h == [step |-> "remove report", commit |-> audit[s].clonePath, flow |-> None]
        IN  h \in Handlers /\ Consistent(audit[s], h)
    BY <1>1, <2>1, <2>2, <2>3, NoneAssumption
       DEF Consistent, Handlers, Steps, Publishing, Cloning, CleanupRemovesClone,
           Ready, Live, Idle
  <2>5. /\ audit'[s] = audit[s] /\ kept'[s] = kept[s]
        /\ handler'[s] \in {handler[s], [step |-> "remove report", commit |-> audit[s].clonePath,
                                       flow |-> None]}
        /\ OnlyOf(s)
    BY <1>1, <1>0, <2>1, <2>2, <2>3, <2>4
       DEF OnlyOf, vars, memory, disk, pair, TypeOK, CleanupRemovesClone, Ready,
           Live, Idle
  <2>6. SessionOK(audit'[s], handler'[s], kept'[s])
    BY <2>1, <2>2, <2>3, <2>4, <2>5, Changed
  <2>7. DiskOK'
    <3>1. \A c \in Commits : Remains(clones[c]) \subseteq Clones
      BY <1>0, RemainsType DEF TypeOK
    <3>2. clones' \in [Commits -> Clones]
      BY <1>1, <1>0, <2>2, <3>1 DEF TypeOK, CleanupRemovesClone
    <3>3. UNCHANGED <<expired, nextId, findings, report, temps, settled>>
      BY <1>1 DEF memory, pair, CleanupRemovesClone
    <3> QED BY <1>0, <3>2, <3>3 DEF DiskOK, TypeOK
  <2> QED BY <2>5, <2>6, <2>7, OneSession
<1>2. ASSUME NEW s \in Sessions, CleanupRemovesReport(s)
      PROVE  IInv'
  <2>1. /\ audit[s] \in Audits /\ audit[s] # None /\ handler[s] \in Handlers
        /\ Consistent(audit[s], handler[s]) /\ SessionOK(audit[s], handler[s], kept[s])
    BY <1>2, InOrder DEF CleanupRemovesReport, At, Return
  <2>2. /\ audit'[s] = audit[s] /\ kept'[s] = kept[s]
        /\ handler'[s] = Idling
        /\ OnlyOf(s)
    BY <1>2, <1>0, <2>1
       DEF OnlyOf, vars, memory, disk, pair, TypeOK, CleanupRemovesReport, At, Return
  <2>3. SessionOK(audit'[s], handler'[s], kept'[s])
    BY <2>1, <2>2, Returned
  <2>4. DiskOK'
    BY <1>2, <1>0, <2>1, MaxAuditsAssumption
       DEF DiskOK, TypeOK, vars, memory, disk, pair, CleanupRemovesReport, At,
           Return, Left
  <2> QED BY <2>2, <2>3, <2>4, OneSession
<1> QED BY <1>1, <1>2 DEF CleanupAudit

\* finalize_report.
LEMMA FinalizeReportStep ==
    ASSUME IInv, NEW r \in Sessions, FinalizeReport(r) PROVE IInv'
<1>0. TypeOK
  BY DEF IInv
<1>1. ASSUME NEW s \in Sessions, NEW flow \in Flows, FinalizeBegins(s, flow)
      PROVE  IInv'
  <2>1. /\ audit[s] \in Audits /\ audit[s] # None /\ handler[s] \in Handlers
        /\ Consistent(audit[s], handler[s]) /\ SessionOK(audit[s], handler[s], kept[s])
    BY <1>1, InOrder DEF FinalizeBegins, Ready, Live, Idle
  <2>2. audit[s].commit \in Commits
    BY <1>1, <2>1 DEF Audits, FinalizeBegins
  <2>3. handler[s].step = "idle"
    BY <1>1 DEF FinalizeBegins, Ready, Live, Idle
  <2>4. LET h == [step |-> "check", commit |-> audit[s].commit, flow |-> flow]
        IN  h \in Handlers /\ Consistent(audit[s], h)
    BY <1>1, <2>1, <2>2, <2>3, NoneAssumption
       DEF Consistent, Handlers, Steps, Publishing, Cloning, FinalizeBegins, Ready,
           Live, Idle
  <2>5. /\ audit'[s] = audit[s] /\ kept'[s] = kept[s]
        /\ handler'[s] = [step |-> "check", commit |-> audit[s].commit, flow |-> flow]
        /\ OnlyOf(s)
    BY <1>1, <1>0, <2>1, <2>2, <2>3, <2>4
       DEF OnlyOf, vars, memory, disk, pair, TypeOK, FinalizeBegins, Ready, Live, Idle
  <2>6. SessionOK(audit'[s], handler'[s], kept'[s])
    BY <2>1, <2>2, <2>3, <2>4, <2>5, Changed
  <2>7. DiskOK'
    BY <1>1, <1>0, <2>1, MaxAuditsAssumption
       DEF DiskOK, TypeOK, vars, memory, disk, pair, FinalizeBegins, Ready, Live, Idle
  <2> QED BY <2>5, <2>6, <2>7, OneSession
<1>2. ASSUME NEW s \in Sessions, CheckPair(s)
      PROVE  IInv'
  <2>1. /\ audit[s] \in Audits /\ audit[s] # None /\ handler[s] \in Handlers
        /\ Consistent(audit[s], handler[s]) /\ SessionOK(audit[s], handler[s], kept[s])
    BY <1>2, InOrder DEF CheckPair, At, Proceed
  <2>2. LET h == [handler[s] EXCEPT !.step = "publish findings"]
        IN  h \in Handlers /\ Consistent(audit[s], h)
    BY <1>2, <2>1, Moved DEF Publishing, Cloning, CheckPair, At, Proceed
  <2>3. /\ audit'[s] = audit[s] /\ kept'[s] = kept[s]
        /\ handler'[s] = [handler[s] EXCEPT !.step = "publish findings"]
        /\ OnlyOf(s)
    BY <1>2, <1>0, <2>1, <2>2
       DEF OnlyOf, vars, memory, disk, pair, TypeOK, CheckPair, At, Proceed
  <2>4. SessionOK(audit'[s], handler'[s], kept'[s])
    BY <2>1, <2>2, <2>3, Changed
  <2>5. DiskOK'
    BY <1>2, <1>0, <2>1, MaxAuditsAssumption
       DEF DiskOK, TypeOK, vars, memory, disk, pair, CheckPair, At, Proceed
  <2> QED BY <2>3, <2>4, <2>5, OneSession
<1>3. ASSUME NEW s \in Sessions, PublishFindings(s)
      PROVE  IInv'
  <2>1. /\ audit[s] \in Audits /\ audit[s] # None /\ handler[s] \in Handlers
        /\ Consistent(audit[s], handler[s]) /\ SessionOK(audit[s], handler[s], kept[s])
    BY <1>3, InOrder DEF PublishFindings, At, Proceed
  <2>2. LET h == [handler[s] EXCEPT !.step = "publish report"]
        IN  h \in Handlers /\ Consistent(audit[s], h)
    BY <1>3, <2>1, Moved DEF Publishing, Cloning, PublishFindings, At, Proceed
  <2>3. /\ audit'[s] = audit[s] /\ kept'[s] = kept[s]
        /\ handler'[s] = [handler[s] EXCEPT !.step = "publish report"]
        /\ OnlyOf(s)
    BY <1>3, <1>0, <2>1, <2>2
       DEF OnlyOf, vars, memory, disk, pair, TypeOK, PublishFindings, At, Proceed
  <2>4. SessionOK(audit'[s], handler'[s], kept'[s])
    BY <2>1, <2>2, <2>3, Changed
  <2>5. DiskOK'
    BY <1>3, <1>0, <2>1, MaxAuditsAssumption
       DEF DiskOK, TypeOK, vars, memory, disk, pair, PublishFindings, At, Proceed,
           Audits
  <2> QED BY <2>3, <2>4, <2>5, OneSession
<1>4. ASSUME NEW s \in Sessions, PublishReport(s)
      PROVE  IInv'
  <2>1. /\ audit[s] \in Audits /\ audit[s] # None /\ handler[s] \in Handlers
        /\ Consistent(audit[s], handler[s]) /\ SessionOK(audit[s], handler[s], kept[s])
    BY <1>4, InOrder DEF PublishReport, At, Proceed
  <2>2. LET h == [handler[s] EXCEPT !.step = "read back"]
        IN  h \in Handlers /\ Consistent(audit[s], h)
    BY <1>4, <2>1, Moved DEF Publishing, Cloning, PublishReport, At, Proceed
  <2>3. /\ audit'[s] = audit[s] /\ kept'[s] = kept[s]
        /\ handler'[s] = [handler[s] EXCEPT !.step = "read back"]
        /\ OnlyOf(s)
    BY <1>4, <1>0, <2>1, <2>2
       DEF OnlyOf, vars, memory, disk, pair, TypeOK, PublishReport, At, Proceed
  <2>4. SessionOK(audit'[s], handler'[s], kept'[s])
    BY <2>1, <2>2, <2>3, Changed
  <2>5. DiskOK'
    BY <1>4, <1>0, <2>1, MaxAuditsAssumption
       DEF DiskOK, TypeOK, vars, memory, disk, pair, PublishReport, At, Proceed,
           Audits
  <2> QED BY <2>3, <2>4, <2>5, OneSession
<1>5. ASSUME NEW s \in Sessions, ReadBack(s)
      PROVE  IInv'
  <2>1. /\ audit[s] \in Audits /\ audit[s] # None /\ handler[s] \in Handlers
        /\ Consistent(audit[s], handler[s]) /\ SessionOK(audit[s], handler[s], kept[s])
    BY <1>5, InOrder DEF ReadBack, At, Proceed
  <2>2. LET h == [handler[s] EXCEPT !.step = "record"]
        IN  h \in Handlers /\ Consistent(audit[s], h)
    BY <1>5, <2>1, Moved DEF Publishing, Cloning, ReadBack, At, Proceed
  <2>3. /\ audit'[s] = audit[s] /\ kept'[s] = kept[s]
        /\ handler'[s] = [handler[s] EXCEPT !.step = "record"]
        /\ OnlyOf(s)
    BY <1>5, <1>0, <2>1, <2>2
       DEF OnlyOf, vars, memory, disk, pair, TypeOK, ReadBack, At, Proceed
  <2>4. SessionOK(audit'[s], handler'[s], kept'[s])
    BY <2>1, <2>2, <2>3, Changed
  <2>5. DiskOK'
    BY <1>5, <1>0, <2>1, MaxAuditsAssumption
       DEF DiskOK, TypeOK, vars, memory, disk, pair, ReadBack, At, Proceed
  <2> QED BY <2>3, <2>4, <2>5, OneSession
<1>6. ASSUME NEW s \in Sessions, PublicationFails(s)
      PROVE  IInv'
  <2>1. /\ audit[s] \in Audits /\ audit[s] # None /\ handler[s] \in Handlers
        /\ Consistent(audit[s], handler[s]) /\ SessionOK(audit[s], handler[s], kept[s])
    BY <1>6, InOrder DEF PublicationFails, RollBack, Return
  <2>2. /\ audit'[s] = audit[s] /\ kept'[s] = kept[s]
        /\ handler'[s] = Idling
        /\ OnlyOf(s)
    BY <1>6, <1>0, <2>1
       DEF OnlyOf, vars, memory, disk, pair, TypeOK, PublicationFails, RollBack,
           Return
  <2>3. SessionOK(audit'[s], handler'[s], kept'[s])
    BY <2>1, <2>2, Returned
  <2>4. DiskOK'
    BY <1>6, <1>0, <2>1, MaxAuditsAssumption
       DEF DiskOK, TypeOK, vars, memory, disk, pair, PublicationFails, RollBack,
           Return, Left
  <2> QED BY <2>2, <2>3, <2>4, OneSession
<1>7. ASSUME NEW s \in Sessions, PublicationSticks(s)
      PROVE  IInv'
  <2>1. /\ audit[s] \in Audits /\ audit[s] # None /\ handler[s] \in Handlers
        /\ Consistent(audit[s], handler[s]) /\ SessionOK(audit[s], handler[s], kept[s])
    BY <1>7, InOrder DEF PublicationSticks, At, Return
  <2>2. /\ audit'[s] = audit[s] /\ kept'[s] = kept[s]
        /\ handler'[s] = Idling
        /\ OnlyOf(s)
    BY <1>7, <1>0, <2>1
       DEF OnlyOf, vars, memory, disk, pair, TypeOK, PublicationSticks, At, Return
  <2>3. SessionOK(audit'[s], handler'[s], kept'[s])
    BY <2>1, <2>2, Returned
  <2>4. DiskOK'
    BY <1>7, <1>0, <2>1, MaxAuditsAssumption
       DEF DiskOK, TypeOK, vars, memory, disk, pair, PublicationSticks, At, Return,
           Left, Audits
  <2> QED BY <2>2, <2>3, <2>4, OneSession
<1>8. ASSUME NEW s \in Sessions, RecordReportFinalization(s)
      PROVE  IInv'
  <2>1. /\ audit[s] \in Audits /\ audit[s] # None /\ handler[s] \in Handlers
        /\ Consistent(audit[s], handler[s]) /\ SessionOK(audit[s], handler[s], kept[s])
    BY <1>8, InOrder DEF RecordReportFinalization, At, RollBack, Return, Proceed
  <2>2. LET b == [audit[s] EXCEPT !.record = [commit |-> handler[s].commit, flow |-> handler[s].flow,
                                                   sealed |-> FALSE]]
            g == [handler[s] EXCEPT !.step = IF handler[s].flow = "other" THEN "seal" ELSE "stage"]
        IN  b \in Audits /\ b.id = audit[s].id /\ g \in Handlers /\ Consistent(b, g)
    BY <1>8, <2>1, Recorded DEF Publishing, At, RecordReportFinalization
  <2>3. /\ kept'[s] = kept[s]
        /\ \/ audit'[s] = audit[s] /\ handler'[s] = Idling
           \/ /\ audit'[s] = [audit[s] EXCEPT !.record = [commit |-> handler[s].commit, flow |-> handler[s].flow,
                                                   sealed |-> FALSE]]
              /\ handler'[s] = [handler[s] EXCEPT !.step = IF handler[s].flow = "other" THEN "seal" ELSE "stage"]
        /\ OnlyOf(s)
    BY <1>8, <1>0, <2>1, <2>2
       DEF OnlyOf, vars, memory, disk, pair, TypeOK, RecordReportFinalization, At,
           RollBack, Return, Proceed
  <2>4. SessionOK(audit'[s], handler'[s], kept'[s])
    BY <2>1, <2>2, <2>3, Changed, Returned
  <2>5. DiskOK'
    <3>1. UNCHANGED <<expired, nextId, clones, temps>>
      BY <1>8 DEF RecordReportFinalization
    <3>2. findings' \in [Commits -> Ids \cup {None}] /\ report' \in [Commits -> Ids \cup {None}]
      BY <1>8, <1>0 DEF TypeOK, pair, RecordReportFinalization, RollBack, Left
    <3>3. settled' \subseteq Ids
      BY <1>8, <1>0, <2>1 DEF TypeOK, RecordReportFinalization, Audits
    <3> QED BY <1>0, <3>1, <3>2, <3>3 DEF DiskOK, TypeOK
  <2> QED BY <2>3, <2>4, <2>5, OneSession
<1>9. ASSUME NEW s \in Sessions, FinalizeResumes(s)
      PROVE  IInv'
  <2>1. /\ audit[s] \in Audits /\ audit[s] # None /\ handler[s] \in Handlers
        /\ Consistent(audit[s], handler[s]) /\ SessionOK(audit[s], handler[s], kept[s])
    BY <1>9, InOrder DEF FinalizeResumes, Ready, Live, Idle
  <2>2. audit[s].record.flow \in Flows /\ audit[s].record.commit \in Commits
    BY <1>9, <2>1 DEF Audits, Records, FinalizeResumes
  <2>3. handler[s].step = "idle"
    BY <1>9 DEF FinalizeResumes, Ready, Live, Idle
  <2>4. LET h == [step |-> IF audit[s].record.flow = "other" THEN "seal" ELSE "stage",
                 commit |-> audit[s].record.commit, flow |-> audit[s].record.flow]
        IN  h \in Handlers /\ Consistent(audit[s], h)
    BY <1>9, <2>1, <2>2, <2>3, NoneAssumption
       DEF Consistent, Handlers, Steps, Publishing, Cloning, FinalizeResumes, Ready,
           Live, Idle
  <2>5. /\ audit'[s] = audit[s] /\ kept'[s] = kept[s]
        /\ handler'[s] = [step |-> IF audit[s].record.flow = "other" THEN "seal" ELSE "stage",
                 commit |-> audit[s].record.commit, flow |-> audit[s].record.flow]
        /\ OnlyOf(s)
    BY <1>9, <1>0, <2>1, <2>2, <2>3, <2>4
       DEF OnlyOf, vars, memory, disk, pair, TypeOK, FinalizeResumes, Ready, Live,
           Idle
  <2>6. SessionOK(audit'[s], handler'[s], kept'[s])
    BY <2>1, <2>2, <2>3, <2>4, <2>5, Changed
  <2>7. DiskOK'
    BY <1>9, <1>0, <2>1, MaxAuditsAssumption
       DEF DiskOK, TypeOK, vars, memory, disk, pair, FinalizeResumes, Ready, Live,
           Idle
  <2> QED BY <2>5, <2>6, <2>7, OneSession
<1>10. ASSUME NEW s \in Sessions, FinalizeStage(s)
      PROVE  IInv'
  <2>1. /\ audit[s] \in Audits /\ audit[s] # None /\ handler[s] \in Handlers
        /\ Consistent(audit[s], handler[s]) /\ SessionOK(audit[s], handler[s], kept[s])
    BY <1>10, InOrder DEF FinalizeStage, At, Proceed, Forget, Return
  <2>2. LET b == [audit[s] EXCEPT !.stage = "finalized"]
            g == [handler[s] EXCEPT !.step = "seal"]
        IN  b \in Audits /\ b.id = audit[s].id /\ g \in Handlers /\ Consistent(b, g)
    BY <1>10, <2>1, StageFinalized DEF FinalizeStage, At
  <2>3. Idling.step = "idle" /\ Idling \in Handlers
    BY DEF Idling, Handlers, Steps
  <2>4. /\ \/ /\ audit'[s] = None /\ kept'[s] = NothingKept
              /\ handler'[s] = Idling
           \/ /\ audit'[s] = [audit[s] EXCEPT !.stage = "finalized"]
              /\ kept'[s] = kept[s]
              /\ handler'[s] = [handler[s] EXCEPT !.step = "seal"]
        /\ OnlyOf(s)
    BY <1>10, <1>0, <2>1, <2>2, <2>3
       DEF OnlyOf, vars, memory, disk, pair, TypeOK, FinalizeStage, At, Proceed,
           Forget, Return
  <2>5. SessionOK(audit'[s], handler'[s], kept'[s])
    BY <2>1, <2>2, <2>3, <2>4, Changed, Gone
  <2>6. DiskOK'
    BY <1>10, <1>0, <2>1, MaxAuditsAssumption
       DEF DiskOK, TypeOK, vars, memory, disk, pair, FinalizeStage, At, Proceed,
           Forget, Return
  <2> QED BY <2>4, <2>5, <2>6, OneSession
<1>11. ASSUME NEW s \in Sessions, Seal(s)
      PROVE  IInv'
  <2>1. /\ audit[s] \in Audits /\ audit[s] # None /\ handler[s] \in Handlers
        /\ Consistent(audit[s], handler[s]) /\ SessionOK(audit[s], handler[s], kept[s])
    BY <1>11, InOrder DEF Seal, At, Return
  <2>2. LET b == [audit[s] EXCEPT !.record.sealed = TRUE]
        IN  b \in Audits /\ b.id = audit[s].id /\ Consistent(b, Idling)
    BY <1>11, <2>1, Sealed DEF Seal, At
  <2>3. Idling \in Handlers
    BY DEF Idling, Handlers, Steps
  <2>4. /\ audit'[s] \in {audit[s], [audit[s] EXCEPT !.record.sealed = TRUE]}
        /\ handler'[s] = Idling /\ kept'[s] = kept[s]
        /\ OnlyOf(s)
    BY <1>11, <1>0, <2>1, <2>2, <2>3
       DEF OnlyOf, vars, memory, disk, pair, TypeOK, Seal, At, Return
  <2>5. SessionOK(audit'[s], handler'[s], kept'[s])
    BY <2>1, <2>2, <2>3, <2>4, Returned, Changed
  <2>6. DiskOK'
    BY <1>11, <1>0, <2>1, MaxAuditsAssumption
       DEF DiskOK, TypeOK, vars, memory, disk, pair, Seal, At, Return
  <2> QED BY <2>4, <2>5, <2>6, OneSession
<1> QED BY <1>1, <1>2, <1>3, <1>4, <1>5, <1>6, <1>7, <1>8, <1>9, <1>10, <1>11
   DEF FinalizeReport

\* safe_install and safe_build.
LEMMA HostStep ==
    ASSUME IInv, NEW r \in Sessions, Host(r) PROVE IInv'
<1>0. TypeOK
  BY DEF IInv
<1>1. ASSUME NEW s \in Sessions, HostStarts(s)
      PROVE  IInv'
  <2>1. /\ audit[s] \in Audits /\ audit[s] # None /\ handler[s] \in Handlers
        /\ Consistent(audit[s], handler[s]) /\ SessionOK(audit[s], handler[s], kept[s])
    BY <1>1, InOrder DEF HostStarts, Ready, Live, Idle
  <2>2. audit[s].clonePath \in Commits
    BY <1>1, <2>1 DEF Audits, HostStarts
  <2>3. handler[s].step = "idle"
    BY <1>1 DEF HostStarts, Ready, Live, Idle
  <2>4. LET h == [step |-> "host", commit |-> audit[s].clonePath, flow |-> None]
        IN  h \in Handlers /\ Consistent(audit[s], h)
    BY <1>1, <2>1, <2>2, <2>3, NoneAssumption
       DEF Consistent, Handlers, Steps, Publishing, Cloning, HostStarts, Ready, Live,
           Idle
  <2>5. /\ audit'[s] = audit[s] /\ kept'[s] = kept[s]
        /\ handler'[s] = [step |-> "host", commit |-> audit[s].clonePath, flow |-> None]
        /\ OnlyOf(s)
    BY <1>1, <1>0, <2>1, <2>2, <2>3, <2>4
       DEF OnlyOf, vars, memory, disk, pair, TypeOK, HostStarts, Ready, Live, Idle
  <2>6. SessionOK(audit'[s], handler'[s], kept'[s])
    BY <2>1, <2>2, <2>3, <2>4, <2>5, Changed
  <2>7. DiskOK'
    BY <1>1, <1>0, <2>1, MaxAuditsAssumption
       DEF DiskOK, TypeOK, vars, memory, disk, pair, HostStarts, Ready, Live, Idle
  <2> QED BY <2>5, <2>6, <2>7, OneSession
<1>2. ASSUME NEW s \in Sessions, HostReturns(s)
      PROVE  IInv'
  <2>1. /\ audit[s] \in Audits /\ audit[s] # None /\ handler[s] \in Handlers
        /\ Consistent(audit[s], handler[s]) /\ SessionOK(audit[s], handler[s], kept[s])
    BY <1>2, InOrder DEF HostReturns, At, Return
  <2>2. /\ audit'[s] = audit[s] /\ kept'[s] = kept[s]
        /\ handler'[s] = Idling
        /\ OnlyOf(s)
    BY <1>2, <1>0, <2>1
       DEF OnlyOf, vars, memory, disk, pair, TypeOK, HostReturns, At, Return
  <2>3. SessionOK(audit'[s], handler'[s], kept'[s])
    BY <2>1, <2>2, Returned
  <2>4. DiskOK'
    BY <1>2, <1>0, <2>1, MaxAuditsAssumption
       DEF DiskOK, TypeOK, vars, memory, disk, pair, HostReturns, At, Return
  <2> QED BY <2>2, <2>3, <2>4, OneSession
<1> QED BY <1>1, <1>2 DEF Host

\* What is no session's own step.
LEMMA GoesStaleStep ==
    ASSUME IInv, NEW c \in Commits, GoesStale(c) PROVE IInv'
<1>1. TypeOK
  BY DEF IInv
<1>2. [clones[c] EXCEPT !.stale = TRUE] \in Clones
  BY <1>1 DEF TypeOK, Clones
<1>3. TypeOK'
  BY <1>1, <1>2 DEF TypeOK, GoesStale, memory, pair
<1>4. SessionsOK'
  BY DEF IInv, SessionsOK, GoesStale, memory
<1> QED BY <1>3, <1>4 DEF IInv

\* The invariant holds at the start.
LEMMA InitInvariant == Init => IInv
<1> SUFFICES ASSUME Init PROVE IInv
  OBVIOUS
<1>1. Idling \in Handlers /\ Idling.step = "idle"
  BY DEF Idling, Handlers, Steps
<1>2. TypeOK
  BY <1>1, MaxAuditsAssumption DEF Init, TypeOK, Clones, NoClone, NothingKept
<1>3. SessionsOK
  BY <1>1, Gone DEF Init, SessionsOK
<1> QED BY <1>2, <1>3 DEF IInv

\* Every step keeps the invariant.
LEMMA NextInvariant == IInv /\ [Next]_vars => IInv'
<1> SUFFICES ASSUME IInv, [Next]_vars PROVE IInv'
  OBVIOUS
<1>1. CASE UNCHANGED vars
  BY <1>1 DEF IInv, TypeOK, SessionsOK, vars, memory, disk, pair
<1>2. CASE Next
  BY <1>2, LifecycleStep, AuditingStep, SafeCloneStep, CleanupAuditStep,
     FinalizeReportStep, HostStep, GoesStaleStep DEF Next
<1> QED BY <1>1, <1>2

\* The invariant holds throughout.
THEOREM Invariant == Spec => []IInv
<1>1. Init => IInv
  BY InitInvariant
<1>2. IInv /\ [Next]_vars => IInv'
  BY NextInvariant
<1> QED BY <1>1, <1>2, PTL DEF Spec

-----------------------------------------------------------------------------
(* What follows.                                                             *)

\* Every variable keeps its type.
THEOREM TypeCorrect == Spec => []TypeOK
<1>1. IInv => TypeOK
  BY DEF IInv
<1> QED BY <1>1, Invariant, PTL

\* Council outcomes, candidate ledgers and cache bindings are those of the audit
\* that is active: none outlives its audit (enforcement.mjs, state.mjs).
THEOREM StoresFollowTheAudit == Spec => []KeptWithAudit
<1>1. IInv => KeptWithAudit
  BY NoneAssumption DEF IInv, SessionsOK, SessionOK, KeptWithAudit
<1> QED BY <1>1, Invariant, PTL

\* The pin, the clone, the report and the handler at work name one commit.
THEOREM AuditOfOneCommit == Spec => []OneCommit
<1>1. IInv => OneCommit
  BY InOrder DEF OneCommit, Consistent
<1> QED BY <1>1, Invariant, PTL

\* A sealed record of the assurance flow has its stage finalized, and only such
\* a record has.
THEOREM SealIsEarned == Spec => []SealEarned
<1>1. IInv => SealEarned
  BY InOrder DEF SealEarned, Consistent
<1> QED BY <1>1, Invariant, PTL

\* Only safe_install and safe_build start host execution.
LEMMA OnlyHostStarts ==
    ASSUME TypeOK, Next, NEW s \in Sessions, ~At(s, "host"), At(s, "host")'
    PROVE  HostStarts(s)
<1>1. /\ handler \in [Sessions -> Handlers] /\ handler[s] \in Handlers
      /\ handler[s].step # "host" /\ handler'[s].step = "host"
  BY DEF TypeOK, At
<1>2. Idling.step # "host"
  BY DEF Idling
<1>3. ASSUME NEW r \in Sessions, NEW step, step # "host", Proceed(r, step) PROVE FALSE
  BY <1>1, <1>3 DEF Proceed, Handlers
<1>4. ASSUME NEW r \in Sessions, Return(r) PROVE FALSE
  BY <1>1, <1>2, <1>4 DEF Return
<1>5. ASSUME NEW r \in Sessions, NEW h, h.step # "host", handler' = [handler EXCEPT ![r] = h]
      PROVE  FALSE
  BY <1>1, <1>5
<1>6. UNCHANGED handler => FALSE
  BY <1>1
<1>7. ASSUME NEW r \in Sessions, Lifecycle(r) PROVE FALSE
  BY <1>4, <1>6, <1>7
  DEF Lifecycle, ActivateAudit, Expires, GetActiveAudit, CloseAudit, Crash, Keep
<1>8. ASSUME NEW r \in Sessions, Auditing(r) PROVE FALSE
  BY <1>6, <1>8 DEF Auditing, SafeListTree, Assure
<1>9. ASSUME NEW r \in Sessions, SafeClone(r) PROVE FALSE
  <2>1. ASSUME NEW c \in Commits, CloneBegins(r, c) PROVE FALSE
    BY <1>5, <1>6, <2>1 DEF CloneBegins
  <2> QED BY <1>3, <1>4, <1>9, <2>1 DEF SafeClone, GitClones, GitChecksOut, BindClone
<1>10. ASSUME NEW r \in Sessions, CleanupAudit(r) PROVE FALSE
  <2>1. ASSUME NEW alsoReport \in BOOLEAN, CleanupRemovesClone(r, alsoReport) PROVE FALSE
    BY <1>5, <1>6, <2>1 DEF CleanupRemovesClone
  <2> QED BY <1>4, <1>10, <2>1 DEF CleanupAudit, CleanupRemovesReport
<1>11. ASSUME NEW r \in Sessions, FinalizeReport(r) PROVE FALSE
  <2>1. ASSUME NEW flow \in Flows, FinalizeBegins(r, flow) PROVE FALSE
    BY <1>5, <2>1 DEF FinalizeBegins
  <2>2. CASE CheckPair(r) \/ PublishFindings(r) \/ PublishReport(r) \/ ReadBack(r)
    BY <1>3, <2>2 DEF CheckPair, PublishFindings, PublishReport, ReadBack
  <2>3. CASE PublicationFails(r) \/ PublicationSticks(r) \/ Seal(r)
    BY <1>4, <2>3 DEF PublicationFails, PublicationSticks, Seal
  <2>4. CASE RecordReportFinalization(r)
    BY <1>3, <1>4, <2>4 DEF RecordReportFinalization
  <2>5. CASE FinalizeResumes(r)
    <3> DEFINE h == [step |-> IF audit[r].record.flow = "other" THEN "seal" ELSE "stage",
                     commit |-> audit[r].record.commit, flow |-> audit[r].record.flow]
    <3>1. h.step # "host"
      OBVIOUS
    <3>2. handler' = [handler EXCEPT ![r] = h]
      BY <2>5 DEF FinalizeResumes
    <3> HIDE DEF h
    <3> QED BY <1>5, <3>1, <3>2
  <2>6. CASE FinalizeStage(r)
    BY <1>3, <1>4, <2>6 DEF FinalizeStage
  <2> QED BY <1>11, <2>1, <2>2, <2>3, <2>4, <2>5, <2>6 DEF FinalizeReport
<1>12. ASSUME NEW r \in Sessions, HostReturns(r) PROVE FALSE
  BY <1>4, <1>12 DEF HostReturns
<1>13. ASSUME NEW c \in Commits, GoesStale(c) PROVE FALSE
  BY <1>6, <1>13 DEF GoesStale
<1>14. ASSUME NEW r \in Sessions, HostStarts(r) PROVE r = s
  BY <1>1, <1>14 DEF HostStarts
<1> QED BY <1>7, <1>8, <1>9, <1>10, <1>11, <1>12, <1>13, <1>14 DEF Next, Host

\* Host execution starts only for a live build audit whose own report is on disk
\* as recorded, is clean, and closed the assurance pipeline on the commit that
\* is built, whatever other sessions, failures and crashes did meanwhile
\* (evaluateFinalizedReportExecutionGate).
THEOREM ExecutionIsEarned == Spec => ExecutionEarned
<1> DEFINE Earned == \A s \in Sessions : ~At(s, "host") /\ At(s, "host")' => EarnedStart(s)
<1>1. ASSUME IInv, Next PROVE Earned
  <2> SUFFICES ASSUME NEW s \in Sessions, ~At(s, "host"), At(s, "host")'
               PROVE  EarnedStart(s)
    OBVIOUS
  <2>1. HostStarts(s) /\ TypeOK
    BY <1>1, OnlyHostStarts DEF IInv
  <2>2. /\ audit[s] # None /\ Consistent(audit[s], handler[s])
        /\ GateOpen(s) /\ Live(s) /\ audit[s].mode = "build" /\ audit[s].clonePath # None
    BY <1>1, <2>1, InOrder DEF HostStarts, Ready, Live
  <2>3. handler'[s].commit = audit[s].clonePath
    BY <2>1 DEF HostStarts, TypeOK
  <2>4. /\ audit[s].clonePath = audit[s].commit
        /\ audit[s].record # None /\ audit[s].record.flow = "clean"
        /\ audit[s].stage = "finalized"
        /\ findings[audit[s].commit] = audit[s].id /\ report[audit[s].commit] = audit[s].id
    BY <2>2 DEF Consistent, GateOpen
  <2> QED BY <2>2, <2>3, <2>4 DEF EarnedStart
<1>2. IInv /\ [Next]_vars => [Earned]_vars
  BY <1>1
<1> QED BY <1>2, Invariant, PTL DEF Spec, ExecutionEarned

-----------------------------------------------------------------------------
(* The report pair on the disk that all sessions share: proofs about any      *)
(* number of sessions that finalize, fail, expire and crash on the same        *)
(* commits, as long as what is to be removed is removed and no cleanup deletes *)
(* reports.                                                                   *)

Faultless == ~DeletesReports /\ ~RemovalFails

\* The names of commit c that a handler h of the audit a has linked.
LinkedFindings(a, h, c) ==
    \/ a.record # None /\ a.record.commit = c
    \/ h.step \in {"publish report", "read back", "record"} /\ h.commit = c
LinkedReport(a, h, c) ==
    \/ a.record # None /\ a.record.commit = c
    \/ h.step \in {"read back", "record"} /\ h.commit = c

\* The files an audit has on disk are those it linked and did not roll back.
FilesOf(f, r, a, h) ==
    \A c \in Commits :
        /\ f[c] = a.id <=> LinkedFindings(a, h, c)
        /\ r[c] = a.id <=> LinkedReport(a, h, c)

FilesAreLinked ==
    \A s \in Sessions : audit[s] # None => FilesOf(findings, report, audit[s], handler[s])

\* A report is never there without the findings it was linked after.
ReportFollows == \A c \in Commits : report[c] # None => report[c] = findings[c]

\* Two audits never have the same id, not even that of a file left behind.
IdsApart ==
    /\ \A c \in Commits : findings[c] # None => findings[c] < nextId
    /\ \A s \in Sessions : audit[s] # None => audit[s].id < nextId
    /\ \A s, t \in Sessions :
         audit[s] # None /\ audit[t] # None /\ audit[s].id = audit[t].id => s = t

RecordedIsSettled ==
    \A s \in Sessions : audit[s] # None /\ audit[s].record # None => audit[s].id \in settled

NothingDeletes == \A s \in Sessions : handler[s].step # "remove report"

PairOK ==
    /\ FilesAreLinked /\ ReportFollows /\ IdsApart /\ RecordedIsSettled /\ NothingDeletes
    /\ PublishedIsRecorded

\* A step of one session.
StepOf(s) == \A t \in Sessions : t # s => audit'[t] = audit[t] /\ handler'[t] = handler[t]

-----------------------------------------------------------------------------
(* Kinds of steps.                                                         *)

\* One that leaves the pair and what is linked alone, by a session whose audit goes or
\* stays the same; an audit that goes while it publishes is settled.
LEMMA Quiet ==
    ASSUME IInv, PairOK, NEW s \in Sessions, StepOf(s),
           UNCHANGED <<findings, report, nextId>>, settled \subseteq settled',
           \/ audit'[s] = None
           \/ /\ audit[s] # None /\ audit'[s].id = audit[s].id
              /\ \A c \in Commits :
                   /\ LinkedFindings(audit'[s], handler'[s], c)
                        <=> LinkedFindings(audit[s], handler[s], c)
                   /\ LinkedReport(audit'[s], handler'[s], c)
                        <=> LinkedReport(audit[s], handler[s], c)
              /\ audit'[s].record # None => audit'[s].id \in settled',
           handler'[s].step # "remove report",
           handler[s].step \in Publishing =>
             \/ audit'[s] # None /\ handler'[s].step \in Publishing
             \/ audit[s].id \in settled'
             \/ \A c \in Commits : findings[c] # audit[s].id /\ report[c] # audit[s].id
    PROVE  PairOK'
<1>1. FilesAreLinked'
  <2>1. ASSUME audit'[s] # None PROVE FilesOf(findings', report', audit'[s], handler'[s])
    <3>1. FilesOf(findings, report, audit[s], handler[s]) /\ audit'[s].id = audit[s].id
      BY <2>1 DEF PairOK, FilesAreLinked
    <3> QED BY <2>1, <3>1 DEF FilesOf
  <2>2. ASSUME NEW t \in Sessions, t # s, audit'[t] # None
        PROVE  FilesOf(findings', report', audit'[t], handler'[t])
    <3>1. /\ FilesOf(findings, report, audit[t], handler[t])
          /\ audit'[t] = audit[t]
          /\ handler'[t] = handler[t]
      BY <2>2 DEF PairOK, FilesAreLinked, StepOf
    <3>2. findings' = findings /\ report' = report
      OBVIOUS
    <3> QED BY <3>1, <3>2
  <2> QED BY <2>1, <2>2 DEF FilesAreLinked
<1>2. ReportFollows'
  BY DEF PairOK, ReportFollows
<1>3. IdsApart'
  <2>1. \A t \in Sessions : audit'[t] # None => audit[t] # None /\ audit'[t].id = audit[t].id
    BY DEF StepOf
  <2>2. (\A c \in Commits : findings[c] # None => findings[c] < nextId)'
    BY DEF PairOK, IdsApart
  <2>3. (\A t \in Sessions : audit[t] # None => audit[t].id < nextId)'
    BY <2>1 DEF PairOK, IdsApart
  <2>4. \A t, u \in Sessions :
          audit'[t] # None /\ audit'[u] # None /\ audit'[t].id = audit'[u].id => t = u
    BY <2>1 DEF PairOK, IdsApart
  <2> QED BY <2>2, <2>3, <2>4 DEF IdsApart
<1>4. RecordedIsSettled'
  BY DEF PairOK, RecordedIsSettled, StepOf
<1>5. NothingDeletes'
  BY DEF PairOK, NothingDeletes, StepOf
<1>6. PublishedIsRecorded'
  <2> SUFFICES ASSUME NEW c \in Commits, NEW id \in {findings[c], report[c]} \ {None}
               PROVE  \/ id \in settled'
                      \/ \E t \in Sessions : audit'[t] # None /\ audit'[t].id = id
                                             /\ handler'[t].step \in Publishing
    BY DEF PublishedIsRecorded
  <2>1. CASE id \in settled
    BY <2>1
  <2>2. ASSUME NEW t \in Sessions, audit[t] # None, audit[t].id = id,
               handler[t].step \in Publishing
        PROVE  \/ id \in settled'
               \/ audit'[t] # None /\ audit'[t].id = id /\ handler'[t].step \in Publishing
    BY <2>2 DEF StepOf
  <2>3. \/ id \in settled
        \/ \E t \in Sessions : audit[t] # None /\ audit[t].id = id /\ handler[t].step \in Publishing
    BY DEF PairOK, PublishedIsRecorded
  <2> QED BY <2>1, <2>2, <2>3
<1> QED BY <1>1, <1>2, <1>3, <1>4, <1>5, <1>6 DEF PairOK

\* A new audit has an id of its own, and nothing on disk.
LEMMA Activates ==
    ASSUME IInv, PairOK, NEW s \in Sessions, NEW mode \in Modes, ActivateAudit(s, mode)
    PROVE  PairOK'
<1>1. /\ audit \in [Sessions -> Audits \cup {None}] /\ nextId \in Ids /\ nextId \in Nat
      /\ handler[s].step = "idle" /\ UNCHANGED <<handler, findings, report, settled>>
      /\ nextId' = nextId + 1
  BY MaxAuditsAssumption DEF IInv, TypeOK, ActivateAudit, Idle, disk, pair, Ids
<1>2. /\ audit'[s] = Fresh(mode) /\ StepOf(s)
  BY <1>1 DEF ActivateAudit, StepOf
<1>3. Fresh(mode).id = nextId /\ Fresh(mode).record = None
  BY DEF Fresh
<1>4. \A t \in Sessions : audit[t] # None => audit[t].id \in Nat /\ audit[t].id < nextId
  BY <1>1, MaxAuditsAssumption DEF Audits, Ids, PairOK, IdsApart
<1>5. \A c \in Commits : /\ findings[c] # None => findings[c] \in Nat /\ findings[c] < nextId
                         /\ report[c] # None => report[c] = findings[c]
  BY MaxAuditsAssumption DEF IInv, TypeOK, Ids, PairOK, IdsApart, ReportFollows
<1>6. nextId # None
  BY <1>1, NoneAssumption
<1>7. FilesAreLinked'
  <2>1. FilesOf(findings', report', audit'[s], handler'[s])
    <3>1. \A c \in Commits : findings'[c] # nextId /\ report'[c] # nextId
      BY <1>1, <1>5, <1>6
    <3>2. handler'[s].step = "idle" /\ audit'[s].id = nextId /\ audit'[s].record = None
      BY <1>1, <1>2, <1>3
    <3> QED BY <3>1, <3>2 DEF FilesOf, LinkedFindings, LinkedReport
  <2>2. ASSUME NEW t \in Sessions, t # s, audit'[t] # None
        PROVE  FilesOf(findings', report', audit'[t], handler'[t])
    <3>1. /\ FilesOf(findings, report, audit[t], handler[t])
          /\ audit'[t] = audit[t]
          /\ handler'[t] = handler[t]
      BY <1>2, <2>2 DEF PairOK, FilesAreLinked, StepOf
    <3> QED BY <1>1, <3>1 DEF FilesOf, LinkedFindings, LinkedReport
  <2> QED BY <2>1, <2>2 DEF FilesAreLinked
<1>8. IdsApart'
  <2>1. \A t \in Sessions : audit'[t] # None => audit'[t].id < nextId'
    BY <1>1, <1>2, <1>3, <1>4 DEF StepOf
  <2>2. \A c \in Commits : findings'[c] # None => findings'[c] < nextId'
    BY <1>1, <1>5
  <2>3. \A t, u \in Sessions :
          audit'[t] # None /\ audit'[u] # None /\ audit'[t].id = audit'[u].id => t = u
    BY <1>1, <1>2, <1>3, <1>4 DEF StepOf, PairOK, IdsApart
  <2> QED BY <2>1, <2>2, <2>3 DEF IdsApart
<1>9. RecordedIsSettled' /\ NothingDeletes' /\ ReportFollows'
  BY <1>1, <1>2, <1>3 DEF PairOK, RecordedIsSettled, NothingDeletes, ReportFollows, StepOf
<1>10. PublishedIsRecorded'
  <2>1. \A t \in Sessions : handler[t].step \in Publishing => t # s
    BY <1>1 DEF Publishing
  <2> QED BY <1>1, <1>2, <2>1 DEF PairOK, PublishedIsRecorded, StepOf
<1> QED BY <1>7, <1>8, <1>9, <1>10 DEF PairOK

\* A name is linked that was free, and the handler is one step further.
LEMMA Links ==
    ASSUME IInv, PairOK, NEW s \in Sessions, PublishFindings(s) \/ PublishReport(s)
    PROVE  PairOK'
<1> DEFINE c == handler[s].commit
           id == audit[s].id
<1>1. /\ handler[s].step \in {"publish findings", "publish report"}
      /\ handler \in [Sessions -> Handlers] /\ audit \in [Sessions -> Audits \cup {None}]
      /\ findings \in [Commits -> Ids \cup {None}] /\ report \in [Commits -> Ids \cup {None}]
      /\ UNCHANGED <<audit, nextId, settled>>
  BY DEF PublishFindings, PublishReport, At, IInv, TypeOK, memory
<1>2. /\ audit[s] # None /\ audit[s] \in Audits /\ audit[s].record = None /\ c \in Commits
  BY <1>1, InOrder DEF Consistent, Publishing
<1>3. id \in Ids /\ id # None /\ id < nextId
  BY <1>2, NoneAssumption DEF Audits, PairOK, IdsApart
<1>4. FilesOf(findings, report, audit[s], handler[s])
  BY <1>2 DEF PairOK, FilesAreLinked
<1>5. \/ /\ handler[s].step = "publish findings" /\ handler'[s].step = "publish report"
         /\ findings[c] = None /\ findings' = [findings EXCEPT ![c] = id] /\ UNCHANGED report
      \/ /\ handler[s].step = "publish report" /\ handler'[s].step = "read back"
         /\ report[c] = None /\ report' = [report EXCEPT ![c] = id] /\ UNCHANGED findings
  <2>1. CASE PublishFindings(s)
    <3>1. Proceed(s, "publish report") /\ At(s, "publish findings") /\ UNCHANGED report
      BY <2>1 DEF PublishFindings
    <3>2. findings[c] = None /\ findings' = [findings EXCEPT ![c] = id]
      BY <2>1 DEF PublishFindings
    <3>3. handler'[s].step = "publish report"
      BY <1>1, <3>1 DEF Proceed, Handlers
    <3> QED BY <3>1, <3>2, <3>3 DEF At
  <2>2. CASE PublishReport(s)
    <3>1. Proceed(s, "read back") /\ At(s, "publish report") /\ UNCHANGED findings
      BY <2>2 DEF PublishReport
    <3>2. report[c] = None /\ report' = [report EXCEPT ![c] = id]
      BY <2>2 DEF PublishReport
    <3>3. handler'[s].step = "read back"
      BY <1>1, <3>1 DEF Proceed, Handlers
    <3> QED BY <3>1, <3>2, <3>3 DEF At
  <2> QED BY <2>1, <2>2
<1>6. handler'[s].commit = c /\ \A t \in Sessions : t # s => handler'[t] = handler[t]
  <2>1. PICK step : Proceed(s, step)
    BY DEF PublishFindings, PublishReport
  <2> QED BY <1>1, <2>1 DEF Proceed, Handlers
<1> HIDE DEF c, id
<1>7. \A d \in Commits : d # c => findings'[d] = findings[d] /\ report'[d] = report[d]
  BY <1>1, <1>5
<1>8. /\ findings'[c] = id
      /\ report'[c] = IF handler[s].step = "publish report" THEN id ELSE None
      /\ findings[c] \in {None, id} /\ report[c] = None
  <2>1. CASE handler[s].step = "publish findings"
    <3>1. report[c] = None
      BY <1>2, <1>5, <2>1 DEF PairOK, ReportFollows
    <3> QED BY <1>1, <1>2, <1>5, <2>1, <3>1
  <2>2. CASE handler[s].step = "publish report"
    <3>1. findings[c] = id
      BY <1>2, <1>4, <2>2 DEF FilesOf, LinkedFindings, c, id
    <3> QED BY <1>1, <1>2, <1>5, <2>2, <3>1
  <2> QED BY <1>1, <2>1, <2>2
<1>9. FilesAreLinked'
  <2>1. FilesOf(findings', report', audit'[s], handler'[s])
    <3> SUFFICES ASSUME NEW d \in Commits
                 PROVE  /\ findings'[d] = id <=> LinkedFindings(audit[s], handler'[s], d)
                        /\ report'[d] = id <=> LinkedReport(audit[s], handler'[s], d)
      BY <1>1 DEF FilesOf, id, LinkedFindings, LinkedReport
    <3>1. /\ findings[d] = id <=> LinkedFindings(audit[s], handler[s], d)
          /\ report[d] = id <=> LinkedReport(audit[s], handler[s], d)
      BY <1>4 DEF FilesOf, id
    <3>2. CASE d = c
      BY <1>2, <1>3, <1>5, <1>6, <1>8, <3>2 DEF LinkedFindings, LinkedReport
    <3>3. CASE d # c
      <4>1. handler[s].commit # d /\ handler'[s].commit # d
        BY <1>6, <3>3 DEF c
      <4> QED BY <1>2, <1>7, <3>1, <3>3, <4>1 DEF LinkedFindings, LinkedReport
    <3> QED BY <3>2, <3>3
  <2>2. ASSUME NEW t \in Sessions, t # s, audit[t] # None
        PROVE  FilesOf(findings', report', audit'[t], handler'[t])
    <3>1. audit[t].id # id /\ audit[t].id # None
      <4>1. audit[t].id \in Ids
        BY <1>1, <2>2 DEF Audits
      <4> QED BY <1>2, <2>2, <4>1, NoneAssumption DEF PairOK, IdsApart, id
    <3>2. FilesOf(findings, report, audit[t], handler[t])
      BY <2>2 DEF PairOK, FilesAreLinked
    <3>3. \A d \in Commits : /\ findings'[d] = audit[t].id <=> findings[d] = audit[t].id
                             /\ report'[d] = audit[t].id <=> report[d] = audit[t].id
      BY <1>7, <1>8, <3>1
    <3>4. audit'[t] = audit[t] /\ handler'[t] = handler[t]
      BY <1>1, <1>6, <2>2
    <3>5. FilesOf(findings', report', audit[t], handler[t])
      BY <3>2, <3>3 DEF FilesOf
    <3> QED BY <3>4, <3>5
  <2> QED BY <1>1, <2>1, <2>2 DEF FilesAreLinked
<1>10. ReportFollows'
  BY <1>3, <1>7, <1>8 DEF PairOK, ReportFollows
<1>11. IdsApart' /\ RecordedIsSettled' /\ NothingDeletes'
  <2>1. \A d \in Commits : findings'[d] # None => findings'[d] < nextId
    BY <1>3, <1>7, <1>8 DEF PairOK, IdsApart
  <2>2. IdsApart'
    BY <1>1, <2>1 DEF PairOK, IdsApart
  <2>3. RecordedIsSettled'
    BY <1>1 DEF PairOK, RecordedIsSettled
  <2>4. NothingDeletes'
    BY <1>5, <1>6 DEF PairOK, NothingDeletes
  <2> QED BY <2>2, <2>3, <2>4
<1>12. PublishedIsRecorded'
  <2>1. \A t \in Sessions : handler[t].step \in Publishing => handler'[t].step \in Publishing
    BY <1>5, <1>6 DEF Publishing
  <2>2. handler'[s].step \in Publishing
    BY <1>5 DEF Publishing
  <2> SUFFICES ASSUME NEW d \in Commits, NEW x \in {findings'[d], report'[d]} \ {None}
               PROVE  \/ x \in settled
                      \/ \E t \in Sessions : audit[t] # None /\ audit[t].id = x
                                             /\ handler'[t].step \in Publishing
    BY <1>1 DEF PublishedIsRecorded
  <2>3. CASE x = id
    BY <1>2, <2>2, <2>3 DEF id
  <2>4. CASE x # id
    <3>1. x \in {findings[d], report[d]} \ {None}
      BY <1>7, <1>8, <2>4
    <3> QED BY <2>1, <3>1 DEF PairOK, PublishedIsRecorded
  <2> QED BY <2>3, <2>4
<1> QED BY <1>9, <1>10, <1>11, <1>12 DEF PairOK

\* What was linked is unlinked, and the handler returns.
RolledBack(s) ==
    /\ handler[s].step \in {"publish report", "read back", "record"}
    /\ handler' = [handler EXCEPT ![s] = Idling] /\ UNCHANGED <<audit, nextId, settled>>
    /\ findings' = [findings EXCEPT ![handler[s].commit] = None]
    /\ \/ report' = [report EXCEPT ![handler[s].commit] = None]
       \/ handler[s].step = "publish report" /\ UNCHANGED report

\* A roll-back leaves nothing of its audit.
LEMMA RollsBack ==
    ASSUME IInv, PairOK, NEW s \in Sessions, RolledBack(s)
    PROVE  PairOK'
<1> DEFINE c == handler[s].commit
           id == audit[s].id
<1>1. /\ handler \in [Sessions -> Handlers] /\ audit \in [Sessions -> Audits \cup {None}]
      /\ findings \in [Commits -> Ids \cup {None}] /\ report \in [Commits -> Ids \cup {None}]
  BY DEF IInv, TypeOK
<1>0. /\ audit' = audit /\ nextId' = nextId /\ settled' = settled
      /\ handler[s].step \in {"publish report", "read back", "record"}
  BY DEF RolledBack
<1>2. /\ audit[s] # None /\ audit[s] \in Audits /\ audit[s].record = None /\ c \in Commits
  BY <1>0, InOrder DEF Consistent, Publishing
<1>3. id \in Ids /\ id # None
  BY <1>2, NoneAssumption DEF Audits
<1>4. FilesOf(findings, report, audit[s], handler[s])
  BY <1>2 DEF PairOK, FilesAreLinked
<1>5. findings[c] = id
  BY <1>0, <1>2, <1>4 DEF FilesOf, LinkedFindings
<1>6. report[c] \in {None, id} /\ (handler[s].step = "publish report" => report[c] = None)
  <2>1. report[c] \in {None, id}
    BY <1>2, <1>5 DEF PairOK, ReportFollows
  <2>2. handler[s].step = "publish report" => report[c] # id
    BY <1>2, <1>4 DEF FilesOf, LinkedReport
  <2> QED BY <2>1, <2>2
<1>7. /\ Idling.step = "idle" /\ handler'[s] = Idling
      /\ \A t \in Sessions : t # s => handler'[t] = handler[t]
  BY <1>1 DEF Idling, RolledBack
<1> HIDE DEF c, id
<1>8. /\ findings'[c] = None /\ report'[c] = None
      /\ \A d \in Commits : d # c => findings'[d] = findings[d] /\ report'[d] = report[d]
  BY <1>1, <1>2, <1>6 DEF c, RolledBack
<1>9. \A d \in Commits : d # c => findings[d] # id /\ report[d] # id
  BY <1>2, <1>4 DEF FilesOf, LinkedFindings, LinkedReport, c, id
<1>10. FilesAreLinked'
  <2>1. FilesOf(findings', report', audit'[s], handler'[s])
    BY <1>0, <1>2, <1>3, <1>7, <1>8, <1>9 DEF FilesOf, LinkedFindings, LinkedReport, id
  <2>2. ASSUME NEW t \in Sessions, t # s, audit[t] # None
        PROVE  FilesOf(findings', report', audit'[t], handler'[t])
    <3>1. audit[t].id # id /\ audit[t].id # None
      <4>1. audit[t].id \in Ids
        BY <1>1, <2>2 DEF Audits
      <4> QED BY <1>2, <2>2, <4>1, NoneAssumption DEF PairOK, IdsApart, id
    <3>2. FilesOf(findings, report, audit[t], handler[t])
      BY <2>2 DEF PairOK, FilesAreLinked
    <3>3. \A d \in Commits : /\ findings'[d] = audit[t].id <=> findings[d] = audit[t].id
                             /\ report'[d] = audit[t].id <=> report[d] = audit[t].id
      BY <1>5, <1>6, <1>8, <3>1
    <3>4. audit'[t] = audit[t] /\ handler'[t] = handler[t]
      BY <1>0, <1>7, <2>2
    <3>5. FilesOf(findings', report', audit[t], handler[t])
      BY <3>2, <3>3 DEF FilesOf
    <3> QED BY <3>4, <3>5
  <2> QED BY <1>0, <2>1, <2>2 DEF FilesAreLinked
<1>11. ReportFollows'
  BY <1>8 DEF PairOK, ReportFollows
<1>12. IdsApart' /\ RecordedIsSettled' /\ NothingDeletes'
  BY <1>0, <1>7, <1>8 DEF PairOK, IdsApart, RecordedIsSettled, NothingDeletes
<1>13. PublishedIsRecorded'
  <2> SUFFICES ASSUME NEW d \in Commits, NEW x \in {findings'[d], report'[d]} \ {None}
               PROVE  \/ x \in settled
                      \/ \E t \in Sessions : audit[t] # None /\ audit[t].id = x
                                             /\ handler'[t].step \in Publishing
    BY <1>0 DEF PublishedIsRecorded
  <2>1. d # c /\ x \in {findings[d], report[d]} \ {None} /\ x # id
    BY <1>8, <1>9
  <2>2. \A t \in Sessions : audit[t] # None /\ audit[t].id = x => t # s
    BY <2>1 DEF id
  <2>3. ASSUME NEW t \in Sessions, audit[t] # None, audit[t].id = x, handler[t].step \in Publishing
        PROVE  handler'[t].step \in Publishing
    BY <1>7, <2>2, <2>3
  <2> QED BY <2>1, <2>3 DEF PairOK, PublishedIsRecorded
<1> QED BY <1>10, <1>11, <1>12, <1>13 DEF PairOK

-----------------------------------------------------------------------------
(* Every step of a session is of one of these kinds.                       *)

\* A step that leaves the audit's id and record alone, outside of publishing.
LEMMA Elsewhere ==
    ASSUME IInv, PairOK, NEW s \in Sessions, StepOf(s),
           UNCHANGED <<findings, report, nextId, settled>>,
           audit[s] # None => audit'[s] # None /\ audit'[s].id = audit[s].id
                              /\ audit'[s].record = audit[s].record,
           audit[s] = None => audit'[s] = None,
           handler[s].step \notin Publishing, handler'[s].step \notin Publishing,
           handler'[s].step # "remove report"
    PROVE  PairOK'
<1>1. ASSUME NEW c \in Commits, audit[s] # None
      PROVE  /\ LinkedFindings(audit'[s], handler'[s], c)
                  <=> LinkedFindings(audit[s], handler[s], c)
             /\ LinkedReport(audit'[s], handler'[s], c) <=> LinkedReport(audit[s], handler[s], c)
  BY <1>1 DEF LinkedFindings, LinkedReport, Publishing
<1>2. audit[s] # None /\ audit[s].record # None => audit[s].id \in settled
  BY DEF PairOK, RecordedIsSettled
<1> QED BY <1>1, <1>2, Quiet

\* An audit that is activated, closed or lost with its session.
LEMMA LifecycleKeepsPair ==
    ASSUME IInv, PairOK, NEW s \in Sessions, Lifecycle(s) PROVE PairOK'
<1>1. /\ audit \in [Sessions -> Audits \cup {None}] /\ handler \in [Sessions -> Handlers]
      /\ handler[s].step # "remove report" /\ Idling.step = "idle"
  BY DEF IInv, TypeOK, PairOK, NothingDeletes, Idling
<1>2. ASSUME NEW mode \in Modes, ActivateAudit(s, mode) PROVE PairOK'
  BY <1>2, Activates
<1>3. CASE Expires(s) \/ \E store \in Stores : Keep(s, store)
  <2>1. UNCHANGED <<audit, handler, findings, report, nextId, settled>>
    BY <1>3 DEF Expires, Keep, disk, pair
  <2>2. audit[s] # None /\ audit[s].record # None => audit[s].id \in settled
    BY DEF PairOK, RecordedIsSettled
  <2>3. \/ audit'[s] = None
        \/ /\ audit[s] # None /\ audit'[s].id = audit[s].id
           /\ \A c \in Commits :
                /\ LinkedFindings(audit'[s], handler'[s], c)
                     <=> LinkedFindings(audit[s], handler[s], c)
                /\ LinkedReport(audit'[s], handler'[s], c) <=> LinkedReport(audit[s], handler[s], c)
           /\ audit'[s].record # None => audit'[s].id \in settled'
    BY <2>1, <2>2
  <2>4. handler[s].step \in Publishing => audit[s] # None
    BY InOrder DEF Publishing
  <2> QED BY <1>1, <2>1, <2>3, <2>4, Quiet DEF StepOf
<1>4. CASE GetActiveAudit(s) \/ \E abandon \in BOOLEAN : CloseAudit(s, abandon)
  <2>1. /\ audit' = [audit EXCEPT ![s] = None] /\ handler[s].step = "idle"
        /\ UNCHANGED <<handler, findings, report, nextId, settled>>
    BY <1>4 DEF GetActiveAudit, CloseAudit, Forget, Ready, Idle, disk, pair
  <2>2. StepOf(s) /\ audit'[s] = None
    BY <1>1, <2>1 DEF StepOf
  <2> QED BY <1>1, <2>1, <2>2, Quiet DEF Publishing
<1>5. CASE Crash(s)
  <2>1. /\ audit' = [audit EXCEPT ![s] = None] /\ handler' = [handler EXCEPT ![s] = Idling]
        /\ UNCHANGED <<findings, report, nextId>> /\ settled \subseteq settled'
        /\ handler[s].step \in Publishing => audit[s].id \in settled'
    BY <1>5 DEF Crash, Forget, Return, pair
  <2>2. StepOf(s) /\ audit'[s] = None /\ handler'[s].step # "remove report"
    BY <1>1, <2>1 DEF StepOf
  <2> QED BY <2>1, <2>2, Quiet
<1> QED BY <1>2, <1>3, <1>4, <1>5 DEF Lifecycle

\* The steps of an audit before its report touch no file of the pair.
LEMMA AuditingKeepsPair ==
    ASSUME IInv, PairOK, NEW s \in Sessions, Auditing(s) PROVE PairOK'
<1>1. /\ audit \in [Sessions -> Audits \cup {None}]
      /\ audit[s] # None /\ audit[s] \in Audits /\ handler[s].step = "idle"
      /\ UNCHANGED <<handler, findings, report, nextId, settled>>
  BY DEF IInv, TypeOK, Auditing, SafeListTree, Assure, Ready, Live, Idle, disk, pair
<1>2. \/ \E c \in Commits : audit' = [audit EXCEPT ![s].commit = c]
      \/ \E to \in {"started", "validated"} : audit' = [audit EXCEPT ![s].stage = to]
  BY DEF Auditing, SafeListTree, Assure
<1>3. /\ audit'[s].id = audit[s].id /\ audit'[s].record = audit[s].record
      /\ audit'[s] \in Audits /\ StepOf(s)
  BY <1>1, <1>2 DEF StepOf, Audits
<1>4. audit'[s] # None
  BY <1>3, NoneAssumption
<1> QED BY <1>1, <1>3, <1>4, Elsewhere DEF Publishing

\* Nor does a clone, which runs while nothing is published.
LEMMA SafeCloneKeepsPair ==
    ASSUME IInv, PairOK, NEW s \in Sessions, SafeClone(s) PROVE PairOK'
<1>1. /\ audit \in [Sessions -> Audits \cup {None}] /\ handler \in [Sessions -> Handlers]
      /\ handler[s].step \in Cloning \cup {"idle"} /\ Idling.step = "idle"
      /\ UNCHANGED <<findings, report, nextId, settled>>
  BY DEF IInv, TypeOK, Idling, SafeClone, CloneBegins, GitClones, GitChecksOut, BindClone, At,
         Ready, Idle, Cloning, disk, pair
<1>2. audit[s] # None /\ audit[s] \in Audits
  BY <1>1, InOrder DEF SafeClone, CloneBegins, GitClones, GitChecksOut, BindClone, At, Ready, Live
<1>3. /\ handler'[s].step \in Cloning \cup {"idle"}
      /\ \A t \in Sessions : t # s => handler'[t] = handler[t]
  <2>1. ASSUME NEW c \in Commits, CloneBegins(s, c)
        PROVE  \/ handler' = handler
               \/ handler' = [handler EXCEPT ![s] = [step |-> "clone", commit |-> c, flow |-> None]]
    BY <2>1 DEF CloneBegins
  <2>2. CASE GitClones(s) \/ GitChecksOut(s) \/ BindClone(s)
    BY <1>1, <2>2 DEF GitClones, GitChecksOut, BindClone, Return, Proceed, Cloning, Handlers
  <2> QED BY <1>1, <2>1, <2>2 DEF SafeClone, Cloning
<1>4. /\ audit'[s] \in Audits /\ audit'[s].id = audit[s].id /\ audit'[s].record = audit[s].record
      /\ \A t \in Sessions : t # s => audit'[t] = audit[t]
  <2>1. CASE audit' = audit
    BY <1>2, <2>1
  <2>2. CASE BindClone(s) /\ audit' # audit
    <3> DEFINE c == handler[s].commit
    <3>1. audit' = [audit EXCEPT ![s].commit = c, ![s].clonePath = c]
      BY <2>2 DEF BindClone
    <3>2. c \in Commits
      BY <2>2, InOrder DEF BindClone, At, Consistent, Cloning
    <3> HIDE DEF c
    <3> QED BY <1>1, <1>2, <3>1, <3>2 DEF Audits
  <2> QED BY <2>1, <2>2 DEF SafeClone, CloneBegins, GitClones, GitChecksOut, memory
<1>5. audit'[s] # None /\ StepOf(s)
  BY <1>3, <1>4, NoneAssumption DEF StepOf
<1> QED BY <1>1, <1>2, <1>3, <1>4, <1>5, Elsewhere DEF Publishing, Cloning

\* No cleanup deletes a report.
LEMMA CleanupKeepsPair ==
    ASSUME Faultless, IInv, PairOK, NEW s \in Sessions, CleanupAudit(s) PROVE PairOK'
<1>1. handler[s].step # "remove report"
  BY DEF PairOK, NothingDeletes
<1>2. \E alsoReport \in BOOLEAN : CleanupRemovesClone(s, alsoReport)
  BY <1>1 DEF CleanupAudit, CleanupRemovesReport, At
<1>3. UNCHANGED <<audit, handler, findings, report, nextId, settled>>
  BY <1>2 DEF CleanupRemovesClone, Faultless, memory, pair
<1>4. handler[s].step = "idle"
  BY <1>2 DEF CleanupRemovesClone, Ready, Idle
<1> QED BY <1>1, <1>3, <1>4, Elsewhere DEF StepOf, Publishing

\* Nor does the host execution gate.
LEMMA HostKeepsPair ==
    ASSUME IInv, PairOK, NEW s \in Sessions, Host(s) PROVE PairOK'
<1>1. /\ handler \in [Sessions -> Handlers] /\ handler[s].step \in {"idle", "host"}
      /\ UNCHANGED <<audit, findings, report, nextId, settled>>
  BY DEF IInv, TypeOK, Host, HostStarts, HostReturns, At, Ready, Idle, disk, pair, memory
<1>2. handler'[s].step \in {"idle", "host"} /\ \A t \in Sessions : t # s => handler'[t] = handler[t]
  BY <1>1 DEF Host, HostStarts, HostReturns, Return, Idling
<1> QED BY <1>1, <1>2, Elsewhere DEF StepOf, Publishing

-----------------------------------------------------------------------------
(* finalize_report.                                                        *)

\* It begins with nothing linked, looks once more, and ends what it wrote by reading.
LEMMA PublishingKeepsPair ==
    ASSUME IInv, PairOK, NEW s \in Sessions,
           (\E flow \in Flows : FinalizeBegins(s, flow)) \/ CheckPair(s) \/ ReadBack(s)
    PROVE  PairOK'
<1>1. /\ handler \in [Sessions -> Handlers]
      /\ UNCHANGED <<audit, findings, report, nextId, settled>>
  BY DEF IInv, TypeOK, FinalizeBegins, CheckPair, ReadBack, disk, pair, memory
<1>2. /\ \/ /\ handler[s].step \in {"idle", "check"}
            /\ handler'[s].step \in {"check", "publish findings"}
         \/ /\ handler[s].step = "read back" /\ handler'[s].step = "record"
            /\ handler'[s].commit = handler[s].commit
      /\ \A t \in Sessions : t # s => handler'[t] = handler[t]
  <2>1. ASSUME NEW flow \in Flows, FinalizeBegins(s, flow)
        PROVE  /\ handler[s].step = "idle"
               /\ handler' = [handler EXCEPT ![s] =
                    [step |-> "check", commit |-> audit[s].commit, flow |-> flow]]
    BY <2>1 DEF FinalizeBegins, Ready, Idle
  <2>2. CASE \E flow \in Flows : FinalizeBegins(s, flow)
    <3>1. PICK flow \in Flows : FinalizeBegins(s, flow)
      BY <2>2
    <3>2. /\ handler[s].step = "idle"
          /\ handler' = [handler EXCEPT ![s] =
               [step |-> "check", commit |-> audit[s].commit, flow |-> flow]]
      BY <2>1, <3>1
    <3> QED BY <1>1, <3>2
  <2>3. CASE CheckPair(s)
    BY <1>1, <2>3 DEF CheckPair, At, Proceed, Handlers
  <2>4. CASE ReadBack(s)
    BY <1>1, <2>4 DEF ReadBack, At, Proceed, Handlers
  <2> QED BY <2>2, <2>3, <2>4
<1>3. audit[s] # None
  BY <1>2, InOrder DEF FinalizeBegins, CheckPair, ReadBack, At, Ready, Live
<1>4. ASSUME NEW c \in Commits
      PROVE  /\ LinkedFindings(audit[s], handler'[s], c) <=> LinkedFindings(audit[s], handler[s], c)
             /\ LinkedReport(audit[s], handler'[s], c) <=> LinkedReport(audit[s], handler[s], c)
  BY <1>2 DEF LinkedFindings, LinkedReport
<1>5. audit[s].record # None => audit[s].id \in settled
  BY <1>3 DEF PairOK, RecordedIsSettled
<1>6. handler'[s].step \in Publishing /\ handler'[s].step # "remove report"
  BY <1>2 DEF Publishing
<1>7. \/ audit'[s] = None
      \/ /\ audit[s] # None /\ audit'[s].id = audit[s].id
         /\ \A c \in Commits :
              /\ LinkedFindings(audit'[s], handler'[s], c)
                   <=> LinkedFindings(audit[s], handler[s], c)
              /\ LinkedReport(audit'[s], handler'[s], c) <=> LinkedReport(audit[s], handler[s], c)
         /\ audit'[s].record # None => audit'[s].id \in settled'
  BY <1>1, <1>3, <1>4, <1>5
<1> QED BY <1>1, <1>2, <1>3, <1>6, <1>7, Quiet DEF StepOf

\* A failure unlinks what was linked, and no more.
LEMMA FailureKeepsPair ==
    ASSUME Faultless, IInv, PairOK, NEW s \in Sessions, PublicationFails(s) PROVE PairOK'
<1>1. /\ handler \in [Sessions -> Handlers] /\ UNCHANGED <<audit, nextId, settled>>
      /\ handler' = [handler EXCEPT ![s] = Idling] /\ Idling.step = "idle"
      /\ handler[s].step \in {"check", "publish findings", "publish report", "read back"}
  BY DEF IInv, TypeOK, PublicationFails, Return, Idling, memory
<1>2. /\ findings' = IF handler[s].step \in {"publish report", "read back"}
                     THEN [findings EXCEPT ![handler[s].commit] = None] ELSE findings
      /\ report' = IF handler[s].step = "read back"
                   THEN [report EXCEPT ![handler[s].commit] = None] ELSE report
  BY DEF PublicationFails, RollBack, Left, Faultless, At
<1>3. CASE handler[s].step \in {"publish report", "read back"}
  <2>1. RolledBack(s)
    BY <1>1, <1>2, <1>3 DEF RolledBack
  <2> QED BY <2>1, RollsBack
<1>4. CASE handler[s].step \in {"check", "publish findings"}
  <2>1. audit[s] # None /\ audit[s].record = None /\ FilesOf(findings, report, audit[s], handler[s])
    BY <1>4, InOrder DEF Consistent, Publishing, PairOK, FilesAreLinked
  <2>2. \A c \in Commits : findings[c] # audit[s].id /\ report[c] # audit[s].id
    BY <1>4, <2>1 DEF FilesOf, LinkedFindings, LinkedReport
  <2>3. handler'[s] = Idling /\ StepOf(s) /\ UNCHANGED <<findings, report>>
    BY <1>1, <1>2, <1>4 DEF StepOf
  <2>4. ASSUME NEW c \in Commits
        PROVE  /\ LinkedFindings(audit[s], handler'[s], c)
                    <=> LinkedFindings(audit[s], handler[s], c)
               /\ LinkedReport(audit[s], handler'[s], c) <=> LinkedReport(audit[s], handler[s], c)
    BY <1>1, <1>4, <2>3 DEF LinkedFindings, LinkedReport
  <2> QED BY <1>1, <2>1, <2>2, <2>3, <2>4, Quiet
<1> QED BY <1>1, <1>3, <1>4

\* The record takes over what was linked; one that comes too late takes nothing.
LEMMA RecordKeepsPair ==
    ASSUME Faultless, IInv, PairOK, NEW s \in Sessions, RecordReportFinalization(s) PROVE PairOK'
<1>1. /\ handler \in [Sessions -> Handlers] /\ audit \in [Sessions -> Audits \cup {None}]
      /\ handler[s].step = "record" /\ UNCHANGED nextId
  BY DEF IInv, TypeOK, RecordReportFinalization, At
<1>2. audit[s] # None /\ audit[s] \in Audits /\ audit[s].record = None
  BY <1>1, InOrder DEF Consistent, Publishing
<1>3. CASE Live(s)
  <2> DEFINE record == [commit |-> handler[s].commit, flow |-> handler[s].flow, sealed |-> FALSE]
             step == IF handler[s].flow = "other" THEN "seal" ELSE "stage"
  <2>1. /\ audit' = [audit EXCEPT ![s].record = record] /\ settled' = settled \cup {audit[s].id}
        /\ handler' = [handler EXCEPT ![s].step = step] /\ UNCHANGED <<findings, report>>
    BY <1>3 DEF RecordReportFinalization, Proceed, pair
  <2>2. record # None /\ record.commit = handler[s].commit
    <3>1. record \in Records
      BY <1>1, InOrder DEF Consistent, Publishing, Records
    <3> QED BY <3>1, NoneAssumption
  <2>3. step \in {"seal", "stage"}
    OBVIOUS
  <2> HIDE DEF record, step
  <2>4. /\ audit'[s].id = audit[s].id /\ audit'[s].record = record /\ handler'[s].step = step
        /\ StepOf(s)
    BY <1>1, <1>2, <2>1 DEF StepOf, Audits, Handlers
  <2>5. ASSUME NEW c \in Commits
        PROVE  /\ LinkedFindings(audit'[s], handler'[s], c)
                    <=> LinkedFindings(audit[s], handler[s], c)
               /\ LinkedReport(audit'[s], handler'[s], c) <=> LinkedReport(audit[s], handler[s], c)
    BY <1>1, <1>2, <2>2, <2>3, <2>4 DEF LinkedFindings, LinkedReport
  <2>6. /\ settled \subseteq settled' /\ audit[s].id \in settled'
        /\ UNCHANGED <<findings, report, nextId>>
    BY <1>1, <2>1
  <2>7. handler'[s].step # "remove report" /\ audit'[s].id \in settled'
    BY <2>3, <2>4, <2>6
  <2> QED BY <1>2, <2>4, <2>5, <2>6, <2>7, Quiet
<1>4. CASE ~Live(s)
  <2>1. RolledBack(s)
    BY <1>1, <1>4 DEF RolledBack, RecordReportFinalization, RollBack, Left, Faultless, Return
  <2> QED BY <2>1, RollsBack
<1> QED BY <1>3, <1>4

\* What a finalizer does after the record.
LEMMA SealingKeepsPair ==
    ASSUME IInv, PairOK, NEW s \in Sessions, FinalizeResumes(s) \/ FinalizeStage(s) \/ Seal(s)
    PROVE  PairOK'
<1>1. /\ handler \in [Sessions -> Handlers] /\ audit \in [Sessions -> Audits \cup {None}]
      /\ handler[s].step \in {"idle", "stage", "seal"} /\ Idling.step = "idle"
      /\ UNCHANGED <<findings, report, nextId, settled>>
  BY DEF IInv, TypeOK, FinalizeResumes, FinalizeStage, Seal, At, Ready, Idle, Idling, disk, pair
<1>2. audit[s] # None /\ audit[s] \in Audits /\ audit[s].record # None
  BY <1>1, InOrder DEF FinalizeResumes, FinalizeStage, Seal, At, Ready, Live, Consistent
<1>3. /\ handler'[s].step \in {"idle", "stage", "seal"}
      /\ \A t \in Sessions : t # s => handler'[t] = handler[t]
  <2>1. CASE FinalizeResumes(s)
    <3> DEFINE h == [step |-> IF audit[s].record.flow = "other" THEN "seal" ELSE "stage",
                     commit |-> audit[s].record.commit, flow |-> audit[s].record.flow]
    <3>1. h.step \in {"idle", "stage", "seal"}
      OBVIOUS
    <3>2. handler' = [handler EXCEPT ![s] = h]
      BY <2>1 DEF FinalizeResumes
    <3> HIDE DEF h
    <3> QED BY <1>1, <3>1, <3>2
  <2>2. CASE FinalizeStage(s) \/ Seal(s)
    BY <1>1, <2>2 DEF FinalizeStage, Seal, Return, Proceed, Handlers
  <2> QED BY <2>1, <2>2
<1>4. /\ \A t \in Sessions : t # s => audit'[t] = audit[t]
      /\ \/ audit'[s] = None
         \/ /\ audit'[s].id = audit[s].id /\ audit'[s].record # None
            /\ audit'[s].record.commit = audit[s].record.commit
  <2>1. CASE FinalizeResumes(s)
    BY <1>2, <2>1 DEF FinalizeResumes, memory
  <2>2. CASE FinalizeStage(s)
    BY <1>1, <1>2, <2>2 DEF FinalizeStage, Forget, Audits
  <2>3. CASE Seal(s)
    <3> DEFINE record == [audit[s].record EXCEPT !.sealed = TRUE]
    <3>1. record \in Records /\ record.commit = audit[s].record.commit
      BY <1>2 DEF Audits, Records
    <3>2. audit' = audit \/ audit' = [audit EXCEPT ![s].record = record]
      BY <1>1, <2>3 DEF Seal
    <3> HIDE DEF record
    <3> QED BY <1>1, <1>2, <3>1, <3>2, NoneAssumption DEF Audits
  <2> QED BY <2>1, <2>2, <2>3
<1>5. ASSUME NEW c \in Commits, audit'[s] # None
      PROVE  /\ LinkedFindings(audit'[s], handler'[s], c)
                  <=> LinkedFindings(audit[s], handler[s], c)
             /\ LinkedReport(audit'[s], handler'[s], c) <=> LinkedReport(audit[s], handler[s], c)
  BY <1>1, <1>2, <1>3, <1>4, <1>5 DEF LinkedFindings, LinkedReport
<1>6. audit[s].id \in settled
  BY <1>2 DEF PairOK, RecordedIsSettled
<1>7. StepOf(s)
  BY <1>3, <1>4 DEF StepOf
<1> QED BY <1>1, <1>2, <1>3, <1>4, <1>5, <1>6, <1>7, Quiet DEF Publishing

\* Every step of a finalizer.
LEMMA FinalizeKeepsPair ==
    ASSUME Faultless, IInv, PairOK, NEW s \in Sessions, FinalizeReport(s) PROVE PairOK'
<1>1. ~PublicationSticks(s)
  BY DEF PublicationSticks, Faultless
<1> QED BY <1>1, PublishingKeepsPair, Links, FailureKeepsPair, RecordKeepsPair, SealingKeepsPair
        DEF FinalizeReport

-----------------------------------------------------------------------------
(* Theorems.                                                               *)

\* When no fault is allowed, the pair is in order.
PairInv == IInv /\ (Faultless => PairOK)

\* PairInv holds in every reachable state.
LEMMA PairInvariant == Spec => []PairInv
<1>1. Init => PairInv
  <2> SUFFICES ASSUME Init PROVE PairInv
    OBVIOUS
  <2>1. PairOK
    BY DEF Init, PairOK, FilesAreLinked, ReportFollows, IdsApart, RecordedIsSettled,
           NothingDeletes, PublishedIsRecorded, Idling
  <2> QED BY <2>1, InitInvariant DEF PairInv
<1>2. PairInv /\ [Next]_vars => PairInv'
  <2> SUFFICES ASSUME PairInv, [Next]_vars, Faultless PROVE PairOK'
    BY NextInvariant DEF PairInv
  <2>1. IInv /\ PairOK
    BY DEF PairInv
  <2>2. CASE UNCHANGED <<audit, handler, findings, report, nextId, settled>>
    <3>1. FilesAreLinked' /\ ReportFollows'
      BY <2>1, <2>2 DEF PairOK, FilesAreLinked, ReportFollows, FilesOf
    <3>2. IdsApart' /\ RecordedIsSettled' /\ NothingDeletes'
      BY <2>1, <2>2 DEF PairOK, IdsApart, RecordedIsSettled, NothingDeletes
    <3>3. PublishedIsRecorded'
      BY <2>1, <2>2 DEF PairOK, PublishedIsRecorded
    <3> QED BY <3>1, <3>2, <3>3 DEF PairOK
  <2>3. ASSUME NEW s \in Sessions,
               \/ Lifecycle(s) \/ Auditing(s) \/ SafeClone(s)
               \/ CleanupAudit(s) \/ FinalizeReport(s) \/ Host(s)
        PROVE  PairOK'
    BY <2>1, <2>3, LifecycleKeepsPair, AuditingKeepsPair, SafeCloneKeepsPair, CleanupKeepsPair,
       FinalizeKeepsPair, HostKeepsPair
  <2>4. ASSUME NEW c \in Commits, GoesStale(c)
        PROVE  UNCHANGED <<audit, handler, findings, report, nextId, settled>>
    BY <2>4 DEF GoesStale, memory, pair
  <2>5. UNCHANGED vars => UNCHANGED <<audit, handler, findings, report, nextId, settled>>
    BY DEF vars, memory, disk, pair
  <2> QED BY <2>2, <2>3, <2>4, <2>5 DEF Next
<1> QED BY <1>1, <1>2, PTL DEF Spec

\* Report and findings are never those of two audits, for any number of sessions that
\* finalize the same commit (createArtifactPair).
THEOREM PairsAreNotMixed == Spec => [](Faultless => PairNeverMixed)
<1>1. PairInv => (Faultless => PairNeverMixed)
  BY DEF PairInv, PairOK, ReportFollows, PairNeverMixed
<1> QED BY <1>1, PairInvariant, PTL

\* The pair an audit recorded is on disk for as long as the audit lives: no finalizer's
\* roll-back unlinks another's files (rollbackCanonicalPair).
THEOREM RecordedPairsSurvive == Spec => [](Faultless => RecordedPairSurvives)
<1>1. PairInv => (Faultless => RecordedPairSurvives)
  <2> SUFFICES ASSUME IInv, PairOK, NEW s \in Sessions, audit[s] # None, audit[s].record # None
               PROVE  /\ findings[audit[s].record.commit] = audit[s].id
                      /\ report[audit[s].record.commit] = audit[s].id
    BY DEF PairInv, RecordedPairSurvives
  <2>1. audit[s].record.commit \in Commits
    BY DEF IInv, TypeOK, Audits, Records
  <2>2. FilesOf(findings, report, audit[s], handler[s])
    BY DEF PairOK, FilesAreLinked
  <2> QED BY <2>1, <2>2 DEF FilesOf, LinkedFindings, LinkedReport
<1> QED BY <1>1, PairInvariant, PTL

\* No file is left by an audit that neither recorded its report nor died writing it,
\* even when its TTL ran out meanwhile (recordReportFinalization).
THEOREM PublishedIsAlwaysRecorded == Spec => [](Faultless => PublishedIsRecorded)
<1>1. PairInv => (Faultless => PublishedIsRecorded)
  BY DEF PairInv, PairOK
<1> QED BY <1>1, PairInvariant, PTL

=============================================================================
