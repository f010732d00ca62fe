------------------------ MODULE McpAutoreloadProofs ------------------------
(* Proofs about McpAutoreload for any servers, names and concurrent calls. *)
EXTENDS McpAutoreload, TLAPS

\* A hook that got past its lookup has a server, one that waits for the
\* refresh knows which tool was called.
HooksBound ==
    \A c \in Calls :
      /\ hook[c].pc \in Owning \cup {"wait", "decide"} => hook[c].server \in Servers
      /\ hook[c].pc = "refresh" => hook[c].tool \in Servers

\* The inductive invariant.
IInv == TypeOK /\ HooksBound /\ SharedReload

USE DEF Returned, Telling, Owning

-----------------------------------------------------------------------------

\* A lookup finds a cached server or none.
LEMMA MatchType ==
    ASSUME NEW tool \in Servers, NEW names \in SUBSET Servers
    PROVE  MatchMcpServer(tool, names) \in Servers \cup {None}
<1> DEFINE matching == names \cap ({tool} \cup Prefixes[tool])
           Longest(s) == matching \ {s} \subseteq Prefixes[s]
<1>1. MatchMcpServer(tool, names) =
        IF \E s \in matching : Longest(s) THEN CHOOSE s \in matching : Longest(s) ELSE None
  BY DEF MatchMcpServer
<1>2. matching \subseteq Servers
  OBVIOUS
<1> HIDE DEF matching, Longest
<1> QED BY <1>1, <1>2

\* A hook that returned, or has only its log line left, holds nothing.
LEMMA DoneType ==
    ASSUME NEW place \in Returned \cup Telling PROVE Done(place) \in Hooks /\ Done(place).pc = place
<1>1. Done(place) = [pc |-> place, tool |-> None, server |-> None, result |-> None, polls |-> 0]
  BY DEF Done
<1>2. 0 \in 0..Polls
  BY PollsAssumption
<1> QED BY <1>1, <1>2 DEF Hooks

\* An outcome has its advice, and advice its log line.
LEMMA AdviceType ==
    /\ \A outcome : Advice(outcome) \in {"retry", "escalate"}
    /\ \A advice : Log(advice) \in Telling
  BY DEF Advice, Log

\* What it takes to keep the invariant when a step touches one hook at most and
\* leaves the promises alone.
LEMMA HookKept ==
    ASSUME IInv, NEW c \in Calls, NEW h \in Hooks,
           hook' = [hook EXCEPT ![c] = h], UNCHANGED inflight,
           \/ hook[c].pc \notin Owning /\ h.pc \notin Owning
           \/ /\ hook[c].pc \in {"reload", "poll"} /\ h.pc \in {"reload", "poll"}
              /\ h.server = hook[c].server,
           h.pc = "wait" => inflight[h.server] = "running",
           h.pc \in {"wait", "decide"} => h.server \in Servers,
           h.pc = "refresh" => h.tool \in Servers
    PROVE  hook' \in [Calls -> Hooks] /\ HooksBound' /\ SharedReload'
<1>1. hook \in [Calls -> Hooks] /\ HooksBound /\ SharedReload
  BY DEF IInv, TypeOK
<1>2. hook' \in [Calls -> Hooks]
  BY <1>1
<1>3. hook'[c] = h /\ \A d \in Calls : d # c => hook'[d] = hook[d]
  BY <1>1
<1>4. HooksBound'
  BY <1>1, <1>3 DEF HooksBound
<1>5. \A s \in Servers, d \in Calls : Reloads(d, s)' <=> Reloads(d, s)
  BY <1>3 DEF Reloads
<1>6. SharedReload'
  BY <1>1, <1>3, <1>5 DEF SharedReload
<1> QED BY <1>2, <1>4, <1>6

\* The promise of a reload resolves.
LEMMA SettleStep ==
    ASSUME IInv, NEW c \in Calls, NEW outcome \in {"ok", "failed"},
           hook[c].pc \in {"reload", "poll"}, Settle(c, outcome), UNCHANGED hostVars
    PROVE  IInv'
<1> DEFINE s == hook[c].server
           h(d) == IF d = c THEN [hook[d] EXCEPT !.pc = "settled", !.polls = 0]
                   ELSE IF hook[d].pc = "wait" /\ hook[d].server = s
                        THEN Done(Advice(outcome)) ELSE hook[d]
<1>1. hook \in [Calls -> Hooks] /\ inflight \in [Servers -> {"none", "running", "ok", "failed"}]
  BY DEF IInv, TypeOK
<1>2. s \in Servers
  BY DEF IInv, HooksBound
<1>3. /\ inflight' = [inflight EXCEPT ![s] = outcome]
      /\ hook' = [d \in Calls |-> h(d)]
      /\ UNCHANGED <<reloaded, cacheVars, manualVars, hostVars>>
  BY DEF Settle
<1>4. Advice(outcome) \in Returned
  BY AdviceType
<1>5. \A d \in Calls : h(d) \in Hooks
  <2> TAKE d \in Calls
  <2>1. [hook[d] EXCEPT !.pc = "settled", !.polls = 0] \in Hooks
    <3>1. hook[d] \in Hooks /\ 0 \in 0..Polls
      BY <1>1, PollsAssumption
    <3> QED BY <3>1 DEF Hooks
  <2>2. Done(Advice(outcome)) \in Hooks
    BY <1>4, DoneType
  <2> QED BY <1>1, <2>1, <2>2
<1>6. hook'[c] = [hook[c] EXCEPT !.pc = "settled", !.polls = 0]
  BY <1>3
<1>7. hook'[c].pc = "settled" /\ hook'[c].server = s
  BY <1>1, <1>6 DEF Hooks
<1>8. \A d \in Calls : d # c =>
        \/ hook'[d] = hook[d] /\ ~(hook[d].pc = "wait" /\ hook[d].server = s)
        \/ hook[d].pc = "wait" /\ hook'[d].pc \in Returned
  BY <1>3, <1>4, DoneType
<1>9. TypeOK'
  BY <1>1, <1>2, <1>3, <1>5 DEF IInv, TypeOK, cacheVars, manualVars, hostVars
<1> HIDE DEF h
<1>10. HooksBound'
  BY <1>2, <1>7, <1>8 DEF IInv, HooksBound
<1>11. \A d \in Calls, t \in Servers : Reloads(d, t)' <=> Reloads(d, t)
  BY <1>7, <1>8 DEF Reloads
<1>12. SharedReload'
  <2> SUFFICES ASSUME NEW t \in Servers
               PROVE  /\ inflight'[t] # "none" => \E d \in Calls : Reloads(d, t)'
                      /\ \A d \in Calls : Reloads(d, t)' =>
                           /\ inflight'[t] # "none"
                           /\ hook'[d].pc = "settled" <=> inflight'[t] # "running"
                           /\ \A e \in Calls : Reloads(e, t)' => d = e
                      /\ \A d \in Calls : hook'[d].pc = "wait" /\ hook'[d].server = t =>
                           inflight'[t] = "running"
    BY DEF SharedReload
  <2>1. Reloads(c, s)
    BY DEF Reloads
  <2>2. CASE t = s
    <3>1. inflight'[t] = outcome
      BY <1>1, <1>2, <1>3, <2>2
    <3>2. \A d \in Calls : Reloads(d, t) => d = c
      BY <1>2, <2>1, <2>2 DEF IInv, SharedReload
    <3>3. \A d \in Calls : ~(hook'[d].pc = "wait" /\ hook'[d].server = t)
      BY <1>7, <1>8, <2>2
    <3> QED BY <1>7, <1>11, <2>1, <2>2, <3>1, <3>2, <3>3
  <2>3. CASE t # s
    <3>1. inflight'[t] = inflight[t]
      BY <1>1, <1>3, <2>3
    <3>2. \A d \in Calls : Reloads(d, t) => d # c /\ hook'[d] = hook[d]
      BY <1>8, <2>3 DEF Reloads
    <3>3. \A d \in Calls : hook'[d].pc = "wait" => hook'[d] = hook[d]
      BY <1>7, <1>8
    <3> QED BY <1>11, <3>1, <3>2, <3>3 DEF IInv, SharedReload
  <2> QED BY <2>2, <2>3
<1> QED BY <1>9, <1>10, <1>12 DEF IInv

\* A step that touches neither hooks nor promises keeps their invariants.
LEMMA HooksUntouched ==
    ASSUME IInv, UNCHANGED <<hook, inflight>>
    PROVE  HooksBound' /\ SharedReload' /\ (hook \in [Calls -> Hooks])'
<1>1. HooksBound'
  BY DEF IInv, HooksBound
<1>2. \A c \in Calls, s \in Servers : Reloads(c, s)' <=> Reloads(c, s)
  BY DEF Reloads
<1>3. SharedReload'
  BY <1>2 DEF IInv, SharedReload
<1> QED BY <1>1, <1>3 DEF IInv, TypeOK

-----------------------------------------------------------------------------
(* The host and the cache.                                                 *)

\* The module loads with idle hooks and no reload.
LEMMA InitInvariant == Init => IInv
<1> SUFFICES ASSUME Init PROVE IInv OBVIOUS
<1>1. Done("nothing") \in Hooks /\ Done("nothing").pc = "nothing"
  BY DoneType
<1>2. \A c \in Calls : hook[c] = Done("nothing")
  BY DEF Init
<1>3. TypeOK
  BY <1>1 DEF Init, TypeOK, Statuses
<1>4. HooksBound
  BY <1>1, <1>2 DEF HooksBound
<1>5. SharedReload
  BY <1>1, <1>2 DEF Init, SharedReload, Reloads
<1> QED BY <1>3, <1>4, <1>5 DEF IInv

\* The host's steps preserve the invariant.
LEMMA HostStep ==
    ASSUME IInv, Host PROVE IInv'
<1>1. PICK s \in Servers, st \in Statuses : StatusChanges(s, st)
  BY DEF Host
<1>2. TypeOK'
  BY <1>1 DEF StatusChanges, IInv, TypeOK, cacheVars, reloadVars, manualVars
<1> QED BY <1>1, <1>2, HooksUntouched DEF StatusChanges, reloadVars, IInv

\* The end of a refresh preserves the invariant.
LEMMA FinishRefreshStep ==
    ASSUME IInv, NEW names \in SUBSET Servers, FinishRefresh(names)
    PROVE  IInv'
<1> DEFINE h(c) == IF hook[c].pc # "refresh" THEN hook[c]
                   ELSE LET s == MatchMcpServer(hook[c].tool, names)
                        IN IF s = None THEN Done("nothing")
                           ELSE [hook[c] EXCEPT !.pc = "decide", !.server = s]
<1>1. hook \in [Calls -> Hooks] /\ HooksBound /\ SharedReload
  BY DEF IInv, TypeOK
<1>2. /\ hook' = [c \in Calls |-> h(c)]
      /\ serverNames' = names /\ refreshing' = "none" /\ listed' = {}
      /\ reloaded' \in SUBSET Servers /\ manual' \in {"idle", manual}
      /\ seen' \in {{}, seen}
      /\ UNCHANGED <<hostVars, inflight>>
  BY DEF FinishRefresh, IInv, TypeOK, manualVars
<1>3. \A c \in Calls :
        /\ h(c) \in Hooks
        /\ \/ h(c) = hook[c] /\ hook[c].pc # "refresh"
           \/ hook[c].pc = "refresh" /\ h(c).pc = "nothing"
           \/ hook[c].pc = "refresh" /\ h(c).pc = "decide" /\ h(c).server \in Servers
  <2> SUFFICES ASSUME NEW c \in Calls, hook[c].pc = "refresh"
               PROVE  /\ h(c) \in Hooks
                      /\ h(c).pc = "nothing" \/ (h(c).pc = "decide" /\ h(c).server \in Servers)
    BY <1>1
  <2> DEFINE s == MatchMcpServer(hook[c].tool, names)
  <2>1. s \in Servers \cup {None}
    BY <1>1, MatchType DEF HooksBound
  <2>2. h(c) = IF s = None THEN Done("nothing")
               ELSE [hook[c] EXCEPT !.pc = "decide", !.server = s]
    OBVIOUS
  <2> HIDE DEF s, h
  <2>3. CASE s = None
    BY <2>2, <2>3, DoneType
  <2>4. CASE s # None
    BY <1>1, <2>1, <2>2, <2>4 DEF Hooks
  <2> QED BY <2>3, <2>4
<1>4. \A c \in Calls : hook'[c] = h(c)
  BY <1>2
<1> HIDE DEF h
<1>5. TypeOK'
  BY <1>2, <1>3 DEF IInv, TypeOK, hostVars
<1>6. HooksBound'
  BY <1>1, <1>3, <1>4 DEF HooksBound
<1>7. \A c \in Calls, s \in Servers : Reloads(c, s)' <=> Reloads(c, s)
  BY <1>3, <1>4 DEF Reloads
<1>8. \A c \in Calls : hook'[c].pc \in {"settled", "wait"} => hook'[c] = hook[c]
  BY <1>3, <1>4
<1>9. \A c \in Calls : hook[c].pc \in {"settled", "wait"} => hook'[c] = hook[c]
  BY <1>3, <1>4
<1>10. SharedReload'
  BY <1>1, <1>2, <1>7, <1>8, <1>9 DEF SharedReload, Reloads
<1> QED BY <1>5, <1>6, <1>10 DEF IInv

\* The cache's steps preserve the invariant.
LEMMA CacheStep ==
    ASSUME IInv, Cache PROVE IInv'
<1>1. listed \in SUBSET Servers /\ serverNames \in SUBSET Servers
  BY DEF IInv, TypeOK
<1>2. CASE ListAnswered
  <2>1. TypeOK'
    BY <1>2 DEF ListAnswered, Configured, IInv, TypeOK, hostVars, reloadVars, manualVars
  <2> QED BY <1>2, <2>1, HooksUntouched DEF ListAnswered, reloadVars, IInv
<1>3. CASE RefreshEnds
  BY <1>1, <1>3, FinishRefreshStep DEF RefreshEnds
<1>4. CASE RefreshFails
  BY <1>1, <1>4, FinishRefreshStep DEF RefreshFails
<1>5. CASE StatusEventDelivered
  <2>1. TypeOK'
    BY <1>5 DEF StatusEventDelivered, RefreshServerNames, IInv, TypeOK, reloadVars, manualVars
  <2> QED BY <1>5, <2>1, HooksUntouched DEF StatusEventDelivered, reloadVars, IInv
<1> QED BY <1>2, <1>3, <1>4, <1>5 DEF Cache

-----------------------------------------------------------------------------
(* The hooks.                                                              *)

\* The completion of a call preserves the invariant.
LEMMA CallCompletesStep ==
    ASSUME IInv, NEW c \in Calls, NEW tool \in Servers, NEW result \in Results,
           CallCompletes(c, tool, result)
    PROVE  IInv'
<1> DEFINE s == MatchMcpServer(tool, serverNames)
           h == [pc |-> IF s = None THEN "refresh" ELSE "decide", tool |-> tool, server |-> s,
                 result |-> result, polls |-> 0]
<1>1. /\ hook[c].pc \in Returned
      /\ hook' = [hook EXCEPT ![c] = h]
      /\ IF s = None THEN RefreshServerNames ELSE UNCHANGED cacheVars
      /\ UNCHANGED <<hostVars, reloadVars, manualVars>>
  BY DEF CallCompletes
<1>2. s \in Servers \cup {None}
  BY MatchType DEF IInv, TypeOK
<1>3. 0 \in 0..Polls
  BY PollsAssumption
<1> HIDE DEF s
<1>4. /\ h \in Hooks /\ h.pc \in {"refresh", "decide"} /\ h.tool \in Servers
      /\ h.pc = "decide" => h.server \in Servers
  BY <1>2, <1>3 DEF Hooks
<1> HIDE DEF h
<1>5. hook' \in [Calls -> Hooks] /\ HooksBound' /\ SharedReload'
  BY <1>1, <1>4, HookKept DEF reloadVars
<1>6. TypeOK'
  BY <1>1, <1>5 DEF IInv, TypeOK, RefreshServerNames, cacheVars, hostVars, reloadVars, manualVars
<1> QED BY <1>5, <1>6 DEF IInv

\* A hook that returns, or goes on to log its advice, without a reload of its own
\* preserves the invariant.
LEMMA ReturnStep ==
    ASSUME IInv, NEW c \in Calls, NEW place \in Returned \cup Telling,
           hook[c].pc \in Telling \cup {"decide"},
           HookReturns(c, place), UNCHANGED inflight
    PROVE  hook' \in [Calls -> Hooks] /\ HooksBound' /\ SharedReload'
<1> DEFINE h == Done(place)
<1>1. h \in Hooks /\ h.pc \in Returned \cup Telling
  BY DoneType
<1>2. hook' = [hook EXCEPT ![c] = h]
  BY DEF HookReturns
<1> HIDE DEF h
<1> QED BY <1>1, <1>2, HookKept

\* Each decision of a hook preserves the invariant.
LEMMA DecidingStep ==
    ASSUME IInv, NEW c \in Calls, Deciding(c) PROVE IInv'
<1> DEFINE s == hook[c].server
<1>0. /\ hook \in [Calls -> Hooks] /\ hook[c].pc = "decide" /\ s \in Servers
      /\ inflight \in [Servers -> {"none", "running", "ok", "failed"}]
  BY DEF IInv, TypeOK, HooksBound, Deciding, ClearOnSuccess, IgnoreOther, Failed, ShareReload,
         EscalateAgain, StartReload
<1> USE DEF hostVars, cacheVars, reloadVars, manualVars
<1>1. CASE ClearOnSuccess(c)
  <2>1. hook' \in [Calls -> Hooks] /\ HooksBound' /\ SharedReload'
    BY <1>0, <1>1, ReturnStep DEF ClearOnSuccess
  <2>2. TypeOK'
    BY <1>1, <2>1 DEF ClearOnSuccess, IInv, TypeOK
  <2> QED BY <2>1, <2>2 DEF IInv
<1>2. CASE IgnoreOther(c)
  <2>1. hook' \in [Calls -> Hooks] /\ HooksBound' /\ SharedReload'
    BY <1>0, <1>2, ReturnStep DEF IgnoreOther
  <2>2. TypeOK'
    BY <1>2, <2>1 DEF IgnoreOther, IInv, TypeOK
  <2> QED BY <2>1, <2>2 DEF IInv
<1>3. CASE ShareReload(c)
  <2>1. hook' \in [Calls -> Hooks] /\ HooksBound' /\ SharedReload'
    <3>1. CASE inflight[s] = "running"
      <4> DEFINE h == [hook[c] EXCEPT !.pc = "wait"]
      <4>1. hook' = [hook EXCEPT ![c] = h] /\ UNCHANGED inflight
        BY <1>0, <1>3, <3>1 DEF ShareReload
      <4>2. h \in Hooks /\ h.pc = "wait" /\ h.server = s
        BY <1>0 DEF Hooks
      <4> HIDE DEF h
      <4> QED BY <1>0, <3>1, <4>1, <4>2, HookKept
    <3>2. CASE inflight[s] # "running"
      <4>1. Advice(inflight[s]) \in Returned
        BY AdviceType
      <4>2. HookReturns(c, Advice(inflight[s])) /\ UNCHANGED inflight
        BY <1>3, <3>2 DEF ShareReload
      <4> QED BY <1>0, <4>1, <4>2, ReturnStep
    <3> QED BY <3>1, <3>2
  <2>2. TypeOK'
    BY <1>3, <2>1 DEF ShareReload, IInv, TypeOK
  <2> QED BY <2>1, <2>2 DEF IInv
<1>4. CASE EscalateAgain(c)
  <2>1. hook' \in [Calls -> Hooks] /\ HooksBound' /\ SharedReload'
    BY <1>0, <1>4, AdviceType, ReturnStep DEF EscalateAgain, HookLogs
  <2>2. TypeOK'
    BY <1>4, <2>1 DEF EscalateAgain, IInv, TypeOK
  <2> QED BY <2>1, <2>2 DEF IInv
<1>5. CASE StartReload(c)
  <2>1. /\ inflight[s] = "none"
        /\ hook' = [hook EXCEPT ![c].pc = "reload"]
        /\ inflight' = [inflight EXCEPT ![s] = "running"]
        /\ reloaded' = reloaded \cup {s}
        /\ UNCHANGED <<hostVars, cacheVars, manualVars>>
    BY <1>5 DEF StartReload
  <2>2. hook' \in [Calls -> Hooks]
    BY <1>0, <2>1 DEF Hooks
  <2>3. /\ hook'[c].pc = "reload" /\ hook'[c].server = s
        /\ \A d \in Calls : d # c => hook'[d] = hook[d]
    BY <1>0, <2>1 DEF Hooks
  <2>4. inflight'[s] = "running" /\ \A t \in Servers : t # s => inflight'[t] = inflight[t]
    BY <1>0, <2>1
  <2>5. TypeOK'
    BY <1>0, <2>1, <2>2 DEF IInv, TypeOK
  <2>6. HooksBound'
    BY <1>0, <2>3 DEF IInv, HooksBound
  <2>7. \A d \in Calls : ~Reloads(d, s)
    BY <1>0, <2>1 DEF IInv, SharedReload
  <2>8. \A d \in Calls, t \in Servers :
          Reloads(d, t)' <=> (d = c /\ t = s) \/ Reloads(d, t)
    BY <1>0, <2>3 DEF Reloads
  <2>9. SharedReload'
    BY <1>0, <2>3, <2>4, <2>7, <2>8 DEF IInv, SharedReload
  <2> QED BY <2>5, <2>6, <2>9 DEF IInv
<1> QED BY <1>1, <1>2, <1>3, <1>4, <1>5 DEF Deciding

\* The steps of a hook that reloads preserve the invariant.
LEMMA ReloadStep ==
    ASSUME IInv, NEW c \in Calls, Reloading(c) \/ Polling(c) PROVE IInv'
<1>0. hook \in [Calls -> Hooks]
  BY DEF IInv, TypeOK
<1>1. CASE ReloadFails(c)
  BY <1>1, SettleStep DEF ReloadFails
<1>2. CASE ReloadAnswered(c)
  <2> DEFINE h == [hook[c] EXCEPT !.pc = "poll", !.polls = Polls]
  <2>1. /\ hook[c].pc = "reload" /\ hook' = [hook EXCEPT ![c] = h] /\ Reload
        /\ UNCHANGED <<cacheVars, reloadVars, manualVars>>
    BY <1>0, <1>2 DEF ReloadAnswered
  <2>2. h \in Hooks /\ h.pc = "poll" /\ h.server = hook[c].server
    <3>1. hook[c] \in Hooks /\ Polls \in 0..Polls
      BY <1>0, PollsAssumption
    <3> QED BY <3>1 DEF Hooks
  <2> HIDE DEF h
  <2>3. hook' \in [Calls -> Hooks] /\ HooksBound' /\ SharedReload'
    BY <2>1, <2>2, HookKept DEF reloadVars
  <2>4. TypeOK'
    BY <2>1, <2>3 DEF IInv, TypeOK, Reload, Statuses, cacheVars, reloadVars, manualVars
  <2> QED BY <2>3, <2>4 DEF IInv
<1>3. CASE VerifyConnected(c)
  BY <1>3, SettleStep DEF VerifyConnected
<1>4. CASE VerifyAgain(c)
  <2> DEFINE h == [hook[c] EXCEPT !.polls = @ - 1]
  <2>1. /\ hook[c].pc = "poll" /\ hook[c].polls > 1 /\ hook' = [hook EXCEPT ![c] = h]
        /\ UNCHANGED <<hostVars, cacheVars, reloadVars, manualVars>>
    BY <1>0, <1>4 DEF VerifyAgain
  <2>2. hook[c].polls - 1 \in 0..Polls
    <3>1. hook[c].polls \in 0..Polls
      BY <1>0 DEF Hooks
    <3> QED BY <2>1, <3>1, PollsAssumption
  <2>3. h \in Hooks /\ h.pc = "poll" /\ h.server = hook[c].server
    BY <1>0, <2>1, <2>2 DEF Hooks
  <2> HIDE DEF h
  <2>4. hook' \in [Calls -> Hooks] /\ HooksBound' /\ SharedReload'
    BY <2>1, <2>3, HookKept DEF reloadVars
  <2>5. TypeOK'
    BY <2>1, <2>4 DEF IInv, TypeOK, hostVars, cacheVars, reloadVars, manualVars
  <2> QED BY <2>4, <2>5 DEF IInv
<1>5. CASE GiveUp(c)
  BY <1>5, SettleStep DEF GiveUp
<1> QED BY <1>1, <1>2, <1>3, <1>4, <1>5 DEF Reloading, Polling

\* Taking the promise out of the map preserves the invariant.
LEMMA ReleaseStep ==
    ASSUME IInv, NEW c \in Calls, Release(c) PROVE IInv'
<1> DEFINE s == hook[c].server
           h == Done(Log(Advice(inflight[s])))
<1>0. /\ hook \in [Calls -> Hooks] /\ hook[c].pc = "settled" /\ s \in Servers
      /\ inflight \in [Servers -> {"none", "running", "ok", "failed"}]
  BY DEF IInv, TypeOK, HooksBound, Release
<1>1. /\ inflight' = [inflight EXCEPT ![s] = "none"]
      /\ hook' = [hook EXCEPT ![c] = h]
      /\ UNCHANGED <<hostVars, cacheVars, reloaded, manualVars>>
  BY DEF Release, HookLogs, HookReturns
<1>2. h \in Hooks /\ h.pc \in Telling
  BY AdviceType, DoneType
<1> HIDE DEF h
<1>3. hook' \in [Calls -> Hooks] /\ hook'[c] = h
      /\ \A d \in Calls : d # c => hook'[d] = hook[d]
  BY <1>0, <1>1, <1>2
<1>4. inflight'[s] = "none" /\ \A t \in Servers : t # s => inflight'[t] = inflight[t]
  BY <1>0, <1>1
<1>5. TypeOK'
  BY <1>0, <1>1, <1>3 DEF IInv, TypeOK, hostVars, cacheVars, manualVars
<1>6. HooksBound'
  BY <1>2, <1>3 DEF IInv, HooksBound
<1>7. Reloads(c, s) /\ inflight[s] # "running" /\ \A d \in Calls : Reloads(d, s) => d = c
  BY <1>0 DEF IInv, SharedReload, Reloads
<1>8. \A d \in Calls, t \in Servers : Reloads(d, t)' <=> t # s /\ Reloads(d, t)
  BY <1>0, <1>2, <1>3, <1>7 DEF Reloads
<1>9. \A d \in Calls : hook'[d].pc = "wait" => hook'[d] = hook[d] /\ hook[d].server # s
  <2>1. \A d \in Calls : hook'[d].pc = "wait" => hook'[d] = hook[d]
    BY <1>2, <1>3
  <2>2. \A d \in Calls : hook[d].pc = "wait" => hook[d].server # s
    BY <1>0, <1>7 DEF IInv, SharedReload
  <2> QED BY <2>1, <2>2
<1>10. \A d \in Calls, t \in Servers : Reloads(d, t)' => hook'[d] = hook[d]
  BY <1>2, <1>3 DEF Reloads
<1>11. SharedReload'
  BY <1>4, <1>8, <1>9, <1>10 DEF IInv, SharedReload
<1> QED BY <1>5, <1>6, <1>11 DEF IInv

\* The end of a log call preserves the invariant.
LEMMA LoggedStep ==
    ASSUME IInv, NEW c \in Calls, Logged(c) PROVE IInv'
<1>1. PICK advice \in {"retry", "escalate"} :
        hook[c].pc = Log(advice) /\ HookReturns(c, advice)
  BY DEF Logged
<1>2. UNCHANGED <<hostVars, cacheVars, reloadVars, manualVars>>
  BY DEF Logged
<1>3. hook' \in [Calls -> Hooks] /\ HooksBound' /\ SharedReload'
  BY <1>1, <1>2, AdviceType, ReturnStep DEF reloadVars
<1>4. TypeOK'
  BY <1>2, <1>3 DEF IInv, TypeOK, hostVars, cacheVars, reloadVars, manualVars
<1> QED BY <1>3, <1>4 DEF IInv

\* mcp_reload_now preserves the invariant.
LEMMA ManuallyStep ==
    ASSUME IInv, Manually PROVE IInv'
<1> USE DEF hostVars, cacheVars, reloadVars, manualVars
<1>1. TypeOK'
  BY DEF Manually, ManualReload, ManualList, ManualListFails, Reload, RefreshServerNames,
         Statuses, IInv, TypeOK
<1>2. UNCHANGED <<hook, inflight>>
  BY DEF Manually, ManualReload, ManualList, ManualListFails
<1> QED BY <1>1, <1>2, HooksUntouched DEF IInv

-----------------------------------------------------------------------------
(* Advice waits for the outcome.                                           *)

\* Every decision follows from an outcome, or from an armed server.
AdviceStep ==
    \A c \in Calls :
      LET s == hook[c].server
          outcomes == {inflight[s], inflight'[s]}
      IN /\ Decides(c, "retry") => inflight'[s] # "running" /\ "ok" \in outcomes
         /\ Decides(c, "escalate") =>
              /\ inflight'[s] # "running"
              /\ "failed" \in outcomes \/ (inflight[s] = "none" /\ s \in reloaded)

\* Where a hook must get to in order to decide.
Advised == {"retry", "escalate"} \cup Telling

\* A hook that only decides where it should.
LEMMA OneDecides ==
    ASSUME NEW c \in Calls, \A d \in Calls : d # c => hook'[d] = hook[d],
           LET s == hook[c].server
               outcomes == {inflight[s], inflight'[s]}
           IN /\ Decides(c, "retry") => inflight'[s] # "running" /\ "ok" \in outcomes
              /\ Decides(c, "escalate") =>
                   /\ inflight'[s] # "running"
                   /\ "failed" \in outcomes \/ (inflight[s] = "none" /\ s \in reloaded)
    PROVE  AdviceStep
<1>1. \A d \in Calls : d # c => ~Decides(d, "retry") /\ ~Decides(d, "escalate")
  BY DEF Decides, Log
<1> QED BY <1>1 DEF AdviceStep

\* Nobody decides when one hook goes on, returns with nothing or has decided before.
LEMMA NoAdvice ==
    ASSUME NEW c \in Calls, \A d \in Calls : d # c => hook'[d] = hook[d],
           hook'[c].pc \notin Advised \/ hook[c].pc \in Telling
    PROVE  AdviceStep
<1>1. ~Decides(c, "retry") /\ ~Decides(c, "escalate")
  BY DEF Decides, Log, Advised
<1> QED BY <1>1, OneDecides

\* What a hook that is told an outcome decides.
LEMMA OutcomeDecides ==
    ASSUME NEW c \in Calls, NEW outcome \in {"ok", "failed"},
           hook'[c].pc \in {Advice(outcome), Log(Advice(outcome))}
    PROVE  /\ Decides(c, "retry") => outcome = "ok"
           /\ Decides(c, "escalate") => outcome = "failed"
  BY DEF Decides, Advice, Log

\* All that wait for a promise are advised when it resolves, and no others.
LEMMA SettleAdvice ==
    ASSUME IInv, NEW c \in Calls, NEW outcome \in {"ok", "failed"},
           hook[c].pc \in {"reload", "poll"}, Settle(c, outcome)
    PROVE  AdviceStep
<1> DEFINE s == hook[c].server
<1>1. /\ hook \in [Calls -> Hooks] /\ s \in Servers
      /\ inflight \in [Servers -> {"none", "running", "ok", "failed"}]
  BY DEF IInv, TypeOK, HooksBound
<1>2. inflight'[s] = outcome
  BY <1>1 DEF Settle
<1>3. [hook[c] EXCEPT !.pc = "settled", !.polls = 0].pc = "settled"
  BY <1>1 DEF Hooks
<1>4. hook'[c].pc = "settled"
  BY <1>3 DEF Settle
<1>5. \A d \in Calls : d # c =>
        \/ hook'[d] = hook[d]
        \/ hook[d].server = s /\ hook'[d] = Done(Advice(outcome))
  BY DEF Settle
<1> SUFFICES ASSUME NEW d \in Calls, Decides(d, "retry") \/ Decides(d, "escalate")
             PROVE  /\ hook[d].server = s
                    /\ Decides(d, "retry") => outcome = "ok"
                    /\ Decides(d, "escalate") => outcome = "failed"
  BY <1>2 DEF AdviceStep
<1>6. d # c /\ hook'[d] # hook[d]
  BY <1>4 DEF Decides, Log
<1>7. hook[d].server = s /\ hook'[d] = Done(Advice(outcome))
  BY <1>5, <1>6
<1>8. hook'[d].pc = Advice(outcome)
  BY <1>7, AdviceType, DoneType
<1> QED BY <1>7, <1>8, OutcomeDecides

\* A decision gives advice when no reload of the server is running.
LEMMA DecidingAdvice ==
    ASSUME IInv, NEW c \in Calls, Deciding(c) PROVE AdviceStep
<1> DEFINE s == hook[c].server
<1>1. /\ hook \in [Calls -> Hooks] /\ s \in Servers
      /\ inflight \in [Servers -> {"none", "running", "ok", "failed"}]
  BY DEF IInv, TypeOK, HooksBound, Deciding, ClearOnSuccess, IgnoreOther, Failed, ShareReload,
         EscalateAgain, StartReload
<1>2. CASE ClearOnSuccess(c) \/ IgnoreOther(c)
  <2>1. hook' = [hook EXCEPT ![c] = Done("nothing")]
    BY <1>2 DEF ClearOnSuccess, IgnoreOther, HookReturns
  <2>2. hook'[c].pc = "nothing"
    BY <1>1, <2>1, DoneType
  <2> QED BY <1>1, <2>1, <2>2, NoAdvice DEF Advised
<1>3. CASE ShareReload(c)
  <2>1. CASE inflight[s] = "running"
    <3>1. hook' = [hook EXCEPT ![c].pc = "wait"]
      BY <1>3, <2>1 DEF ShareReload
    <3>2. hook'[c].pc = "wait"
      BY <1>1, <3>1 DEF Hooks
    <3> QED BY <1>1, <3>1, <3>2, NoAdvice DEF Advised
  <2>2. CASE inflight[s] # "running"
    <3>1. /\ UNCHANGED inflight /\ inflight[s] \in {"ok", "failed"}
          /\ hook' = [hook EXCEPT ![c] = Done(Advice(inflight[s]))]
      BY <1>1, <1>3, <2>2 DEF ShareReload, HookReturns, reloadVars
    <3>2. hook'[c].pc = Advice(inflight[s])
      BY <1>1, <3>1, AdviceType, DoneType
    <3>3. /\ Decides(c, "retry") => inflight[s] = "ok"
          /\ Decides(c, "escalate") => inflight[s] = "failed"
      BY <3>1, <3>2, OutcomeDecides
    <3> QED BY <1>1, <3>1, <3>3, OneDecides
  <2> QED BY <2>1, <2>2
<1>4. CASE EscalateAgain(c)
  <2>1. /\ inflight[s] = "none" /\ s \in reloaded /\ UNCHANGED inflight
        /\ hook' = [hook EXCEPT ![c] = Done("log-escalate")]
    BY <1>4 DEF EscalateAgain, HookLogs, HookReturns, Log, reloadVars
  <2>2. hook'[c].pc = "log-escalate"
    BY <1>1, <2>1, DoneType
  <2>3. ~Decides(c, "retry")
    BY <2>2 DEF Decides, Log
  <2> QED BY <1>1, <2>1, <2>3, OneDecides
<1>5. CASE StartReload(c)
  <2>1. hook' = [hook EXCEPT ![c].pc = "reload"]
    BY <1>5 DEF StartReload
  <2>2. hook'[c].pc = "reload"
    BY <1>1, <2>1 DEF Hooks
  <2> QED BY <1>1, <2>1, <2>2, NoAdvice DEF Advised
<1> QED BY <1>2, <1>3, <1>4, <1>5, Zenon DEF Deciding

\* The hook that reloads gives its own advice after the promise has resolved.
LEMMA ReloadAdvice ==
    ASSUME IInv, NEW c \in Calls, Reloading(c) \/ Polling(c) \/ Release(c) \/ Logged(c)
    PROVE  AdviceStep
<1> DEFINE s == hook[c].server
<1>1. /\ hook \in [Calls -> Hooks]
      /\ inflight \in [Servers -> {"none", "running", "ok", "failed"}]
  BY DEF IInv, TypeOK
<1>2. CASE ReloadAnswered(c)
  <2>1. hook' = [hook EXCEPT ![c].pc = "poll", ![c].polls = Polls]
    BY <1>2 DEF ReloadAnswered
  <2>2. hook'[c].pc = "poll" /\ \A d \in Calls : d # c => hook'[d] = hook[d]
    BY <1>1, <2>1 DEF Hooks
  <2> QED BY <2>2, NoAdvice DEF Advised
<1>3. CASE VerifyAgain(c)
  <2>1. /\ hook[c].pc = "poll" /\ hook' = [hook EXCEPT ![c].polls = @ - 1]
    BY <1>3 DEF VerifyAgain
  <2>2. hook'[c].pc = "poll" /\ \A d \in Calls : d # c => hook'[d] = hook[d]
    BY <1>1, <2>1 DEF Hooks
  <2> QED BY <2>2, NoAdvice DEF Advised
<1>4. CASE ReloadFails(c) \/ VerifyConnected(c) \/ GiveUp(c)
  BY <1>4, SettleAdvice DEF ReloadFails, VerifyConnected, GiveUp
<1>5. CASE Release(c)
  <2>1. hook[c].pc = "settled" /\ s \in Servers
    BY <1>5 DEF Release, IInv, HooksBound
  <2>2. inflight[s] \in {"ok", "failed"}
    BY <1>1, <2>1 DEF IInv, SharedReload, Reloads
  <2>3. /\ inflight'[s] = "none"
        /\ hook' = [hook EXCEPT ![c] = Done(Log(Advice(inflight[s])))]
    BY <1>1, <1>5, <2>1 DEF Release, HookLogs, HookReturns
  <2>4. hook'[c].pc = Log(Advice(inflight[s]))
    BY <1>1, <2>3, AdviceType, DoneType
  <2>5. /\ Decides(c, "retry") => inflight[s] = "ok"
        /\ Decides(c, "escalate") => inflight[s] = "failed"
    BY <2>2, <2>4, OutcomeDecides
  <2> QED BY <1>1, <2>3, <2>5, OneDecides
<1>6. CASE Logged(c)
  <2>1. PICK advice : hook[c].pc = Log(advice) /\ HookReturns(c, advice)
    BY <1>6 DEF Logged
  <2>2. hook[c].pc \in Telling
    BY <2>1, AdviceType
  <2> QED BY <1>1, <2>1, <2>2, NoAdvice DEF HookReturns
<1> QED BY <1>2, <1>3, <1>4, <1>5, <1>6 DEF Reloading, Polling

\* No step gives advice without its outcome.
LEMMA NextAdvice ==
    ASSUME IInv, [Next]_vars PROVE AdviceStep
<1>1. hook \in [Calls -> Hooks]
  BY DEF IInv, TypeOK
<1>2. CASE Host \/ Manually \/ UNCHANGED vars
  <2>1. UNCHANGED hook
    BY <1>2 DEF Host, StatusChanges, Manually, ManualReload, ManualList, ManualListFails, vars
  <2> QED BY <2>1 DEF AdviceStep, Decides, Log
<1>3. CASE Cache
  <2>1. ASSUME NEW names, FinishRefresh(names) PROVE AdviceStep
    <3>1. \A c \in Calls : \/ hook'[c] = hook[c]
                           \/ hook'[c] = Done("nothing")
                           \/ hook'[c].pc = "decide"
      <4> SUFFICES ASSUME NEW c \in Calls, hook[c].pc = "refresh",
                          hook'[c] # Done("nothing")
                   PROVE  hook'[c].pc = "decide"
        BY <2>1 DEF FinishRefresh
      <4>1. PICK s : hook'[c] = [hook[c] EXCEPT !.pc = "decide", !.server = s]
        BY <2>1 DEF FinishRefresh
      <4>2. hook[c] \in Hooks
        BY <1>1
      <4> QED BY <4>1, <4>2 DEF Hooks
    <3> QED BY <3>1, DoneType DEF AdviceStep, Decides, Log
  <2>2. CASE ListAnswered \/ StatusEventDelivered
    BY <2>2 DEF ListAnswered, StatusEventDelivered, AdviceStep, Decides, Log
  <2> QED BY <1>3, <2>1, <2>2 DEF Cache, RefreshEnds, RefreshFails
<1>4. ASSUME NEW c \in Calls, NEW tool \in Servers, NEW result \in Results,
             CallCompletes(c, tool, result)
      PROVE  AdviceStep
  <2>1. hook'[c].pc \in {"refresh", "decide"} /\ \A d \in Calls : d # c => hook'[d] = hook[d]
    BY <1>1, <1>4 DEF CallCompletes
  <2> QED BY <2>1, NoAdvice DEF Advised
<1> QED BY <1>2, <1>3, <1>4, DecidingAdvice, ReloadAdvice DEF Next

-----------------------------------------------------------------------------
(* The theorems.                                                           *)

\* Every step of the extension and of its host preserves the invariant.
LEMMA NextInvariant ==
    ASSUME IInv, [Next]_vars PROVE IInv'
<1>1. CASE UNCHANGED vars
  <2>1. TypeOK'
    BY <1>1 DEF vars, hostVars, cacheVars, reloadVars, manualVars, IInv, TypeOK
  <2> QED BY <1>1, <2>1, HooksUntouched DEF vars, reloadVars, IInv
<1> QED BY <1>1, HostStep, CacheStep, CallCompletesStep, DecidingStep, ReloadStep, ReleaseStep,
           LoggedStep, ManuallyStep DEF Next

\* The inductive invariant holds in every reachable state.
THEOREM Invariance == Spec => []IInv
<1>1. Init => IInv
  BY InitInvariant
<1>2. IInv /\ [Next]_vars => IInv'
  BY NextInvariant
<1> QED BY <1>1, <1>2, PTL DEF Spec

\* The extension keeps its types, for any servers and number of hooks.
THEOREM TypeCorrect == Spec => []TypeOK
<1>1. IInv => TypeOK
  BY DEF IInv
<1> QED BY <1>1, Invariance, PTL

\* However many calls fail at once, each server has at most one reload in
\* flight, the hook that owns it is still there to release it, and whoever
\* waits for it waits for a promise that is still running.
THEOREM ReloadsAreShared == Spec => []SharedReload
<1>1. IInv => SharedReload
  BY DEF IInv
<1> QED BY <1>1, Invariance, PTL

\* No hook decides to tell its call to retry or to give up while the reload of its
\* server is running, and each says what the outcome it was told, or the armed
\* server, justifies, however the host answers and whoever waits with it.
THEOREM AdviceIsNotEarly == Spec => AdviceAwaitsOutcome
<1>1. IInv /\ [Next]_vars => [AdviceStep]_vars
  BY NextAdvice
<1> QED BY <1>1, Invariance, PTL DEF Spec, AdviceAwaitsOutcome, AdviceStep

=============================================================================
