--------------------------- MODULE McpAutoreload ---------------------------
(***************************************************************************)
(* The mcp-autoreload extension: a hook runs after every tool call, and    *)
(* when an MCP server's connection went stale it reloads all servers,      *)
(* polls until that server is connected, and tells the agent to retry, or  *)
(* to stop and ask the user.  Hooks of concurrent calls, the manual        *)
(* mcp_reload_now tool and status events interleave at every await.        *)
(*                                                                         *)
(* One action is what runs between two awaits.  The host that owns the     *)
(* servers is external: its part is the answers to list() and reload().    *)
(***************************************************************************)
EXTENDS Integers

CONSTANTS
    None,           \* no server
    Servers,        \* configurable MCP servers
    Prefixes,       \* server -> servers whose name its tools' names also match
    Calls,          \* hook invocations that may be running at once
    Polls,          \* VERIFY_POLLS, at least one
    ManualReloads   \* TRUE when the agent may call mcp_reload_now

\* Names that a tool's name begins with are prefixes of each other.
ASSUME PrefixesAssumption ==
    /\ Prefixes \in [Servers -> SUBSET Servers]
    /\ \A s \in Servers : /\ s \notin Prefixes[s]
                           /\ \A p, q \in Prefixes[s] :
                                p = q \/ p \in Prefixes[q] \/ q \in Prefixes[p]
ASSUME PollsAssumption == Polls \in Nat \ {0}
ASSUME ManualAssumption == ManualReloads \in BOOLEAN
ASSUME NoneAssumption == None \notin Servers

VARIABLES
    status,         \* the host's view of each server, "absent" when not configured
    statusEvent,    \* a session.mcp_server_status_changed is on its way
    serverNames,    \* cached names
    refreshing,     \* the shared list() that refreshes the cache, and how far it got
    listed,         \* its answer
    reloaded,       \* armed servers
    inflight,       \* server -> its shared reload promise
    hook,           \* the hook invocations
    manual,         \* mcp_reload_now's progress
    seen            \* the servers its own list() saw connected

hostVars == <<status, statusEvent>>
cacheVars == <<serverNames, refreshing, listed>>
reloadVars == <<reloaded, inflight>>
manualVars == <<manual, seen>>
vars == <<hostVars, cacheVars, reloadVars, hook, manualVars>>

\* What a hook returned last: nothing, or advice for the agent.
Returned == {"nothing", "retry", "escalate"}
\* It has its advice and writes a log line before it returns.
Telling == {"log-retry", "log-escalate"}
Owning == {"reload", "poll", "settled"}
Results == {"success", "connection-error", "other"}
Hooks == [pc: Returned \cup Telling \cup Owning \cup {"refresh", "decide", "wait"},
          tool: Servers \cup {None}, server: Servers \cup {None},
          result: Results \cup {None}, polls: 0..Polls]

Statuses == {"absent", "connected", "pending", "needs-auth"}
Configured == {s \in Servers : status[s] # "absent"}

\* Once the advice is decided the call's own data is not read again.
Done(place) ==
    [pc |-> place, tool |-> None, server |-> None, result |-> None, polls |-> 0]

\* Type invariant.
TypeOK ==
    /\ status \in [Servers -> Statuses]
    /\ statusEvent \in BOOLEAN
    /\ serverNames \subseteq Servers
    /\ refreshing \in {"none", "asked", "answered"}
    /\ listed \subseteq Servers
    /\ reloaded \subseteq Servers
    /\ inflight \in [Servers -> {"none", "running", "ok", "failed"}]
    /\ hook \in [Calls -> Hooks]
    /\ manual \in {"idle", "list", "refresh"}
    /\ seen \subseteq Servers

\* The module primes the cache as it loads.
Init ==
    /\ status \in [Servers -> {"absent", "connected"}]
    /\ statusEvent = FALSE
    /\ serverNames = {}
    /\ refreshing = "asked" /\ listed = {}
    /\ reloaded = {}
    /\ inflight = [s \in Servers |-> "none"]
    /\ hook = [c \in Calls |-> Done("nothing")]
    /\ manual = "idle" /\ seen = {}

\* A hook decides in the same turn of the event loop in which it was resolved:
\* nothing else runs on the JS thread before it.
Quiet == \A c \in Calls : hook[c].pc # "decide"

-----------------------------------------------------------------------------
(* The host.                                                               *)

\* Servers are configured, removed, lost and connected at any time.
StatusChanges(s, st) ==
    /\ Quiet /\ status[s] # st
    /\ status' = [status EXCEPT ![s] = st]
    /\ statusEvent' = TRUE
    /\ UNCHANGED <<cacheVars, reloadVars, hook, manualVars>>

\* A global reload: every server shakes hands again.
Reload ==
    /\ status' = [s \in Servers |-> IF s \in Configured THEN "pending" ELSE "absent"]
    /\ UNCHANGED statusEvent

-----------------------------------------------------------------------------
(* The cache of server names.                                              *)

\* refreshServerNames joins a refresh that is already running.
RefreshServerNames ==
    /\ refreshing' = IF refreshing = "none" THEN "asked" ELSE refreshing
    /\ UNCHANGED <<serverNames, listed>>

\* matchMcpServer: names are tried longest first.
MatchMcpServer(tool, names) ==
    LET matching == names \cap ({tool} \cup Prefixes[tool])
        Longest(s) == matching \ {s} \subseteq Prefixes[s]
    IN IF \E s \in matching : Longest(s) THEN CHOOSE s \in matching : Longest(s) ELSE None

\* The shared refresh is over: the hooks that missed match once more, and
\* mcp_reload_now disarms what its own list() had seen connected.
FinishRefresh(names) ==
    /\ serverNames' = names
    /\ refreshing' = "none" /\ listed' = {}
    /\ hook' = [c \in Calls |->
                  IF hook[c].pc # "refresh" THEN hook[c]
                  ELSE LET s == MatchMcpServer(hook[c].tool, names)
                       IN IF s = None THEN Done("nothing")
                          ELSE [hook[c] EXCEPT !.pc = "decide", !.server = s]]
    /\ IF manual = "refresh"
       THEN reloaded' = reloaded \ seen /\ manual' = "idle" /\ seen' = {}
       ELSE UNCHANGED <<reloaded, manualVars>>
    /\ UNCHANGED <<hostVars, inflight>>

ListAnswered ==
    /\ Quiet /\ refreshing = "asked"
    /\ refreshing' = "answered" /\ listed' = Configured
    /\ UNCHANGED <<hostVars, serverNames, reloadVars, hook, manualVars>>

RefreshEnds == Quiet /\ refreshing = "answered" /\ FinishRefresh(listed)

\* The previous cache stays in place.
RefreshFails == Quiet /\ refreshing = "asked" /\ FinishRefresh(serverNames)

\* More events may be queued behind this one.
StatusEventDelivered ==
    /\ Quiet /\ statusEvent /\ statusEvent' \in BOOLEAN
    /\ RefreshServerNames
    /\ UNCHANGED <<status, reloadVars, hook, manualVars>>

-----------------------------------------------------------------------------
(* onPostToolUse.                                                          *)

\* A call to a configured server completed; its server is looked up.
CallCompletes(c, tool, result) ==
    LET s == MatchMcpServer(tool, serverNames)
    IN /\ Quiet /\ hook[c].pc \in Returned
       /\ tool \in Configured
       /\ result = "success" => status[tool] = "connected"
       /\ hook' = [hook EXCEPT ![c] = [pc |-> IF s = None THEN "refresh" ELSE "decide",
                                       tool |-> tool, server |-> s,
                                       result |-> result, polls |-> 0]]
       /\ IF s = None THEN RefreshServerNames ELSE UNCHANGED cacheVars
       /\ UNCHANGED <<hostVars, reloadVars, manualVars>>

HookReturns(c, advice) == hook' = [hook EXCEPT ![c] = Done(advice)]
Advice(outcome) == IF outcome = "ok" THEN "retry" ELSE "escalate"
Log(advice) == IF advice = "retry" THEN "log-retry" ELSE "log-escalate"
HookLogs(c, advice) == HookReturns(c, Log(advice))

\* The log call came back, or failed, and the hook returns what it had decided.
Logged(c) ==
    /\ Quiet
    /\ \E advice \in {"retry", "escalate"} :
         hook[c].pc = Log(advice) /\ HookReturns(c, advice)
    /\ UNCHANGED <<hostVars, cacheVars, reloadVars, manualVars>>

ClearOnSuccess(c) ==
    LET s == hook[c].server
    IN /\ hook[c].pc = "decide" /\ hook[c].result = "success"
       /\ reloaded' = reloaded \ {s}
       /\ HookReturns(c, "nothing")
       /\ UNCHANGED <<hostVars, cacheVars, inflight, manualVars>>

IgnoreOther(c) ==
    /\ hook[c].pc = "decide" /\ hook[c].result = "other"
    /\ HookReturns(c, "nothing")
    /\ UNCHANGED <<hostVars, cacheVars, reloadVars, manualVars>>

Failed(c) == hook[c].pc = "decide" /\ hook[c].result = "connection-error"

\* The outcome of a reload that ended but was not released yet is shared at once.
ShareReload(c) ==
    LET s == hook[c].server
    IN /\ Failed(c) /\ inflight[s] # "none"
       /\ IF inflight[s] = "running"
          THEN hook' = [hook EXCEPT ![c].pc = "wait"]
          ELSE HookReturns(c, Advice(inflight[s]))
       /\ UNCHANGED <<hostVars, cacheVars, reloadVars, manualVars>>

\* Mutant: the armed set is consulted before the reload in flight.
EscalateAgain_BeforeSharing(c) ==
    /\ Failed(c) /\ hook[c].server \in reloaded
    /\ HookLogs(c, "escalate")
    /\ UNCHANGED <<hostVars, cacheVars, reloadVars, manualVars>>

EscalateAgain(c) ==
    /\ Failed(c) /\ inflight[hook[c].server] = "none" /\ hook[c].server \in reloaded
    /\ HookLogs(c, "escalate")
    /\ UNCHANGED <<hostVars, cacheVars, reloadVars, manualVars>>

\* Mutant: a second reload may start while one is in flight.
StartReload_Unshared(c) ==
    LET s == hook[c].server
    IN /\ Failed(c) /\ s \notin reloaded
       /\ reloaded' = reloaded \cup {s}
       /\ inflight' = [inflight EXCEPT ![s] = "running"]
       /\ hook' = [hook EXCEPT ![c].pc = "reload"]
       /\ UNCHANGED <<hostVars, cacheVars, manualVars>>

\* Arming and registering the shared promise happen without an await.
StartReload(c) ==
    LET s == hook[c].server
    IN /\ Failed(c) /\ inflight[s] = "none" /\ s \notin reloaded
       /\ reloaded' = reloaded \cup {s}
       /\ inflight' = [inflight EXCEPT ![s] = "running"]
       /\ hook' = [hook EXCEPT ![c].pc = "reload"]
       /\ UNCHANGED <<hostVars, cacheVars, manualVars>>

\* The shared promise resolves: every hook that waits for it goes on.
Settle(c, outcome) ==
    LET s == hook[c].server
    IN /\ inflight' = [inflight EXCEPT ![s] = outcome]
       /\ hook' = [d \in Calls |->
                     IF d = c THEN [hook[d] EXCEPT !.pc = "settled", !.polls = 0]
                     ELSE IF hook[d].pc = "wait" /\ hook[d].server = s
                          THEN Done(Advice(outcome))
                          ELSE hook[d]]
       /\ UNCHANGED <<reloaded, cacheVars, manualVars>>

ReloadFails(c) ==
    /\ Quiet /\ hook[c].pc = "reload"
    /\ Settle(c, "failed")
    /\ UNCHANGED hostVars

ReloadAnswered(c) ==
    /\ Quiet /\ hook[c].pc = "reload"
    /\ hook' = [hook EXCEPT ![c].pc = "poll", ![c].polls = Polls]
    /\ Reload
    /\ UNCHANGED <<cacheVars, reloadVars, manualVars>>

VerifyConnected(c) ==
    LET s == hook[c].server
    IN /\ Quiet /\ hook[c].pc = "poll"
       /\ status[s] \in {"connected", "needs-auth"}
       /\ Settle(c, IF status[s] = "connected" THEN "ok" ELSE "failed")
       /\ UNCHANGED hostVars

\* Mutant: the budget is not looked at.
VerifyAgain_NoFloor(c) ==
    /\ Quiet /\ hook[c].pc = "poll"
    /\ hook' = [hook EXCEPT ![c].polls = @ - 1]
    /\ UNCHANGED <<hostVars, cacheVars, reloadVars, manualVars>>

\* Mutant: polling has no budget.
VerifyAgain_Unbounded(c) ==
    /\ Quiet /\ hook[c].pc = "poll" /\ hook[c].polls >= 1
    /\ hook' = [hook EXCEPT ![c].polls = Polls]
    /\ UNCHANGED <<hostVars, cacheVars, reloadVars, manualVars>>

\* Not connected yet, or the poll's list() failed.
VerifyAgain(c) ==
    /\ Quiet /\ hook[c].pc = "poll" /\ hook[c].polls > 1
    /\ hook' = [hook EXCEPT ![c].polls = @ - 1]
    /\ UNCHANGED <<hostVars, cacheVars, reloadVars, manualVars>>

GiveUp(c) ==
    /\ Quiet /\ hook[c].pc = "poll" /\ hook[c].polls <= 1
    /\ Settle(c, "failed")
    /\ UNCHANGED hostVars

\* The hook that reloaded resumes (a log call may have delayed it), takes the
\* promise out of the map and logs the outcome: from here on another failure of
\* this server may start a new reload before this hook has returned.
Release(c) ==
    LET s == hook[c].server
    IN /\ Quiet /\ hook[c].pc = "settled"
       /\ inflight' = [inflight EXCEPT ![s] = "none"]
       /\ HookLogs(c, Advice(inflight[s]))
       /\ UNCHANGED <<hostVars, cacheVars, reloaded, manualVars>>

-----------------------------------------------------------------------------
(* mcp_reload_now.                                                         *)

ManualReload ==
    /\ Quiet /\ ManualReloads /\ manual = "idle"
    /\ Reload
    /\ manual' = "list"
    /\ UNCHANGED <<cacheVars, reloadVars, hook, seen>>

\* list(), then the cache is refreshed before the answer is used.
ManualList ==
    /\ Quiet /\ manual = "list"
    /\ manual' = "refresh"
    /\ seen' = {s \in Servers : status[s] = "connected"}
    /\ RefreshServerNames
    /\ UNCHANGED <<hostVars, reloadVars, hook>>

ManualListFails ==
    /\ Quiet /\ manual = "list"
    /\ manual' = "idle"
    /\ UNCHANGED <<hostVars, cacheVars, reloadVars, hook, seen>>

-----------------------------------------------------------------------------

Host == \E s \in Servers, st \in Statuses : StatusChanges(s, st)

Cache == ListAnswered \/ RefreshEnds \/ RefreshFails \/ StatusEventDelivered

Deciding(c) ==
    ClearOnSuccess(c) \/ IgnoreOther(c) \/ ShareReload(c) \/ EscalateAgain(c) \/ StartReload(c)
Reloading(c) == ReloadFails(c) \/ ReloadAnswered(c)
Polling(c) == VerifyConnected(c) \/ VerifyAgain(c) \/ GiveUp(c)

Manually == ManualReload \/ ManualList \/ ManualListFails

Next ==
    \/ Host
    \/ Cache
    \/ \E c \in Calls, tool \in Servers, result \in Results : CallCompletes(c, tool, result)
    \/ \E c \in Calls : Deciding(c) \/ Reloading(c) \/ Polling(c) \/ Release(c) \/ Logged(c)
    \/ Manually

\* The host answers its calls, timers fire, and the event loop gives every
\* ready callback its turn, however many other turns come in between.
Fairness ==
    /\ SF_vars(ListAnswered \/ RefreshEnds \/ RefreshFails)
    /\ \A c \in Calls :
         /\ WF_vars(Deciding(c))
         /\ SF_vars(Reloading(c) \/ Polling(c) \/ Release(c) \/ Logged(c))

Spec == Init /\ [][Next]_vars /\ Fairness

-----------------------------------------------------------------------------
(* What makes the recovery correct.                                        *)

Reloads(c, s) == hook[c].pc \in Owning /\ hook[c].server = s

\* A server in the map has exactly one hook that reloads it and will take it
\* out again, and nobody waits for a promise that already resolved: concurrent
\* failures share one reload and none of them is forgotten (onPostToolUse).
SharedReload ==
    \A s \in Servers :
      /\ inflight[s] # "none" => \E c \in Calls : Reloads(c, s)
      /\ \A c \in Calls : Reloads(c, s) =>
           /\ inflight[s] # "none"
           /\ hook[c].pc = "settled" <=> inflight[s] # "running"
           /\ \A d \in Calls : Reloads(d, s) => c = d
      /\ \A c \in Calls : hook[c].pc = "wait" /\ hook[c].server = s => inflight[s] = "running"

\* The step in which hook c learns what it will tell the agent.
Decides(c, advice) ==
    /\ hook[c].pc \notin Returned \cup Telling
    /\ hook'[c].pc \in {advice, Log(advice)}

\* Advice is decided on an outcome: no hook decides while a reload of its server
\* runs, it says retry only when a shared reload has just been confirmed, and
\* give up only when one failed, or the server is armed and none is in the map
\* (onPostToolUse).  The promise is about the decision: the log line awaited
\* before the return leaves room for a newer reload, of which the returned
\* advice says nothing.
AdviceAwaitsOutcome ==
    [][\A c \in Calls :
         LET s == hook[c].server
             outcomes == {inflight[s], inflight'[s]}
         IN /\ Decides(c, "retry") => inflight'[s] # "running" /\ "ok" \in outcomes
            /\ Decides(c, "escalate") =>
                 /\ inflight'[s] # "running"
                 /\ "failed" \in outcomes \/ (inflight[s] = "none" /\ s \in reloaded)]_vars

\* Every hook returns, whatever the host does: the agent waits for it.
HooksReturn == \A c \in Calls : hook[c].pc \notin Returned ~> hook[c].pc \in Returned

=============================================================================
