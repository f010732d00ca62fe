--------------------------- MODULE MetadataCache ---------------------------
(***************************************************************************)
(* The metadata cache below the build root: zerotrust_cache_store, _load,  *)
(* _list and _cleanup.  Every session of the host is a process of its own; *)
(* a handler is synchronous within it, and the handlers of two sessions    *)
(* interleave between the calls of the file system that create, write,     *)
(* rename, open and remove a file.  A listing is one step: in the code it  *)
(* reads the directories and stats the entries one by one, and fails when  *)
(* one of them is removed meanwhile.  The files of all the namespaces are  *)
(* one directory tree: an entry is named by its source, a temporary file   *)
(* by its source and a random identifier.                                  *)
(*                                                                         *)
(* A source is a commit of a repository or the set of contents of a local  *)
(* tree; its namespace is the repository or the path.  The caps are on     *)
(* numbers of files (the caps on bytes follow the same path), and a call   *)
(* that fails without an effect is not a step.                             *)
(***************************************************************************)
EXTENDS Naturals, FiniteSets, SequencesExt

CONSTANTS
    Sessions,
    Sources,
    Namespace,      \* of a source
    Audited,        \* bound: the sources each session audits
    Fragile,        \* bound: the sources whose entries are damaged on disk
    Local,          \* namespaces of local trees, whose contents change under an audit
    Paths,
    Tree,           \* what a source has at a path
    Indexed,        \* sets of paths an audit may have indexed when it stores
    TotalFiles,     \* CACHE_LIMITS.totalFiles
    NamespaceFiles, \* CACHE_LIMITS.namespaceFiles
    LoadBudget,     \* loadResultBytes, in files and plugin records
    None

ASSUME CacheAssumption ==
    /\ IsFiniteSet(Sessions) /\ Sessions # {} /\ IsFiniteSet(Sources) /\ IsFiniteSet(Paths)
    /\ None \notin Sessions \cup Sources
    /\ Indexed \subseteq SUBSET Paths /\ LoadBudget \in Nat
    /\ TotalFiles \in Nat \ {0} /\ NamespaceFiles \in Nat \ {0}
    /\ \A x \in Sources : Tree[x] = [path \in Paths |-> Tree[x][path]]

VARIABLES
    disk,       \* the files, in the order of their mtime, oldest first
    session     \* per session: its audit, its cache binding, the call it is in

vars == <<disk, session>>

\* The plugin record of a payload rests on all its files.
Payloads == [source: Sources, files: Indexed]
Files == [owner: Sessions \cup {None}, payload: Payloads, state: {"partial", "whole", "damaged"}]
Calls == {"idle", "evicting", "creating", "writing", "renaming",
          "looking", "opening", "discarding", "returned", "cleaning"}

\* files: pairs of a path and the source whose entry it came from.
Loads == [files: SUBSET (Paths \X Sources), records: SUBSET Payloads]

Handlers == [audit: Sources \cup {None}, bound: Sources \cup {None}, pc: Calls,
             payload: Payloads \cup {None}, names: Seq(Sources), valid: Seq(Payloads),
             changed: BOOLEAN, loaded: Loads \cup {None}]

Idle(audit, bound) ==
    [audit |-> audit, bound |-> bound, pc |-> "idle", payload |-> None, names |-> <<>>,
     valid |-> <<>>, changed |-> FALSE, loaded |-> None]

\* What of a sequence is in a set, in its order.
Kept(seq, S) ==
    LET kept[n \in 0..Len(seq)] ==
            IF n = 0 THEN <<>>
            ELSE IF seq[n] \in S THEN Append(kept[n - 1], seq[n]) ELSE kept[n - 1]
    IN  kept[Len(seq)]

IsEntry(f) == f.owner = None
NameOf(f) == f.payload.source

Entries == {NameOf(f) : f \in {g \in ToSet(disk) : IsEntry(g)}}
EntryOf(x) == CHOOSE f \in ToSet(disk) : IsEntry(f) /\ NameOf(f) = x

TypeOK ==
    /\ disk \in Seq(Files)
    /\ \A i, j \in DOMAIN disk :
         IsEntry(disk[i]) /\ IsEntry(disk[j]) /\ NameOf(disk[i]) = NameOf(disk[j]) => i = j
    /\ session \in [Sessions -> Handlers]

Init ==
    /\ disk = <<>>
    /\ session = [s \in Sessions |-> Idle(None, None)]

-----------------------------------------------------------------------------
(* Files.                                                                  *)

InNamespace(x, y) == Namespace[x] = Namespace[y]
Siblings(x) == {y \in Sources : InNamespace(x, y)}

Temporary(s) == {i \in DOMAIN disk : disk[i].owner = s}
WithoutOwn(s) == Kept(disk, {f \in ToSet(disk) : f.owner # s})

\* listCanonicalCacheFiles deletes every temporary file it meets.
WithoutTemporary(sources) ==
    Kept(disk, {f \in ToSet(disk) : IsEntry(f) \/ NameOf(f) \notin sources})

\* listCanonicalCacheFiles, collectAllCacheFiles: all at once, and not entry by entry. What
\* another session removes or adds during a listing is here removed or added before it or
\* after it, and a listing that fails on it is a call that was not made.
NamesOf(sources) ==
    LET entries == Kept(disk, {f \in ToSet(disk) : IsEntry(f) /\ NameOf(f) \in sources})
    IN  [i \in DOMAIN entries |-> NameOf(entries[i])]

Unlinked(x) == Kept(disk, {f \in ToSet(disk) : ~IsEntry(f) \/ NameOf(f) # x})

\* The session goes on; one that has looked at the file x and not opened it yet
\* will find another file, or none.
Goes(s, next, x) ==
    session' = [r \in Sessions |->
        IF r = s THEN next
        ELSE IF session[r].pc = "opening" /\ Head(session[r].names) = x
        THEN [session[r] EXCEPT !.changed = TRUE]
        ELSE session[r]]

Becomes(s, next) == Goes(s, next, None)
Returns(s) == Becomes(s, Idle(session[s].audit, session[s].bound))

\* resolveActiveCacheContext: the binding is immutable while it is there.
Binds(s) ==
    /\ session[s].pc = "idle" /\ session[s].audit # None
    /\ session[s].bound \in {None, session[s].audit}

In(s, pc) == [session[s] EXCEPT !.pc = pc, !.bound = session[s].audit]

-----------------------------------------------------------------------------
(* zerotrust_cache_store                                                   *)

\* collectAllCacheFiles: over all namespaces.
Store(s, files) ==
    LET x == session[s].audit
    IN  /\ Binds(s)
        /\ disk' = WithoutTemporary(Sources)
        /\ Becomes(s, [In(s, "evicting") EXCEPT !.payload = [source |-> x, files |-> files],
                                                !.names = NamesOf(Sources \ {x})])

NamespaceOverflow(x, names) ==
    Cardinality({y \in ToSet(names) : InNamespace(x, y)}) + 1 > NamespaceFiles

\* Mutant: the file about to be written is not counted.
Overflow_Current(x, names) == NamespaceOverflow(x, names) \/ Len(names) > TotalFiles

Overflow(x, names) == NamespaceOverflow(x, names) \/ Len(names) + 1 > TotalFiles

\* The oldest of the namespace that is too large, or of all.
Victim(x, names) ==
    Head(Kept(names, {y \in ToSet(names) : NamespaceOverflow(x, names) => InNamespace(x, y)}))

\* Mutant: an entry that is no longer there is tried again.
Evict_Retries(s) ==
    LET now == session[s]
        victim == Victim(now.payload.source, now.names)
    IN  /\ now.pc = "evicting" /\ Overflow(now.payload.source, now.names)
        /\ victim \in Entries
        /\ disk' = Unlinked(victim)
        /\ Goes(s, [now EXCEPT !.names = Kept(@, Sources \ {victim})], victim)

\* The names are those of the listing; when another session has removed the
\* victim, the store fails.
Evict(s) ==
    LET now == session[s]
        victim == Victim(now.payload.source, now.names)
    IN  /\ now.pc = "evicting" /\ Overflow(now.payload.source, now.names)
        /\ IF victim \in Entries
           THEN /\ disk' = Unlinked(victim)
                /\ Goes(s, [now EXCEPT !.names = Kept(@, Sources \ {victim})], victim)
           ELSE Returns(s) /\ UNCHANGED disk

HasRoom(s) ==
    /\ session[s].pc = "evicting" /\ ~Overflow(session[s].payload.source, session[s].names)
    /\ Becomes(s, [session[s] EXCEPT !.pc = "creating", !.names = <<>>])
    /\ UNCHANGED disk

CreateTemp(s) ==
    /\ session[s].pc = "creating"
    /\ disk' = Append(disk, [owner |-> s, payload |-> session[s].payload, state |-> "partial"])
    /\ Becomes(s, [session[s] EXCEPT !.pc = "writing"])

\* Mutant: the write is not waited for.
WriteTemp_NotWaited(s) ==
    /\ session[s].pc = "writing"
    /\ UNCHANGED disk
    /\ Becomes(s, [session[s] EXCEPT !.pc = "renaming"])

\* Written and synced, through the descriptor: the name may be gone.
WriteTemp(s) ==
    /\ session[s].pc = "writing"
    /\ disk' = IF Temporary(s) = {} THEN disk
               ELSE Append(WithoutOwn(s),
                           [owner |-> s, payload |-> session[s].payload, state |-> "whole"])
    /\ Becomes(s, [session[s] EXCEPT !.pc = "renaming"])

\* Mutant: the entry that was there is not replaced.
RenameTemp_Beside(s) ==
    /\ session[s].pc = "renaming"
    /\ disk' = [i \in DOMAIN disk |->
                  IF i \in Temporary(s) THEN [disk[i] EXCEPT !.owner = None] ELSE disk[i]]
    /\ Returns(s)

\* The entry is replaced; when another session has deleted the temporary file, the
\* rename fails.  What is read back afterwards decides the answer, and no more.
RenameTemp(s) ==
    LET x == session[s].payload.source
    IN  /\ session[s].pc = "renaming"
        /\ IF Temporary(s) = {} THEN UNCHANGED disk /\ Returns(s)
           ELSE /\ disk' = [i \in DOMAIN Unlinked(x) |->
                              IF Unlinked(x)[i].owner = s
                              THEN [Unlinked(x)[i] EXCEPT !.owner = None] ELSE Unlinked(x)[i]]
                /\ Goes(s, Idle(session[s].audit, session[s].bound), x)

\* An error of the file system before the rename; its temporary file is removed.
StoreFails(s) ==
    /\ session[s].pc \in {"creating", "writing", "renaming"}
    /\ disk' = WithoutOwn(s)
    /\ Returns(s)

-----------------------------------------------------------------------------
(* zerotrust_cache_load and zerotrust_cache_list                           *)

Read(s) ==
    LET here == Siblings(session[s].audit)
    IN  /\ Binds(s)
        /\ disk' = WithoutTemporary(here)
        /\ Becomes(s, [In(s, "looking") EXCEPT !.names = Reverse(NamesOf(here))])

\* readCacheFile looks at the name first and skips one that is gone.
Look(s) ==
    LET now == session[s]
    IN  /\ now.pc = "looking" /\ now.names # <<>>
        /\ Becomes(s, IF Head(now.names) \in Entries THEN [now EXCEPT !.pc = "opening"]
                      ELSE [now EXCEPT !.names = Tail(@)])
        /\ UNCHANGED disk

\* Then it opens the name, and anything but the file it looked at, whole, is corrupt.
Open(s) ==
    LET now == session[s]
        x == Head(now.names)
        readable == ~now.changed /\ EntryOf(x).state = "whole"
    IN  /\ now.pc = "opening"
        /\ Becomes(s, IF readable
                      THEN [now EXCEPT !.pc = "looking", !.names = Tail(@),
                                       !.valid = Append(@, EntryOf(x).payload)]
                      ELSE [now EXCEPT !.pc = "discarding", !.changed = FALSE])
        /\ UNCHANGED disk

\* A corrupt entry is unlinked by its name, whatever has it by now.
Discard(s) ==
    LET now == session[s]
        x == Head(now.names)
    IN  /\ now.pc = "discarding"
        /\ disk' = Unlinked(x)
        /\ Goes(s, [now EXCEPT !.pc = "looking", !.names = Tail(@)], x)

ListReturns(s) ==
    /\ session[s].pc = "looking" /\ session[s].names = <<>>
    /\ Returns(s)
    /\ UNCHANGED disk

\* Mutant: the files of an entry are reused by their paths.
Matching_ByPath(payload, x) == payload.files

\* selectReusableCache: the files the active source has with the same content.
Matching(payload, x) ==
    {path \in payload.files : Tree[payload.source][path] = Tree[x][path]}

RecordFits(payload, x, loaded) ==
    /\ Matching(payload, x) = payload.files
    /\ \A path \in payload.files : \E y \in Sources : <<path, y>> \in loaded

\* The first files of an entry the budget has room for, of those not loaded yet.
TakeFiles(sofar, payload, x) ==
    LET fresh == {path \in Matching(payload, x) : \A y \in Sources : <<path, y>> \notin sofar.files}
        room == LoadBudget - Cardinality(sofar.files) - Cardinality(sofar.records)
        fits == IF Cardinality(fresh) < room THEN Cardinality(fresh) ELSE room
    IN  {[sofar EXCEPT !.files = @ \cup {<<path, payload.source>> : path \in part}] :
            part \in {T \in SUBSET fresh : Cardinality(T) = fits}}

\* One record is kept of a plugin.
TakeRecord(sofar, payload, x) ==
    IF /\ RecordFits(payload, x, sofar.files) /\ sofar.records = {}
       /\ Cardinality(sofar.files) < LoadBudget
    THEN [sofar EXCEPT !.records = {payload}] ELSE sofar

\* What may be taken of the first n entries.
Taken(entries, x) ==
    LET sofars[n \in 0..Len(entries)] ==
            IF n = 0 THEN {[files |-> {}, records |-> {}]}
            ELSE {TakeRecord(next, entries[n], x) :
                    next \in UNION {TakeFiles(sofar, entries[n], x) : sofar \in sofars[n - 1]}}
    IN  sofars[Len(entries)]

\* The exact source first, then from new to old.
Selections(valid, x) ==
    Taken(Kept(valid, {e \in ToSet(valid) : e.source = x})
            \o Kept(valid, {e \in ToSet(valid) : e.source # x}), x)

\* With include_prior_source_matches or without.
LoadReturns(s, prior) ==
    LET now == session[s]
        entries == Kept(now.valid, {e \in ToSet(now.valid) : prior \/ e.source = now.audit})
    IN  /\ now.pc = "looking" /\ now.names = <<>>
        /\ \E loaded \in Selections(entries, now.audit) :
              Becomes(s, [now EXCEPT !.pc = "returned", !.valid = <<>>, !.loaded = loaded])
        /\ UNCHANGED disk

Answered(s) ==
    /\ session[s].pc = "returned"
    /\ Returns(s)
    /\ UNCHANGED disk

-----------------------------------------------------------------------------
(* zerotrust_cache_cleanup, of one source or of its namespace.             *)

Cleanup(s, whole) ==
    LET here == Siblings(session[s].audit)
    IN  /\ Binds(s)
        /\ disk' = IF whole THEN WithoutTemporary(here) ELSE disk
        /\ Becomes(s, [In(s, "cleaning") EXCEPT
                          !.names = IF whole THEN NamesOf(here) ELSE <<session[s].audit>>])

CleanNext(s) ==
    LET now == session[s]
    IN  /\ now.pc = "cleaning" /\ now.names # <<>>
        /\ disk' = Unlinked(Head(now.names))
        /\ Goes(s, [now EXCEPT !.names = Tail(@)], Head(now.names))

\* The binding is cleared at the end.
Cleaned(s) ==
    /\ session[s].pc = "cleaning" /\ session[s].names = <<>>
    /\ Becomes(s, Idle(session[s].audit, None))
    /\ UNCHANGED disk

-----------------------------------------------------------------------------
(* What happens to a session, and to the files, besides.                   *)

Activate(s, x) ==
    /\ session[s].pc = "idle" /\ session[s].audit = None /\ x \in Audited[s]
    /\ Becomes(s, Idle(x, None))
    /\ UNCHANGED disk

\* Closing an audit, or its end, clears the binding and leaves the files.
Close(s) ==
    /\ session[s].pc = "idle" /\ session[s].audit # None
    /\ Becomes(s, Idle(None, None))
    /\ UNCHANGED disk

\* A local tree was edited and indexed again: the source of the audit is another one.
Reindex(s, x) ==
    /\ session[s].pc = "idle" /\ session[s].audit \notin {None, x} /\ x \in Audited[s]
    /\ Namespace[x] \in Local /\ InNamespace(session[s].audit, x)
    /\ Becomes(s, Idle(x, session[s].bound))
    /\ UNCHANGED disk

\* The process ends wherever it is.
Crash(s) ==
    /\ session[s].pc # "idle"
    /\ Becomes(s, Idle(None, None))
    /\ UNCHANGED disk

Damage(x) ==
    /\ x \in Entries \cap Fragile /\ EntryOf(x).state = "whole"
    /\ disk' = [i \in DOMAIN disk |-> IF disk[i] = EntryOf(x)
                                      THEN [disk[i] EXCEPT !.state = "damaged"] ELSE disk[i]]
    /\ UNCHANGED session

Call(s) ==
    \/ \E files \in Indexed : Store(s, files)
    \/ Read(s)
    \/ \E whole \in BOOLEAN : Cleanup(s, whole)

Step(s) ==
    \/ Evict(s) \/ HasRoom(s) \/ CreateTemp(s) \/ WriteTemp(s) \/ RenameTemp(s)
    \/ Look(s) \/ Open(s) \/ Discard(s) \/ ListReturns(s) \/ Answered(s)
    \/ \E prior \in BOOLEAN : LoadReturns(s, prior)
    \/ CleanNext(s) \/ Cleaned(s)

Next ==
    \/ \E s \in Sessions :
         \/ Call(s) \/ Step(s) \/ StoreFails(s) \/ Close(s) \/ Crash(s)
         \/ \E x \in Sources : Activate(s, x) \/ Reindex(s, x)
    \/ \E x \in Sources : Damage(x)

\* A handler that was called runs to its end.
Spec == Init /\ [][Next]_vars /\ \A s \in Sessions : WF_vars(Step(s))

-----------------------------------------------------------------------------
(* What makes the cache right.                                             *)

\* "enforces ... size/file-count caps" (extension.mjs): a store makes room by its
\* own listing, and others write between the listing and the rename.  The caps
\* are exceeded by at most one file for each of the other sessions.
CapsBounded ==
    LET slack == Cardinality(Sessions) - 1
    IN  /\ Cardinality(Entries) <= TotalFiles + slack
        /\ \A x \in Sources :
             Cardinality({y \in Entries : InNamespace(x, y)}) <= NamespaceFiles + slack

\* "Atomically store": under the name of an entry there is never a file whose
\* write did not end, wherever a session crashed.
EntriesWhole == \A f \in ToSet(disk) : IsEntry(f) => f.state # "partial"

\* "Across source-SHA changes only records whose path and blob/content identity are
\* unchanged are reusable": what a load returns, merged from several entries while
\* others store, clean and evict, has the contents of the active source, and every
\* plugin record all its files among those that were returned.
LoadFits ==
    \A s \in Sessions : session[s].pc = "returned" =>
        LET x == session[s].audit
            loaded == session[s].loaded
        IN  /\ \A pair \in loaded.files : Tree[pair[2]][pair[1]] = Tree[x][pair[1]]
            /\ \A record \in loaded.records : \A path \in record.files :
                 /\ Tree[record.source][path] = Tree[x][path]
                 /\ \E z \in Sources : <<path, z>> \in loaded.files
            /\ Cardinality(loaded.files) + Cardinality(loaded.records) <= LoadBudget

\* Every call of a session returns, whatever the others remove under it.
CallsReturn == \A s \in Sessions : session[s].pc # "idle" ~> session[s].pc = "idle"

=============================================================================
