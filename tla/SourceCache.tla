----------------------------- MODULE SourceCache -----------------------------
(* The stored lookups of the sending sources (sourceCache): what a host name  *)
(* or an SPF record lists, one row for each kind of source that refers to the *)
(* name, shared by all runs.  A list is "full" or "empty"; "wide" is a stored *)
(* SPF result that takes in too much address space.  A run resolves one name  *)
(* here, since names share nothing but the pruning of the run.                *)
EXTENDS Naturals

CONSTANTS
  Caches,         \* the job runs, each with a cache of its own
  Names, KindsOf, \* the names, and the kinds of source that may refer to each
  FirstKind,          \* of two kinds of a name, the one that is stored first
  Settled,        \* references that are never dropped
  MaxPeriods      \* bound: the clock, in steps longer than CacheFreshAge

\* Each name is referred to by one kind of source, or by two of which one comes
\* first; the SPF record of a domain by one.
SourcesAssumption ==
  /\ \A n \in Names : \E k \in KindsOf[n] : KindsOf[n] \subseteq {FirstKind, k}
  /\ \A n \in Names : "spf" \in KindsOf[n] => KindsOf[n] = {"spf"}
  /\ \A m, n \in Names : m # n => KindsOf[m] \intersect KindsOf[n] = {}
  /\ Names # {} /\ MaxPeriods \in Nat

VARIABLES period, lookups, refs, cache,
  torn            \* has a run stored one kind of a name and not the other, have the
                  \* references changed while a run was at work, or has a read or
                  \* a deletion failed that hid one kind from what was done?

sourcesVars == <<period, lookups, refs, cache, torn>>

Kinds == UNION {KindsOf[n] : n \in Names}
NoLookup == [list |-> "", at |-> 0]
NewRow(list) == [list |-> list, at |-> period]
Idle == [pc |-> "off", name |-> CHOOSE n \in Names : TRUE, kinds |-> {}, gone |-> {}, todo |-> {},
         got |-> "", force |-> FALSE, refused |-> FALSE, wide |-> FALSE]

\* What is asked of a single kind cannot part the kinds of a name.
Several(kinds) == \E j, k \in kinds : j # k

CacheGoes(p, r) == cache' = [cache EXCEPT ![p] = r]
\* The run has its result; wide: was that a list that is not usable?
Uses(p, list) == CacheGoes(p, [Idle EXCEPT !.wide = (list = "wide")])

-----------------------------------------------------------------------------
Stored(kinds) == {k \in kinds : lookups[k] # NoLookup}

\* The most recently fetched row; of two of the same time, the first kind's.
Latest(S) ==
  CHOOSE k \in S : \A j \in S \ {k} :
    lookups[k].at > lookups[j].at \/ (lookups[k].at = lookups[j].at /\ k = FirstKind)

\* storedRow: fresh rows are used without asking.  The row of a kind that
\* cannot be read is passed over: kinds are then the others.
StoredRow(kinds, fresh) ==
  LET S == {k \in Stored(kinds) : fresh => lookups[k].at = period}
  IN IF S = {} THEN "" ELSE lookups[Latest(S)].list

\* keptRow: what an answer that lists nothing must not replace.
KeptRow(kinds) ==
  LET S == {k \in Stored(kinds) : lookups[k].list # "empty"}
  IN IF S = {} THEN "" ELSE lookups[Latest(S)].list

\* usableSPF
UsableSPF(list) == list \in {"full", "empty"}

\* ReplaceSendingSourceLookup: the statement that writes checks again.
M_Writes(k, r) == TRUE
Writes(k, r) == r.force \/ r.got = "full" \/ lookups[k].list \in {"", "empty"}

-----------------------------------------------------------------------------
\* The host names of the setting read as none when it cannot be read
\* (GetSetting): the sources a reader then finds, and those it misses.
Unread == SUBSET {FirstKind}

\* newSourceCache: the kinds of the name are those at the start of the run.
NewCache(p, n) ==
  /\ cache[p].pc = "off"
  /\ \E missed \in Unread :
       LET kinds == KindsOf[n] \intersect refs
       IN /\ kinds \ missed # {}
          /\ CacheGoes(p, [Idle EXCEPT !.pc = "list", !.name = n, !.kinds = kinds \ missed])
          /\ torn' = (torn \/ kinds \intersect missed # {})
  /\ UNCHANGED <<period, lookups, refs>>

\* The run is over, canceled (nothing more is stored) or killed.
Discard(p) ==
  /\ cache[p].pc # "off" /\ CacheGoes(p, Idle)
  /\ torn' = (torn \/ (cache[p].pc = "store" /\ cache[p].todo # cache[p].kinds))
  /\ UNCHANGED <<period, lookups, refs>>

\* pruneGone: list the rows, read the sources again, delete what none refers to.
PruneList(p) ==
  /\ cache[p].pc = "list" /\ CacheGoes(p, [cache[p] EXCEPT !.pc = "sources", !.gone = Stored(Kinds)])
  /\ UNCHANGED <<period, lookups, refs, torn>>

PruneSources(p) ==
  /\ cache[p].pc = "sources"
  /\ \E missed \in Unread :
       /\ CacheGoes(p, [cache[p] EXCEPT !.pc = "delete", !.gone = @ \ (refs \ missed)])
       /\ torn' = (torn \/ cache[p].gone \intersect refs \intersect missed # {})
  /\ UNCHANGED <<period, lookups, refs>>

PruneDelete(p) ==
  /\ cache[p].pc = "delete"
  /\ IF cache[p].gone = {} THEN lookups' = lookups /\ CacheGoes(p, [cache[p] EXCEPT !.pc = "read"])
     ELSE \E k \in cache[p].gone :
            lookups' = [lookups EXCEPT ![k] = NoLookup] /\ CacheGoes(p, [cache[p] EXCEPT !.gone = @ \ {k}])
  /\ UNCHANGED <<period, refs, torn>>

\* A failure is logged: nothing is deleted when the rows or the mailboxes cannot
\* be listed, and the next row is when one cannot be deleted.
PruneFails(p) ==
  /\ \/ /\ cache[p].pc \in {"list", "sources"}
        /\ CacheGoes(p, [cache[p] EXCEPT !.pc = "read", !.gone = {}])
        /\ torn' = (torn \/ ~(Stored(Kinds) \subseteq refs))
     \/ /\ cache[p].pc = "delete" /\ torn' = TRUE
        /\ \E k \in cache[p].gone : CacheGoes(p, [cache[p] EXCEPT !.gone = @ \ {k}])
  /\ UNCHANGED <<period, lookups, refs>>

\* ResolveHost, ResolveSPF: a fresh row, or else the source is looked up.
Resolve(p) ==
  /\ cache[p].pc = "read"
  /\ \E read \in SUBSET cache[p].kinds :
       LET row == StoredRow(read, TRUE)
       IN IF UsableSPF(row) THEN Uses(p, row) ELSE CacheGoes(p, [cache[p] EXCEPT !.pc = "lookup"])
  /\ UNCHANGED <<period, lookups, refs, torn>>

\* A lookup that is complete is stored; any other falls back to the stored row,
\* whatever its age.
Complete(p, got) ==
  /\ cache[p].pc = "lookup"
  /\ CacheGoes(p, [cache[p] EXCEPT !.pc = IF got = "empty" THEN "kept" ELSE "store", !.got = got, !.todo = cache[p].kinds])
  /\ UNCHANGED <<period, lookups, refs, torn>>

Incomplete(p) ==
  /\ cache[p].pc = "lookup"
  /\ \E read \in SUBSET cache[p].kinds :
       LET row == StoredRow(read, FALSE) IN Uses(p, IF UsableSPF(row) THEN row ELSE "incomplete")
  /\ UNCHANGED <<period, lookups, refs, torn>>

\* An answer that lists nothing yields to a row that lists something, unless
\* that one is not usable.
Keep(p) ==
  /\ cache[p].pc = "kept"
  /\ \E read \in SUBSET cache[p].kinds :
       LET kept == KeptRow(read)
       IN IF UsableSPF(kept) THEN Uses(p, kept) /\ torn' = torn
          ELSE /\ CacheGoes(p, [cache[p] EXCEPT !.pc = "store", !.force = (kept = "wide")])
               /\ torn' = (torn \/ (Several(cache[p].kinds) /\ KeptRow(cache[p].kinds) # kept))
  /\ UNCHANGED <<period, lookups, refs>>

\* store, once for each kind of the name; the last one ends the lookup, or an
\* empty answer that was refused is looked for again.
FirstOf(kinds) == IF FirstKind \in kinds THEN FirstKind ELSE CHOOSE k \in kinds : TRUE
Proceed(p, k, refused) ==
  IF cache[p].todo # {k} THEN CacheGoes(p, [cache[p] EXCEPT !.todo = @ \ {k}, !.refused = refused])
  ELSE IF refused /\ cache[p].got = "empty" THEN CacheGoes(p, [cache[p] EXCEPT !.pc = "again", !.todo = {}])
  ELSE Uses(p, cache[p].got)

StoreLookup(p) ==
  /\ cache[p].pc = "store"
  /\ LET k == FirstOf(cache[p].todo)
     IN /\ lookups' = IF Writes(k, cache[p]) THEN [lookups EXCEPT ![k] = NewRow(cache[p].got)] ELSE lookups
        /\ Proceed(p, k, cache[p].refused \/ ~Writes(k, cache[p]))
  /\ UNCHANGED <<period, refs, torn>>

\* A failure is logged and counts as refused.
StoreLookupFails(p) ==
  /\ cache[p].pc = "store" /\ torn' = (torn \/ Several(cache[p].kinds))
  /\ Proceed(p, FirstOf(cache[p].todo), TRUE)
  /\ UNCHANGED <<period, lookups, refs>>

Again(p) ==
  /\ cache[p].pc = "again"
  /\ \E read \in SUBSET cache[p].kinds :
       LET kept == KeptRow(read) IN Uses(p, IF UsableSPF(kept) THEN kept ELSE cache[p].got)
  /\ UNCHANGED <<period, lookups, refs, torn>>
-----------------------------------------------------------------------------
TimePasses == period < MaxPeriods /\ period' = period + 1 /\ UNCHANGED <<lookups, refs, cache, torn>>

\* The mailboxes or the setting change: a kind of source refers to its name no
\* longer, or again.
Refer ==
  /\ \E k \in Kinds \ Settled : refs' = IF k \in refs THEN refs \ {k} ELSE refs \cup {k}
  /\ torn' = (torn \/ \E p \in Caches : cache[p].pc # "off")
  /\ UNCHANGED <<period, lookups, cache>>

SourcesInit ==
  /\ period = 0 /\ refs = Kinds /\ torn = FALSE
  /\ lookups \in [Kinds -> {NoLookup, [list |-> "wide", at |-> 0]}]
  /\ \A k \in Kinds : k # "spf" => lookups[k] = NoLookup
  /\ cache = [p \in Caches |-> Idle]

SourcesNext ==
  \/ TimePasses \/ Refer
  \/ \E p \in Caches :
       \/ \E n \in Names : NewCache(p, n)
       \/ Discard(p) \/ PruneList(p) \/ PruneSources(p) \/ PruneDelete(p) \/ PruneFails(p) \/ Resolve(p)
       \/ \E got \in {"full", "empty"} : Complete(p, got)
       \/ Incomplete(p) \/ Keep(p) \/ StoreLookup(p) \/ StoreLookupFails(p) \/ Again(p)

SourcesSpec == SourcesInit /\ [][SourcesNext]_sourcesVars
-----------------------------------------------------------------------------
\* An empty answer cannot shrink the sending sources (keptRow, the statement
\* of ReplaceSendingSourceLookup): once no run is storing a name, the row the
\* next run finds first lists nothing only if all of its kinds do; a stored
\* SPF result that is too wide is never used, whatever fails.  Only a run that
\* dies or cannot store between two kinds of a name, one whose references
\* change meanwhile, and one from which a failed read or deletion hid a kind
\* of the name (sourcecache.go:331-336) leave an empty row in front of another.
SourcesStay ==
  /\ \A p \in Caches : ~cache[p].wide
  /\ ~torn => \A n \in Names :
       (\A p \in Caches : cache[p].name = n => cache[p].pc # "store") =>
         LET kinds == KindsOf[n] \intersect refs
         IN StoredRow(kinds, FALSE) = "empty" => KeptRow(kinds) = ""
=============================================================================
