---- MODULE TargetRefs ----
(* The registry of snapshot refs (target-resolution.ts).  Refs are kept in memory and  *)
(* mirrored to chrome.storage.local, one row per tab and an index of the rows, so that *)
(* they outlive the service worker.  Loads and writes go on over several awaits, and   *)
(* the worker may be killed at each.  A ref is the number of its minting; the limits   *)
(* on the number of refs and the shape of the rows are left out.                       *)
EXTENDS Naturals, Sequences

CONSTANTS RefTab,            \* tabs
          MaxRefs,           \* bound: refs minted
          MaxRefKills,       \* bound: workers killed
          MaxRefFailures,    \* bound: calls of the storage that fail
          MaxBrowserStarts   \* bound: restarts of the browser

ASSUME RefsConstants == /\ MaxRefs \in Nat /\ MaxRefKills \in Nat /\ MaxRefFailures \in Nat
                        /\ MaxBrowserStarts \in Nat

VARIABLES minted,      \* history: the tab and the page revision each ref was minted for
          memory,      \* the refs in #refs
          dirty,       \* #dirtyTabs
          loaded,      \* #loaded: no, pending or done
          loader,      \* the load under way
          writes,      \* #writes: the jobs in order, the first under way
          rows,        \* storage: the row of each tab
          indexed,     \* storage: the tabs of the index
          open,        \* Chrome: the open tabs
          closing,     \* forgetTab calls that wait for the load
          promised,    \* history: stored before they were handed out, and not superseded
          earlier,     \* history: minted before the last start of the browser
          cleared,     \* history: whether clear() has ended since, and during a load
          unforgotten, \* history: closed tabs whose forgetTab failed in this worker
          refKills, refFailures, browserStarts

refVars == <<minted, memory, dirty, loaded, loader, writes, rows, indexed, open, closing,
             promised, earlier, cleared, unforgotten, refKills, refFailures,
             browserStarts>>
history == <<minted, earlier, refKills, browserStarts>>
storage == <<rows, indexed>>
tabs == <<open, closing, unforgotten>>

Refs == 1..MaxRefs
NoLoader == [at |-> "off", tabs |-> {}, refs |-> {}, live |-> {}]
Job(kind, ref) == [kind |-> kind, ref |-> ref, at |-> "start", tabs |-> {}, rows |-> {},
                   index |-> {}]

RefsTypeOK ==
  /\ \A r \in DOMAIN minted : minted[r].tab \in RefTab /\ minted[r].revision \in Nat
  /\ memory \cup promised \cup earlier \subseteq DOMAIN minted
  /\ DOMAIN minted \subseteq Refs
  /\ dirty \cup indexed \cup open \cup closing \cup unforgotten \subseteq RefTab
  /\ loaded \in {"no", "pending", "done"} /\ loader.at \in {"off", "index", "rows", "merge"}
  /\ \A i \in DOMAIN writes : writes[i].kind \in {"persist", "clear"}
  /\ \A i \in DOMAIN writes : i > 1 => writes[i].at = "start"
  /\ rows \in [RefTab -> SUBSET DOMAIN minted] /\ cleared \in {"no", "clean", "in_a_load"}
  /\ refKills \in 0..MaxRefKills /\ refFailures \in 0..MaxRefFailures
  /\ browserStarts \in 0..MaxBrowserStarts

RefsInit ==
  /\ minted = <<>> /\ memory = {} /\ dirty = {} /\ loaded = "no" /\ loader = NoLoader
  /\ writes = <<>> /\ rows = [t \in RefTab |-> {}] /\ indexed = {} /\ open = RefTab
  /\ closing = {} /\ unforgotten = {} /\ promised = {} /\ earlier = {} /\ cleared = "no"
  /\ refKills = 0 /\ refFailures = 0 /\ browserStarts = 0

--------------------------------
\* The refs

Of(refs, tab) == {r \in refs : minted[r].tab = tab}
TabsOf(refs) == {minted[r].tab : r \in refs}

\* Refs of a tab for an older page revision than another ref of the tab.
Outdated(refs) ==
  {r \in refs : \E s \in refs : minted[s].tab = minted[r].tab
                                  /\ minted[s].revision > minted[r].revision}

\* A snapshot mints a ref, which drops the older ones of the tab, and asks for the write
\* that comes before the ref is handed out.
Snapshot ==
  /\ Len(minted) < MaxRefs
  /\ \E tab \in open : \E newer \in {0, 1} :
       LET revisions == {minted[r].revision : r \in Of(DOMAIN minted, tab)}
           latest == IF revisions = {} THEN 1
                     ELSE CHOOSE n \in revisions : \A m \in revisions : n >= m
           ref == Len(minted) + 1
           old == {r \in Of(memory, tab) : minted[r].revision < latest + newer}
       IN /\ minted' = Append(minted, [tab |-> tab, revision |-> latest + newer])
          /\ memory' = (memory \ old) \cup {ref}
          /\ promised' = promised \ {r \in Of(promised, tab) :
                                       minted[r].revision < latest + newer}
          /\ dirty' = dirty \cup {tab}
          /\ writes' = Append(writes, Job("persist", ref))
  /\ UNCHANGED <<loaded, loader, storage, tabs, earlier, cleared, refKills, refFailures,
                 browserStarts>>

--------------------------------
\* Loading

Begun == IF loaded = "no" THEN "pending" ELSE loaded
BegunLoader == IF loaded = "no" THEN [NoLoader EXCEPT !.at = "index"] ELSE loader

\* A ref that is not in memory is looked up.
LookupMisses ==
  /\ loaded = "no" /\ loaded' = Begun /\ loader' = BegunLoader
  /\ UNCHANGED <<history, memory, dirty, writes, storage, tabs, promised, cleared,
                 refFailures>>

LoadReadsIndex ==
  /\ loader.at = "index"
  /\ IF indexed = {} THEN loaded' = "done" /\ loader' = NoLoader
     ELSE loader' = [loader EXCEPT !.at = "rows", !.tabs = indexed] /\ UNCHANGED loaded
  /\ UNCHANGED <<history, memory, dirty, writes, storage, tabs, promised, cleared,
                 refFailures>>

LoadReadsRows ==
  /\ loader.at = "rows"
  /\ loader' = [loader EXCEPT !.at = "merge", !.live = open,
                              !.refs = UNION {rows[t] : t \in loader.tabs \cap open}]
  /\ UNCHANGED <<history, memory, dirty, loaded, writes, storage, tabs, promised,
                 cleared, refFailures>>

\* What was minted here meanwhile stays, and closed tabs need a write.
LoadMerges ==
  /\ loader.at = "merge"
  /\ LET all == memory \cup loader.refs
     IN /\ memory' = all \ Outdated(all)
        /\ dirty' = dirty \cup (loader.tabs \ loader.live) \cup TabsOf(Outdated(all))
  /\ loaded' = "done" /\ loader' = NoLoader
  /\ UNCHANGED <<history, writes, storage, tabs, promised, cleared, refFailures>>

\* Whoever waits for it fails; the next one tries again.
RefLoadFails ==
  /\ loader.at \in {"index", "rows"} /\ refFailures < MaxRefFailures
  /\ refFailures' = refFailures + 1 /\ loaded' = "no" /\ loader' = NoLoader
  /\ closing' = {} /\ unforgotten' = unforgotten \cup closing
  /\ writes' = IF writes # <<>> /\ Head(writes).at = "load" THEN Tail(writes) ELSE writes
  /\ UNCHANGED <<history, memory, dirty, storage, open, promised, cleared>>

--------------------------------
\* Writing

Doing(kind, at) == writes # <<>> /\ Head(writes).kind = kind /\ Head(writes).at = at
HeadBecomes(job) == writes' = <<job>> \o Tail(writes)
JobEnds == writes' = Tail(writes)

\* Mutant: what was minted is promised as soon as its write is asked for.
PersistStartsKnown ==
  /\ Doing("persist", "start") /\ HeadBecomes([Head(writes) EXCEPT !.at = "load"])
  /\ loaded' = Begun /\ loader' = BegunLoader /\ promised' = promised \cup {Head(writes).ref}
  /\ UNCHANGED <<history, memory, dirty, storage, tabs, cleared, refFailures>>

PersistStarts ==
  /\ Doing("persist", "start") /\ HeadBecomes([Head(writes) EXCEPT !.at = "load"])
  /\ loaded' = Begun /\ loader' = BegunLoader
  /\ UNCHANGED <<history, memory, dirty, storage, tabs, promised, cleared, refFailures>>

\* The dirty tabs and the index as they are now are what will be written.
PersistTakes ==
  /\ Doing("persist", "load") /\ loaded = "done" /\ dirty # {}
  /\ HeadBecomes([Head(writes) EXCEPT !.at = "set", !.tabs = dirty, !.index = TabsOf(memory),
                                !.rows = {r \in memory : minted[r].tab \in dirty}])
  /\ dirty' = {}
  /\ UNCHANGED <<history, memory, loaded, loader, storage, tabs, promised, cleared,
                 refFailures>>

\* The snapshot that asked for the write hands its ref out: worth nothing if it is outdated
\* or its tab is closed by now.
HandedOut == promised' = promised \cup {r \in {Head(writes).ref} \cap memory : minted[r].tab \in open}

\* A write before it has already taken what it was asked to write.
NothingToPersist ==
  /\ Doing("persist", "load") /\ loaded = "done" /\ dirty = {} /\ JobEnds /\ HandedOut
  /\ UNCHANGED <<history, memory, dirty, loaded, loader, storage, tabs, cleared, refFailures>>

Gone(job) == job.tabs \ job.index

PersistSets ==
  /\ Doing("persist", "set")
  /\ LET job == Head(writes)
     IN /\ rows' = [t \in RefTab |-> IF t \in job.tabs \cap job.index
                                     THEN {r \in job.rows : minted[r].tab = t} ELSE rows[t]]
        /\ indexed' = job.index
        /\ IF Gone(job) = {} THEN JobEnds /\ HandedOut
           ELSE HeadBecomes([job EXCEPT !.at = "remove"]) /\ UNCHANGED promised
  /\ UNCHANGED <<history, memory, dirty, loaded, loader, tabs, cleared, refFailures>>

PersistRemoves ==
  /\ Doing("persist", "remove")
  /\ rows' = [t \in RefTab |-> IF t \in Gone(Head(writes)) THEN {} ELSE rows[t]]
  /\ JobEnds /\ HandedOut
  /\ UNCHANGED <<history, memory, dirty, loaded, loader, indexed, tabs, cleared,
                 refFailures>>

\* The tabs are dirty again.
PersistFails ==
  /\ \/ Doing("persist", "set") \/ Doing("persist", "remove")
  /\ refFailures < MaxRefFailures
  /\ refFailures' = refFailures + 1 /\ dirty' = dirty \cup Head(writes).tabs /\ JobEnds
  /\ UNCHANGED <<history, memory, loaded, loader, storage, tabs, promised, cleared>>

--------------------------------
\* Closed tabs, dead workers, a new browser

CloseTab ==
  /\ \E tab \in open : /\ open' = open \ {tab} /\ closing' = closing \cup {tab}
                       /\ promised' = promised \ Of(promised, tab)
  /\ loaded' = Begun /\ loader' = BegunLoader
  /\ UNCHANGED <<history, memory, dirty, writes, storage, unforgotten, cleared, refFailures>>

ForgetTab ==
  /\ loaded = "done"
  /\ \E tab \in closing :
       /\ closing' = closing \ {tab} /\ memory' = memory \ Of(memory, tab)
       /\ IF Of(memory, tab) = {} /\ tab \notin dirty THEN UNCHANGED <<dirty, writes>>
          ELSE /\ dirty' = dirty \cup {tab}
               /\ writes' = Append(writes, Job("persist", 0))
  /\ UNCHANGED <<history, loaded, loader, storage, open, unforgotten, promised, cleared,
                 refFailures>>

DiesWith(jobs, stillOpen) ==
  /\ memory' = {} /\ dirty' = {} /\ loaded' = "no" /\ loader' = NoLoader
  /\ closing' = {} /\ unforgotten' = {} /\ writes' = jobs /\ open' = stillOpen

WorkerDies ==
  /\ refKills < MaxRefKills /\ refKills' = refKills + 1 /\ DiesWith(<<>>, open)
  /\ cleared' = IF cleared = "no" THEN "no" ELSE "clean"
  /\ UNCHANGED <<minted, earlier, storage, promised, refFailures, browserStarts>>

\* The new browser counts its tabs anew; onStartup asks for clear().
BrowserStarts ==
  /\ browserStarts < MaxBrowserStarts /\ browserStarts' = browserStarts + 1
  /\ DiesWith(<<Job("clear", 0)>>, RefTab)
  /\ earlier' = DOMAIN minted /\ promised' = {} /\ cleared' = "no"
  /\ UNCHANGED <<minted, storage, refKills, refFailures>>

\* clear() waits for the load it finds, if it finds one, and reads the index.
ClearStarts ==
  /\ Doing("clear", "start") /\ loaded # "pending"
  /\ HeadBecomes([Head(writes) EXCEPT !.at = "remove", !.tabs = indexed])
  /\ UNCHANGED <<history, memory, dirty, loaded, loader, storage, tabs, promised,
                 cleared, refFailures>>

ClearRemoves ==
  /\ Doing("clear", "remove")
  /\ rows' = [t \in RefTab |-> IF t \in Head(writes).tabs THEN {} ELSE rows[t]] /\ indexed' = {}
  /\ memory' = {} /\ dirty' = {} /\ loaded' = "done" /\ JobEnds
  /\ promised' = {} /\ cleared' = IF loader.at = "off" THEN "clean" ELSE "in_a_load"
  /\ UNCHANGED <<history, loader, tabs, refFailures>>

--------------------------------

RefsNext ==
  \/ Snapshot \/ LookupMisses \/ LoadReadsIndex \/ LoadReadsRows \/ LoadMerges \/ RefLoadFails
  \/ PersistStarts \/ PersistTakes \/ NothingToPersist \/ PersistSets \/ PersistRemoves \/ PersistFails
  \/ CloseTab \/ ForgetTab \/ WorkerDies \/ BrowserStarts \/ ClearStarts \/ ClearRemoves

RefsSpec == RefsInit /\ [][RefsNext]_refVars

--------------------------------

\* A ref that was stored before it was handed out is found as long as its tab is open and
\* its page has no newer snapshot, whichever workers died and whichever writes failed: it
\* is in memory, or in an indexed row that the next load reads.
PromisedAreFound ==
  \A r \in promised :
    \/ r \in memory
    \/ loaded # "done" /\ (\/ minted[r].tab \in indexed /\ r \in rows[minted[r].tab]
                           \/ r \in loader.refs)

\* Once the calls are over, no ref names a tab that is closed, whether the worker lived to
\* hear of the close or not, except where the load that forgetTab waits for failed or clear()
\* was done during a load, which brings back what it had read.
ClosedTabsForgotten ==
  (loaded = "done" /\ loader.at = "off" /\ closing = {} /\ writes = <<>>)
     => cleared = "in_a_load" \/ TabsOf(memory) \subseteq open \cup unforgotten

\* clear() leaves no ref of the last session, whose tab numbers mean other tabs now
\* (target-resolution.ts:121).
ClearedMeansGone == cleared # "no" => memory \cap earlier = {}

\* A ref handed out is found again, by this worker or by a later one, until its tab is
\* closed, and not after (TargetRefs).
RefsFollowTabs == RefsTypeOK /\ PromisedAreFound /\ ClosedTabsForgotten

================================
