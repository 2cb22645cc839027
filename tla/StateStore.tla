---- MODULE StateStore ----
(* The extension's one persisted record (storage.ts) and the page revisions kept in  *)
(* it (revisions.ts).  A service worker loads the record once, migrating what older   *)
(* builds stored, and keeps a copy; every change runs in one queue as read, change,    *)
(* verify, write.  Chrome may refuse a write, a mutator may throw or build a record    *)
(* that would not load again, and the worker may be stopped between any two steps.     *)
EXTENDS Naturals, Sequences, FiniteSets

CONSTANTS StoredTask,       \* task ids
          StoredTab,        \* tab ids, positive
          Nothing,          \* an absent key or value
          Raws,             \* records an earlier build may have left: see Parse
          Legacies,         \* the version-1 task keys an earlier build may have left
          MaxMutateCalls,   \* bound: mutateState calls
          MaxReadCalls,     \* bound: readState calls
          MaxStops,         \* bound: times Chrome stops the worker
          MaxStorageFailures \* bound: storage calls that fail

VARIABLES stored,           \* chrome.storage.local: STATE_KEY
          legacy,           \* chrome.storage.local: the legacy keys
          cache,            \* initializedState
          loading,          \* initialization: [at, raw, next]
          queue,            \* mutateState calls in order: [id, kind, tab]
          call,             \* the one whose turn it is: [at, next]
          reads,            \* readState calls: [at, after, saw]
          submitted, stops, storageFailures,
          found,            \* what the first worker found: [stored, legacy]
          answered,         \* per tab, the last revision a caller was told
          written           \* per call id, the revision it wrote, 0 if none

storeVars == <<stored, legacy, cache, loading, queue, call, reads, submitted, stops,
               storageFailures, found, answered, written>>

--------------------------------
(* What loads: parseState, and what older records become                             *)

Ids(s) == {s[i] : i \in DOMAIN s}
Once(s) == \A i, j \in DOMAIN s : s[i] = s[j] => i = j
Known(f) == {k \in DOMAIN f : f[k] # Nothing}

\* No tab and no group twice, no tabs without a group.
Unambiguous(tasks) ==
  \A k \in Known(tasks) :
    /\ Once(tasks[k].tabs) /\ (tasks[k].group = Nothing => tasks[k].tabs = <<>>)
    /\ \A l \in Known(tasks) \ {k} :
         /\ Ids(tasks[k].tabs) \cap Ids(tasks[l].tabs) = {}
         /\ tasks[k].group # Nothing => tasks[k].group # tasks[l].group

\* Tabs an older build went on listing as created after they left the task are dropped.
SanitizedTask(t) ==
  [t EXCEPT !.created = IF @ = Nothing THEN {} ELSE @ \cap Ids(t.tabs),
            !.state = IF @ = "needs_user" THEN "working" ELSE @]

NoCleanup == [pending |-> FALSE, tabs |-> <<>>]

\* A notice takes the place of the one handoff older builds kept, if it was active.
NoticesOf(raw) ==
  IF raw.notices # Nothing THEN raw.notices
  ELSE IF raw.handoff = "active" THEN {"migrated"} ELSE {}

Loads(raw) ==
  /\ raw.schema = 1
  /\ raw.notices # Nothing \/ raw.handoff \in {"active", "inactive"}
  /\ Unambiguous(raw.tasks)
  /\ \A t \in Known(raw.revisions) :
       raw.revisions[t].floor >= 1 /\ raw.revisions[t].current >= raw.revisions[t].floor
  /\ \A c \in raw.commits : (c.tab = 0) = (c.revision = 0)
  /\ raw.cleanup # Nothing => Once(raw.cleanup.tabs)

Parse(raw) ==
  IF ~Loads(raw) THEN Nothing
  ELSE [raw EXCEPT !.tasks = [k \in StoredTask |-> IF @[k] = Nothing THEN Nothing
                                                   ELSE SanitizedTask(@[k])],
                   !.notices = NoticesOf(raw), !.handoff = Nothing,
                   !.cleanup = IF @ = Nothing THEN NoCleanup ELSE @]

DefaultState ==
  [schema |-> 1, tasks |-> [k \in StoredTask |-> Nothing],
   revisions |-> [t \in StoredTab |-> Nothing], notices |-> {}, handoff |-> Nothing,
   commits |-> {}, cleanup |-> NoCleanup]

\* legacyTasks: Nothing stands for its throws.
LegacyTasks(l) ==
  IF ~Unambiguous(l) THEN Nothing
  ELSE [k \in StoredTask |-> IF l[k] = Nothing THEN Nothing
          ELSE [group |-> l[k].group, tabs |-> l[k].tabs, created |-> {}, state |-> l[k].state]]
Migrated(l) ==
  IF l = Nothing THEN DefaultState
  ELSE IF LegacyTasks(l) = Nothing THEN Nothing
  ELSE [DefaultState EXCEPT !.tasks = LegacyTasks(l)]

--------------------------------
(* The page revisions: ensure, markNavigation (and observeDocument when the document  *)
(* differs), remove; and the mutators that fail                                       *)

MutatorKinds == {"ensure", "navigated", "removed", "malformed", "throws"}
Revision(s, t) == IF s.revisions[t] = Nothing THEN 0 ELSE s.revisions[t].current
Later(s, t) == [s EXCEPT !.revisions[t] = [floor |-> Revision(s, t) + 1,
                                           current |-> Revision(s, t) + 1]]
Removed(s, t) == Later(s, t)

\* A mutator that would leave a record nobody can load, as finishTask after its turn
\* was cut short can.
Spoiled(s, t) == [s EXCEPT !.revisions[t] = [floor |-> Revision(s, t) + 1, current |-> 0]]

Changed(s, c) ==
  CASE c.kind = "ensure" -> IF s.revisions[c.tab] = Nothing THEN Later(s, c.tab) ELSE s
    [] c.kind = "navigated" -> Later(s, c.tab)
    [] c.kind = "removed" -> Removed(s, c.tab)
    [] c.kind = "malformed" -> Spoiled(s, c.tab)

--------------------------------

NotLoading == [at |-> "none", raw |-> Nothing, next |-> Nothing, gone |-> FALSE]
NoCall == [at |-> "none", next |-> Nothing]

StoreTypeOK ==
  /\ loading.at \in {"none", "reading", "rewriting", "migrating", "verifying", "removing"}
  /\ call.at \in {"none", "loading", "mutating", "setting", "set"}
  /\ call.at # "none" => queue # <<>>
  /\ \A i \in DOMAIN queue : queue[i].kind \in MutatorKinds
  /\ \A i \in DOMAIN reads : reads[i].at \in {"waiting", "loading", "done", "lost"}
  /\ submitted \in 0 .. MaxMutateCalls /\ DOMAIN written = 1 .. MaxMutateCalls
  /\ cache # Nothing => Loads(cache)

StoreInit ==
  /\ stored \in Raws \cup {Nothing} /\ legacy \in Legacies \cup {Nothing}
  /\ cache = Nothing /\ loading = NotLoading /\ queue = <<>> /\ call = NoCall /\ reads = <<>>
  /\ submitted = 0 /\ stops = 0 /\ storageFailures = 0
  /\ found = [stored |-> stored, legacy |-> legacy]
  /\ answered = [t \in StoredTab |-> 0] /\ written = [i \in 1 .. MaxMutateCalls |-> 0]

ghosts == <<found, answered, written>>
StorageFails == storageFailures < MaxStorageFailures /\ storageFailures' = storageFailures + 1
StorageWorks == UNCHANGED storageFailures

(* loadInitialState *)

\* A load that failed leaves those who wait for it with its error; the next call tries again.
LoadFails ==
  /\ loading' = NotLoading
  /\ reads' = [i \in DOMAIN reads |->
                 IF reads[i].at = "loading" THEN [reads[i] EXCEPT !.at = "lost"] ELSE reads[i]]
  /\ IF call.at = "loading" THEN call' = NoCall /\ queue' = Tail(queue)
                            ELSE UNCHANGED <<call, queue>>

LoadBegins == loading' = IF loading.at = "none" THEN [NotLoading EXCEPT !.at = "reading"]
                             ELSE loading

KeepsLegacy == UNCHANGED legacy

\* Both keys are read at once; what loads unchanged needs no write.
LoadReads ==
  /\ loading.at = "reading"
  /\ LET next == IF stored = Nothing THEN Migrated(legacy) ELSE Parse(stored) IN
     \/ /\ next = Nothing \/ storageFailures < MaxStorageFailures
        /\ IF next = Nothing THEN StorageWorks ELSE StorageFails
        /\ LoadFails /\ UNCHANGED cache
     \/ /\ next # Nothing /\ StorageWorks
        /\ loading' = [at |-> IF stored = Nothing THEN "migrating"
                              ELSE IF next = stored THEN "removing" ELSE "rewriting",
                       raw |-> stored, next |-> next, gone |-> legacy # Nothing]
        /\ cache' = IF next = stored THEN next ELSE cache
        /\ UNCHANGED <<reads, call, queue>>
  /\ KeepsLegacy /\ UNCHANGED <<stored, submitted, stops, ghosts>>

LoadWrites ==
  /\ loading.at \in {"rewriting", "migrating"}
  /\ \/ /\ stored' = loading.next /\ StorageWorks
        /\ IF loading.at = "rewriting"
           THEN cache' = loading.next /\ loading' = [loading EXCEPT !.at = "removing"]
           ELSE loading' = [loading EXCEPT !.at = "verifying"] /\ UNCHANGED cache
        /\ UNCHANGED <<reads, call, queue>>
     \/ /\ StorageFails /\ LoadFails /\ UNCHANGED <<stored, cache>>
  /\ UNCHANGED <<legacy, submitted, stops, ghosts>>

\* The migrated record is read back before the old keys go.
LoadVerifies ==
  /\ loading.at = "verifying"
  /\ \/ /\ Parse(stored) = loading.next /\ StorageWorks
        /\ cache' = loading.next /\ loading' = [loading EXCEPT !.at = "removing"]
        /\ UNCHANGED <<reads, call, queue>>
     \/ /\ Parse(stored) # loading.next /\ StorageWorks /\ LoadFails /\ UNCHANGED cache
     \/ /\ StorageFails /\ LoadFails /\ UNCHANGED cache
  /\ UNCHANGED <<stored, legacy, submitted, stops, ghosts>>

\* removeLegacyState, then everybody who waited gets a copy.
LoadEnds ==
  /\ loading.at = "removing"
  /\ \/ /\ legacy' = IF loading.gone THEN Nothing ELSE legacy
        /\ loading' = NotLoading /\ StorageWorks
        /\ reads' = [i \in DOMAIN reads |->
                       IF reads[i].at = "loading" THEN [reads[i] EXCEPT !.at = "done", !.saw = cache]
                       ELSE reads[i]]
        /\ call' = IF call.at = "loading" THEN [call EXCEPT !.at = "mutating"] ELSE call
        /\ UNCHANGED queue
     \/ /\ loading.gone /\ StorageFails /\ LoadFails /\ UNCHANGED legacy
  /\ UNCHANGED <<stored, cache, submitted, stops, ghosts>>

(* mutateState *)

Submit(kind, t) ==
  /\ submitted < MaxMutateCalls /\ submitted' = submitted + 1
  /\ queue' = Append(queue, [id |-> submitted + 1, kind |-> kind, tab |-> t])
  /\ UNCHANGED <<stored, legacy, cache, loading, call, reads, stops, storageFailures, ghosts>>

CallBegins ==
  /\ queue # <<>> /\ call.at = "none"
  /\ IF cache # Nothing THEN call' = [NoCall EXCEPT !.at = "mutating"] /\ UNCHANGED loading
     ELSE call' = [NoCall EXCEPT !.at = "loading"] /\ LoadBegins
  /\ UNCHANGED <<stored, legacy, cache, queue, reads, submitted, stops, storageFailures, ghosts>>

Verified(s) == Parse(s) = s

\* The mutator runs; a record left as it was is not written, one that would not load
\* again is refused.
Mutates ==
  /\ call.at = "mutating"
  /\ LET c == Head(queue) IN
     IF c.kind # "throws" /\ Changed(cache, c) # cache /\ Verified(Changed(cache, c))
     THEN call' = [at |-> "setting", next |-> Changed(cache, c)] /\ UNCHANGED <<queue, answered>>
     ELSE /\ call' = NoCall /\ queue' = Tail(queue)
          /\ answered' = IF c.kind = "ensure"
                         THEN [answered EXCEPT ![c.tab] = Revision(cache, c.tab)] ELSE answered
  /\ UNCHANGED <<stored, legacy, cache, loading, reads, submitted, stops, storageFailures,
                 found, written>>

SetStoredOrNot ==
  /\ call.at = "setting"
  /\ \/ stored' = call.next /\ StorageWorks
     \/ StorageFails /\ UNCHANGED stored
  /\ call' = [call EXCEPT !.at = "set"]
  /\ UNCHANGED <<legacy, cache, loading, queue, reads, submitted, stops, ghosts>>

SetStored ==
  /\ call.at = "setting"
  /\ \/ stored' = call.next /\ call' = [call EXCEPT !.at = "set"] /\ StorageWorks /\ UNCHANGED queue
     \/ StorageFails /\ call' = NoCall /\ queue' = Tail(queue) /\ UNCHANGED stored
  /\ UNCHANGED <<legacy, cache, loading, reads, submitted, stops, ghosts>>

SetAnswers ==
  /\ call.at = "set"
  /\ cache' = call.next /\ call' = NoCall /\ queue' = Tail(queue)
  /\ LET c == Head(queue) IN
     /\ answered' = [answered EXCEPT ![c.tab] = Revision(call.next, c.tab)]
     /\ written' = [written EXCEPT ![c.id] = Revision(call.next, c.tab)]
  /\ UNCHANGED <<stored, legacy, loading, reads, submitted, stops, storageFailures, found>>

(* readState *)

Read ==
  /\ Len(reads) < MaxReadCalls
  /\ reads' = Append(reads, [at |-> "waiting", after |-> submitted, saw |-> Nothing])
  /\ UNCHANGED <<stored, legacy, cache, loading, queue, call, submitted, stops,
                 storageFailures, ghosts>>

QueueOver(r) == \A i \in DOMAIN queue : queue[i].id > r.after

ReadGoesOn(i) ==
  /\ reads[i].at = "waiting" /\ QueueOver(reads[i])
  /\ IF cache # Nothing
     THEN reads' = [reads EXCEPT ![i].at = "done", ![i].saw = cache] /\ UNCHANGED loading
     ELSE reads' = [reads EXCEPT ![i].at = "loading"] /\ LoadBegins
  /\ UNCHANGED <<stored, legacy, cache, queue, call, submitted, stops, storageFailures, ghosts>>

\* Chrome stops the worker and starts another.
Stop ==
  /\ stops < MaxStops /\ stops' = stops + 1
  /\ cache' = Nothing /\ loading' = NotLoading /\ queue' = <<>> /\ call' = NoCall
  /\ reads' = [i \in DOMAIN reads |->
                 IF reads[i].at = "done" THEN reads[i] ELSE [reads[i] EXCEPT !.at = "lost"]]
  /\ UNCHANGED <<stored, legacy, submitted, storageFailures, ghosts>>

StoreNext ==
  \/ \E kind \in MutatorKinds, t \in StoredTab : Submit(kind, t)
  \/ CallBegins \/ Mutates \/ SetStored \/ SetAnswers
  \/ LoadReads \/ LoadWrites \/ LoadVerifies \/ LoadEnds
  \/ Read \/ \E i \in DOMAIN reads : ReadGoesOn(i)
  \/ Stop

StoreSpec == StoreInit /\ [][StoreNext]_storeVars

--------------------------------
(* Properties *)

\* The tasks of an older build are in the old keys until they can be loaded from the
\* new record, whenever the worker is stopped or a call fails (loadInitialState).
LegacyTasksKept ==
  found.stored = Nothing /\ found.legacy # Nothing =>
    \/ legacy = found.legacy
    \/ stored # Nothing /\ stored.tasks = LegacyTasks(found.legacy)

\* What the store writes it can load, unchanged: a record that was migrated, repaired or
\* changed by a mutator is never the reason the extension cannot start
\* (parseState, mutateState's verification).
WritesLoad ==
  /\ stored # Nothing /\ stored # found.stored => Parse(stored) = stored
  /\ loading.at \in {"migrating", "verifying"} => Parse(loading.next) = loading.next

\* A revision that a caller was told is not forgotten or reached again after a restart:
\* it is in storage (mutateState writes before it answers, RevisionTracker.remove keeps
\* the floor of a closed tab's number).
ToldIsStored ==
  stored # Nothing =>
    \A t \in StoredTab : answered[t] <= Revision(stored, t)

\* Page revisions never fall, so a revision of a closed tab never fits the tab that got
\* its number (RevisionTracker).
RevisionsOnlyRise ==
  [][stored # Nothing /\ stored' # Nothing =>
       \A t \in StoredTab : Revision(stored, t) <= Revision(stored', t)]_storeVars

\* Who reads sees every change asked for before it: revisions written by calls made
\* earlier, their answers still outstanding or not (readState awaits mutationQueue).
ReadsSeeEarlierCalls ==
  \A i \in DOMAIN reads : reads[i].at = "done" =>
    \A c \in 1 .. reads[i].after : written[c] > 0 =>
      \E t \in StoredTab : Revision(reads[i].saw, t) >= written[c]

\* The state record survives the migration, failing writes and dead workers: what is stored
\* loads, what was told is stored, reads see the earlier calls, revisions never fall
\* (StateStore, storage.ts).
StateSurvives ==
  /\ [](StoreTypeOK /\ LegacyTasksKept /\ WritesLoad /\ ToldIsStored /\ ReadsSeeEarlierCalls)
  /\ RevisionsOnlyRise

================================
