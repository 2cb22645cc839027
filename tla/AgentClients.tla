---- MODULE AgentClients ----
(* An agent's end of the host's socket: the client of the TypeScript SDK (requests, their      *)
(* timers, the resume capability that the first answer brings) and the adapter that keeps one   *)
(* client for its harness, either the MCP server or the OMP and Pi extension, which also        *)
(* finishes the task when the agent is done or the session changes.  Of the host there is what  *)
(* a connection sees: requests wait while a capability is to be confirmed (server.rs).          *)
EXTENDS Naturals, Sequences, FiniteSets

CONSTANTS Invocation,        \* tool calls, named by the harness's invocation id
          Listed,            \* those whose method is in the adapter's own MUTATIONS
          KeyCacheEntries,   \* IDEMPOTENCY_KEY_CACHE_MAX_ENTRIES
          MaxClients,        \* bound: connections
          MaxTries,          \* bound: tries of all invocations together
          MaxEnds,           \* bound: ends of the agent's turn and changes of its session
          MaxBreaks          \* bound: connections that break or fail, answers the host should
                             \* not give, and writes of the capability store that fail

ASSUME AgentAssumption ==
  /\ Listed \subseteq Invocation /\ KeyCacheEntries \in Nat \ {0} /\ MaxClients \in Nat \ {0}
  /\ MaxTries \in Nat /\ MaxEnds \in Nat /\ MaxBreaks \in Nat

VARIABLES adapter,        \* what McpServer or the extension keeps
          link,           \* each AgentTabClient and its socket
          call,           \* each promise the harness or the adapter waits for
          host,           \* the host's end of each connection
          stored,         \* the capability store of each session: a task, or 0
          keys,           \* InvocationIdempotencyKeys, oldest first
          alive,          \* the tasks that are open
          ran,            \* history: <<task, invocation, key>> of each mutation that ran
          secured,          \* history: tasks whose capability was stored
          evicted,        \* history: invocations whose key was dropped from the cache
          breaks, tries, ends

agentVars == <<adapter, link, call, host, stored, keys, alive, ran, secured, evicted, breaks,
               tries, ends>>
hostSide == <<host, alive, ran>>
cache == <<keys, evicted>>
bounds == <<breaks, tries, ends>>
stores == <<stored, secured>>

Clients == 1..MaxClients
Sessions == 1..MaxEnds + 1
Finisher == {"orphan", "switch"}     \* finishCurrentTask("auto", [], true)
Caller == Invocation \cup Finisher

NoCall == [phase |-> "idle", kind |-> "act", link |-> 0, attempt |-> 0, key |-> 0,
         answer |-> "none", outcome |-> "none", session |-> 0]
FreeLink == [state |-> "free", session |-> 0, loaded |-> 0, held |-> FALSE, confirm |-> "no"]
FreeHost == [up |-> FALSE, task |-> 0, stage |-> "none", cancelled |-> FALSE, queue |-> {}]

\* A call's phases: it awaits the connection, its answer, the store's write of the capability
\* that came with it, the host's word on that, or the clearing of the store; or it is one that
\* nothing settles any more.
AgentTypeOK ==
  /\ adapter \in [kind : {"mcp", "omp"}, client : 0..MaxClients, connecting : 0..MaxClients,
                  session : Sessions, scope : 0..MaxEnds + 1, closed : BOOLEAN,
                  orphan : BOOLEAN]
  /\ link \in [Clients -> [state : {"free", "dialing", "open", "closed"},
                           session : 0..MaxEnds + 1, loaded : 0..MaxClients, held : BOOLEAN,
                           confirm : {"no", "asked", "answered"}]]
  /\ \A c \in Caller : call[c].phase \in {"idle", "connecting", "sent", "saving",
                                          "confirming", "clearing", "stranded", "done"}
  /\ stored \in [Sessions -> 0..MaxClients] /\ alive \subseteq Clients

AgentInit ==
  /\ adapter \in [kind : {"mcp", "omp"}, client : {0}, connecting : {0}, session : {1},
                  scope : {0}, closed : {FALSE}, orphan : {FALSE}]
  /\ link = [l \in Clients |-> FreeLink] /\ host = [l \in Clients |-> FreeHost]
  /\ call = [c \in Caller |-> NoCall]
  /\ stored = [s \in Sessions |-> 0] /\ keys = <<>>
  /\ alive = {} /\ ran = {} /\ secured = {} /\ evicted = {}
  /\ breaks = 0 /\ tries = 0 /\ ends = 0

\* The continuations of a settled promise run before any other event is taken.
Resuming == \E c \in Caller :
  call[c].phase = "connecting" /\ link[call[c].link].state # "dialing"

CallEnds(c, r, outcome) ==
  IF c \in Finisher THEN NoCall
  ELSE [r EXCEPT !.phase = "done", !.outcome = outcome, !.answer = "none", !.key = 0,
                 !.session = 0]

Awaiting(l) == {c \in Caller : call[c].link = l /\ call[c].phase \in {"sent", "confirming"}}

\* #rejectPending and #rejectCapabilityConfirmation: the latter gives the plain cause.
Rejected(cs, S, outcome) ==
  [c \in Caller |-> IF c \in S
     THEN CallEnds(c, cs[c], IF cs[c].phase = "sent" THEN outcome ELSE "plain") ELSE cs[c]]

\* What the adapter does when the calls of S fail and their client l is closed: it lets go of
\* the client; a session switch is over, and what it was to reset stays.
LetGo(a, S, l) ==
  [a EXCEPT !.client = IF @ = l /\ S # {} THEN 0 ELSE @,
            !.session = IF "switch" \in S THEN @ + 1 ELSE @]

\* #failTransport and close: the client l is closed, and all it owes an answer fail.
Down(l, me, cs, outcome, a) ==
  LET S == IF link[l].state = "open" THEN Awaiting(l) \ me ELSE {} IN
  /\ link' = [link EXCEPT ![l].state = "closed", ![l].confirm = "no"]
  /\ call' = Rejected(cs, S, outcome)
  /\ adapter' = LetGo(a, S, l)

\* finishCurrentTask returned: the switch has reset defaultConnection.
Finished(a, f) ==
  IF f # "switch" THEN a ELSE [a EXCEPT !.session = @ + 1, !.scope = 0]

--------------------------------
(* Requests *)

KeysOf(c) == {i \in 1..Len(keys) : keys[i][1] = c}

\* InvocationIdempotencyKeys.for: the key made for the invocation's first try; a method the
\* adapter does not list gets one of the SDK's own, new with every request.
InvocationKey(c, r) ==
  IF r.kind # "act" THEN 0
  ELSE IF c \in Listed /\ KeysOf(c) # {} THEN keys[CHOOSE i \in KeysOf(c) : TRUE][2]
  ELSE r.attempt

\* A key that is new takes the place of the oldest when the cache is full.
Remembered(c, r) ==
  LET full == Len(keys) >= KeyCacheEntries IN
  IF r.kind # "act" \/ c \notin Listed \/ KeysOf(c) # {} THEN UNCHANGED cache
  ELSE /\ keys' = Append(IF full THEN Tail(keys) ELSE keys, <<c, r.attempt>>)
       /\ evicted' = IF full THEN evicted \cup {keys[1][1]} ELSE evicted

\* AgentTabClient.request on an open client: refused while a capability is unconfirmed;
\* otherwise the frame is written and the request waits for its answer or its timer.
Requests(c, r, l, a) ==
  IF link[l].held
  THEN IF c \in Finisher
       THEN /\ Down(l, {c}, [call EXCEPT ![c] = NoCall], "plain",
                    LetGo(a, {c}, l))
            /\ UNCHANGED <<host, cache>>
       ELSE /\ call' = [call EXCEPT ![c] = CallEnds(c, [r EXCEPT !.link = l], "plain")]
            /\ adapter' = a /\ UNCHANGED <<link, host, cache>>
  ELSE LET key == InvocationKey(c, r) IN
       /\ call' = [call EXCEPT ![c] = [r EXCEPT !.phase = "sent", !.link = l, !.key = key]]
       /\ host' = [host EXCEPT ![l].queue =
            @ \cup {[call |-> c, attempt |-> r.attempt, kind |-> r.kind, key |-> key]}]
       /\ adapter' = a /\ Remembered(c, r) /\ UNCHANGED link

Usable(l) == l # 0 /\ link[l].state = "open"
FreeLinks == {l \in Clients : link[l].state = "free"}

\* connectClient: the store's capability is read and offered.
Dials(c, r, a) ==
  LET l == CHOOSE l \in FreeLinks : \A k \in FreeLinks : l <= k
      scope == IF a.scope = 0 THEN a.session ELSE a.scope IN
  /\ FreeLinks # {}
  /\ link' = [link EXCEPT ![l] = [FreeLink EXCEPT !.state = "dialing", !.session = scope,
                                                  !.loaded = stored[scope]]]
  /\ adapter' = [a EXCEPT !.scope = scope, !.connecting = l]
  /\ call' = [call EXCEPT ![c] = [r EXCEPT !.phase = "connecting", !.link = l]]
  /\ UNCHANGED <<host, cache>>

\* Mutant: a caller that finds a connection being made makes another.
GetClientTwice(c, r, a) ==
  IF a.closed
  THEN /\ call' = [call EXCEPT ![c] = CallEnds(c, r, "plain")] /\ adapter' = a
       /\ UNCHANGED <<link, host, cache>>
  ELSE IF Usable(a.client) THEN Requests(c, r, a.client, a) ELSE Dials(c, r, a)

\* getClient: the client that is open, the one being connected, or a new one.
GetClient(c, r, a) ==
  IF a.closed
  THEN /\ call' = [call EXCEPT ![c] = CallEnds(c, r, "plain")] /\ adapter' = a
       /\ UNCHANGED <<link, host, cache>>
  ELSE IF Usable(a.client) THEN Requests(c, r, a.client, a)
  ELSE IF a.connecting # 0
  THEN /\ call' = [call EXCEPT ![c] = [r EXCEPT !.phase = "connecting",
                                                !.link = a.connecting]]
       /\ adapter' = a /\ UNCHANGED <<link, host, cache>>
  ELSE Dials(c, r, a)

\* The harness calls a tool, or calls it again with the same invocation id after it failed.
Invoke(c, kind) ==
  /\ call["switch"].phase = "idle" /\ ~Resuming
  /\ tries < MaxTries /\ tries' = tries + 1
  /\ \/ call[c].phase = "idle"
     \/ call[c].phase = "done" /\ call[c].outcome # "ok" /\ call[c].kind = kind
  /\ GetClient(c, [NoCall EXCEPT !.kind = kind, !.attempt = call[c].attempt + 1,
                               !.session = adapter.session],
               [adapter EXCEPT !.orphan = FALSE])
  /\ UNCHANGED <<stores, alive, ran, breaks, ends>>

--------------------------------
(* Connecting *)

\* AgentTabClient.connect succeeds: the stored task is resumed with a capability that is
\* stored and confirmed, or, where the host says it is closed, forgotten.
Dialed(l) ==
  LET resumed == link[l].loaded \in alive IN
  /\ link[l].state = "dialing" /\ ~Resuming
  /\ link' = [link EXCEPT ![l].state = "open"]
  /\ host' = [host EXCEPT ![l].up = TRUE, ![l].task = IF resumed THEN link[l].loaded ELSE 0,
                          ![l].stage = IF resumed THEN "done" ELSE "none"]
  /\ stored' = IF resumed \/ link[l].loaded = 0 THEN stored
               ELSE [stored EXCEPT ![link[l].session] = 0]
  /\ UNCHANGED <<adapter, call, secured, cache, alive, ran, bounds>>

\* It fails, and so does all that awaited it.
DialFails(l) ==
  LET S == {c \in Caller : call[c].phase = "connecting" /\ call[c].link = l} IN
  /\ link[l].state = "dialing" /\ breaks < MaxBreaks /\ ~Resuming
  /\ breaks' = breaks + 1
  /\ link' = [link EXCEPT ![l].state = "closed"]
  /\ call' = Rejected(call, S, "plain")
  /\ adapter' = [LetGo(adapter, S, l) EXCEPT !.connecting = 0]
  /\ UNCHANGED <<hostSide, stores, cache, tries, ends>>

\* A caller goes on with the connection it awaited.
Resumes(c) ==
  LET l == call[c].link
      taken == [adapter EXCEPT !.client = IF c \in Invocation THEN l ELSE @,
                               !.connecting = IF c \in Invocation THEN 0 ELSE @] IN
  /\ call[c].phase = "connecting" /\ link[l].state # "dialing"
  /\ IF adapter.closed \/ link[l].state = "closed"
     THEN /\ link' = [link EXCEPT ![l].state = "closed"]
          /\ call' = [call EXCEPT ![c] = CallEnds(c, call[c], "plain")]
          /\ adapter' = LetGo([adapter EXCEPT !.connecting = 0],
                              IF c \in Finisher THEN {c} ELSE {}, l)
          /\ UNCHANGED <<host, cache>>
     ELSE Requests(c, call[c], l, taken)
  /\ UNCHANGED <<stores, alive, ran, bounds>>

--------------------------------
(* Answers *)

\* An answer settles its request; one that brings a capability settles nothing before the
\* capability is stored and confirmed.
Answered(c) ==
  LET r == call[c] IN
  /\ r.phase = "sent" /\ r.answer \in {"ok", "no", "cap", "finished"} /\ ~Resuming
  /\ c \in Invocation
  /\ call' = [call EXCEPT ![c] =
       CASE r.answer = "cap" -> [r EXCEPT !.phase = "saving", !.answer = "none"]
         [] r.answer = "finished" -> [r EXCEPT !.phase = "clearing", !.answer = "none"]
         [] r.answer = "ok" -> CallEnds(c, r, "ok")
         [] r.answer = "no" -> CallEnds(c, r, "failed")]
  /\ link' = [link EXCEPT ![r.link].held = @ \/ r.answer = "cap"]
  /\ UNCHANGED <<adapter, hostSide, stores, cache, bounds>>

\* An answer brings a second capability before the first is confirmed: #handleResponse throws
\* when it has taken the call off the pending ones and cleared its timer, so that it is not
\* among those that #failTransport fails.
SecondCapability(c) ==
  LET l == call[c].link IN
  /\ c \in Invocation /\ call[c].phase = "sent" /\ call[c].kind = "act" /\ ~Resuming
  /\ Usable(l) /\ link[l].held /\ breaks < MaxBreaks
  /\ breaks' = breaks + 1
  /\ Down(l, {c}, [call EXCEPT ![c].phase = "stranded", ![c].answer = "none"], "unknown", adapter)
  /\ UNCHANGED <<hostSide, stores, cache, tries, ends>>

\* The same for finishCurrentTask with closeConnection: finished or not, the client is closed.
FinisherAnswered(f) ==
  LET r == call[f] IN
  /\ f \in Finisher /\ r.phase = "sent" /\ r.answer # "none" /\ ~Resuming
  /\ IF r.answer = "finished"
     THEN /\ call' = [call EXCEPT ![f].phase = "clearing", ![f].answer = "none"]
          /\ UNCHANGED <<adapter, link>>
     ELSE Down(r.link, {f}, [call EXCEPT ![f] = NoCall], "plain",
               LET a == [adapter EXCEPT !.client = IF @ = r.link THEN 0 ELSE @] IN
               IF r.answer = "ok" THEN Finished(a, f) ELSE LetGo(a, {f}, r.link))
  /\ UNCHANGED <<hostSide, stores, cache, bounds>>

\* The capability is on disk: confirmResumeCapability, which a closed client refuses.
CapabilitySaved(c) ==
  LET l == call[c].link IN
  /\ call[c].phase = "saving" /\ ~Resuming
  /\ stored' = [stored EXCEPT ![link[l].session] = host[l].task]
  /\ secured' = secured \cup {host[l].task}
  /\ IF link[l].state = "open"
     THEN /\ link' = [link EXCEPT ![l].confirm = "asked"]
          /\ call' = [call EXCEPT ![c].phase = "confirming"]
          /\ UNCHANGED adapter
     ELSE /\ call' = [call EXCEPT ![c] = CallEnds(c, call[c], "plain")]
          /\ adapter' = LetGo(adapter, {c}, l)
          /\ UNCHANGED link
  /\ UNCHANGED <<hostSide, cache, bounds>>

\* capability_persistence_failed: the client goes on holding what it could not store.
SaveFails(c) ==
  /\ call[c].phase = "saving" /\ breaks < MaxBreaks /\ ~Resuming
  /\ breaks' = breaks + 1
  /\ call' = [call EXCEPT ![c] = CallEnds(c, call[c], "failed")]
  /\ adapter' = IF Usable(call[c].link) THEN adapter
                ELSE LetGo(adapter, {c}, call[c].link)
  /\ UNCHANGED <<link, hostSide, stores, cache, tries, ends>>

Confirmed(l) ==
  LET S == {c \in Invocation : call[c].phase = "confirming" /\ call[c].link = l} IN
  /\ Usable(l) /\ link[l].confirm = "answered" /\ ~Resuming
  /\ link' = [link EXCEPT ![l].confirm = "no", ![l].held = FALSE]
  /\ call' = [c \in Caller |-> IF c \in S THEN CallEnds(c, call[c], "ok") ELSE call[c]]
  /\ UNCHANGED <<adapter, hostSide, stores, cache, bounds>>

\* finishTask after an answer that says finished: the store is cleared, the client closed.
Cleared(c) ==
  LET l == call[c].link
      a == [adapter EXCEPT !.client = IF adapter.kind = "omp" /\ @ = l THEN 0 ELSE @] IN
  /\ call[c].phase = "clearing" /\ ~Resuming
  /\ stored' = [stored EXCEPT ![link[l].session] = 0]
  /\ Down(l, {c}, [call EXCEPT ![c] = CallEnds(c, call[c], "ok")], "plain", Finished(a, c))
  /\ UNCHANGED <<hostSide, secured, cache, bounds>>

ClearFails(c) ==
  LET l == call[c].link IN
  /\ call[c].phase = "clearing" /\ breaks < MaxBreaks /\ ~Resuming
  /\ breaks' = breaks + 1
  /\ IF c \in Finisher
     THEN Down(l, {c}, [call EXCEPT ![c] = NoCall], "plain", LetGo(adapter, {c}, l))
     ELSE /\ call' = [call EXCEPT ![c] = CallEnds(c, call[c], "plain")]
          /\ adapter' = IF Usable(l) THEN adapter ELSE LetGo(adapter, {c}, l)
          /\ UNCHANGED link
  /\ UNCHANGED <<hostSide, stores, cache, tries, ends>>

--------------------------------
(* Timers and breaks *)

\* A request's timer: the client stays open, the late answer will find nothing pending.
TimesOut(c) ==
  LET l == call[c].link IN
  /\ call[c].phase = "sent" /\ ~Resuming
  /\ IF c \in Finisher
     THEN Down(l, {c}, [call EXCEPT ![c] = NoCall], "plain", LetGo(adapter, {c}, l))
     ELSE /\ call' = [call EXCEPT ![c] = CallEnds(c, call[c], "unknown")]
          /\ UNCHANGED <<adapter, link>>
  /\ UNCHANGED <<hostSide, stores, cache, bounds>>

ConfirmTimesOut(l) ==
  /\ Usable(l) /\ link[l].confirm # "no" /\ ~Resuming
  /\ Down(l, {}, call, "unknown", adapter)
  /\ UNCHANGED <<hostSide, stores, cache, bounds>>

\* The socket closes, errs or brings what is no answer.
Cut(l) ==
  /\ Usable(l) /\ breaks < MaxBreaks /\ ~Resuming
  /\ breaks' = breaks + 1
  /\ Down(l, {}, call, "unknown", adapter)
  /\ UNCHANGED <<hostSide, stores, cache, tries, ends>>

--------------------------------
(* The adapter's own ends *)

\* McpServer.close
ServerCloses ==
  /\ adapter.kind = "mcp" /\ ~adapter.closed /\ ~Resuming
  /\ IF Usable(adapter.client)
     THEN Down(adapter.client, {}, call, "plain", [adapter EXCEPT !.closed = TRUE])
     ELSE adapter' = [adapter EXCEPT !.closed = TRUE] /\ UNCHANGED <<link, call>>
  /\ UNCHANGED <<hostSide, stores, cache, bounds>>

\* armOrphanCleanup, at the end of the agent's turn
AgentEnds ==
  /\ adapter.kind = "omp" /\ ends < MaxEnds /\ ~Resuming
  /\ ends' = ends + 1
  /\ adapter' = [adapter EXCEPT !.orphan = Usable(adapter.client)]
  /\ UNCHANGED <<link, call, hostSide, stores, cache, breaks, tries>>

\* finishCurrentTask: the kept client, even a closed one, comes before the one being connected.
FinishCurrentTask(f, a) ==
  LET r == [NoCall EXCEPT !.kind = "finish", !.session = a.session] IN
  IF a.client # 0
  THEN IF Usable(a.client) THEN Requests(f, r, a.client, a)
       ELSE adapter' = Finished(a, f) /\ UNCHANGED <<link, call, host, cache>>
  ELSE IF a.connecting # 0
  THEN /\ call' = [call EXCEPT ![f] = [r EXCEPT !.phase = "connecting",
                                                !.link = a.connecting]]
       /\ adapter' = a /\ UNCHANGED <<link, host, cache>>
  ELSE adapter' = Finished(a, f) /\ UNCHANGED <<link, call, host, cache>>

OrphanFires ==
  /\ adapter.orphan /\ call["orphan"].phase = "idle" /\ ~Resuming
  /\ FinishCurrentTask("orphan", [adapter EXCEPT !.orphan = FALSE])
  /\ UNCHANGED <<stores, alive, ran, bounds>>

\* session_before_switch, which the harness awaits
SessionSwitches ==
  /\ adapter.kind = "omp" /\ ends < MaxEnds /\ ~Resuming
  /\ ends' = ends + 1 /\ call["switch"].phase = "idle"
  /\ FinishCurrentTask("switch", [adapter EXCEPT !.orphan = FALSE])
  /\ UNCHANGED <<stores, alive, ran, breaks, tries>>

--------------------------------
(* The host *)

Replies(r, l, answer) ==
  LET c == r.call IN
  call' = IF call[c].phase = "sent" /\ call[c].link = l /\ call[c].attempt = r.attempt
             /\ Usable(l)
          THEN [call EXCEPT ![c].answer = answer] ELSE call

\* The first mutation makes the connection's task and its answer brings the capability;
\* requests behind it wait until that is confirmed.
HostActs(l, r) ==
  LET h == host[l]
      task == IF h.task = 0 THEN l ELSE h.task IN
  /\ h.up /\ h.stage # "wanted" /\ r \in h.queue /\ r.kind = "act" /\ ~Resuming
  /\ IF h.cancelled
     THEN /\ Replies(r, l, "no")
          /\ host' = [host EXCEPT ![l].queue = @ \ {r}] /\ UNCHANGED <<alive, ran>>
     ELSE /\ Replies(r, l, IF h.stage = "none" THEN "cap" ELSE "ok")
          /\ host' = [host EXCEPT ![l].queue = @ \ {r}, ![l].task = task,
                                  ![l].stage = IF @ = "none" THEN "wanted" ELSE @]
          /\ alive' = IF h.task = 0 THEN alive \cup {l} ELSE alive
          /\ ran' = ran \cup {<<task, r.call, r.key>>}
  /\ UNCHANGED <<adapter, link, stores, cache, bounds>>

\* agenttab.finish: done, put off for the user, or failed in the extension.
HostFinishes(l, r) ==
  LET h == host[l] IN
  /\ h.up /\ h.stage # "wanted" /\ r \in h.queue /\ r.kind = "finish" /\ ~Resuming
  /\ \E answer \in IF h.task = 0 THEN {"ok"} ELSE {"finished", "ok", "no"} :
       /\ Replies(r, l, answer)
       /\ host' = [host EXCEPT ![l].queue = @ \ {r},
                               ![l].cancelled = @ \/ answer = "finished"]
       /\ alive' = IF answer = "finished" THEN alive \ {h.task} ELSE alive
  /\ UNCHANGED <<adapter, link, stores, cache, ran, bounds>>

HostConfirms(l) ==
  /\ host[l].up /\ Usable(l) /\ link[l].confirm = "asked" /\ ~Resuming
  /\ host' = [host EXCEPT ![l].stage = "done"]
  /\ link' = [link EXCEPT ![l].confirm = "answered"]
  /\ UNCHANGED <<adapter, call, alive, ran, stores, cache, bounds>>

\* It finds the socket closed: a task whose capability was never confirmed is closed with it.
HostLeaves(l) ==
  /\ host[l].up /\ link[l].state = "closed" /\ ~Resuming
  /\ host' = [host EXCEPT ![l].up = FALSE, ![l].queue = {}]
  /\ alive' = IF host[l].stage = "wanted" THEN alive \ {host[l].task} ELSE alive
  /\ UNCHANGED <<adapter, link, call, ran, stores, cache, bounds>>

--------------------------------
AgentNext ==
  \/ \E c \in Invocation : Invoke(c, "act") \/ Invoke(c, "finish") \/ Answered(c)
                         \/ SecondCapability(c)
  \/ \E c \in Caller : Resumes(c) \/ TimesOut(c)
  \/ \E c \in Invocation : CapabilitySaved(c) \/ SaveFails(c)
  \/ \E c \in Caller : Cleared(c) \/ ClearFails(c)
  \/ \E f \in Finisher : FinisherAnswered(f)
  \/ \E l \in Clients :
       \/ Dialed(l) \/ DialFails(l) \/ Confirmed(l) \/ ConfirmTimesOut(l) \/ Cut(l)
       \/ HostConfirms(l) \/ HostLeaves(l)
       \/ \E r \in host[l].queue : HostActs(l, r) \/ HostFinishes(l, r)
  \/ ServerCloses \/ AgentEnds \/ OrphanFires \/ SessionSwitches

\* What the client and the adapter owe by themselves: timers fire, connecting ends by its own
\* deadline, file operations and continuations end; nothing is asked of the host.
Advances ==
  \/ \E c \in Caller : Resumes(c) \/ TimesOut(c) \/ Cleared(c)
  \/ \E c \in Invocation : CapabilitySaved(c)
  \/ \E l \in Clients : Dialed(l) \/ ConfirmTimesOut(l)
AgentFairness == WF_agentVars(Advances)

AgentSpec == AgentInit /\ [][AgentNext]_agentVars /\ AgentFairness

--------------------------------
(* Properties *)

\* Every client that is open is the one the adapter keeps: no connection is left behind that
\* nobody uses and that keeps its task attached; a closed server keeps none.
NoClientLeaks ==
  ~Resuming => \A l \in Clients : Usable(l) => l = adapter.client /\ ~adapter.closed

\* However often an invocation is tried again, and over however many connections, it runs once
\* in a task, as long as the adapter still knows its key.
RunsOncePerTask ==
  \A c \in Listed \ evicted, t \in Clients :
    Cardinality({e \in ran : e[1] = t /\ e[2] = c}) <= 1

\* A tool whose call has succeeded left a task that can be resumed: the capability was stored
\* and confirmed before the result was returned.
ResultMeansResumable ==
  \A c \in Invocation : call[c].phase = "done" /\ call[c].outcome = "ok" /\ call[c].kind = "act" =>
    LET h == host[call[c].link] IN h.stage = "done" /\ h.task \in secured

Owed == {c \in Caller : call[c].phase \notin {"idle", "stranded", "done"}}

\* Every promise that a tool call, a finish or a session switch waits for settles, whatever
\* the host leaves undone, but for the call whose answer brings a second capability.
CallsSettle == Owed # {} ~> Owed = {}

\* What the change log says of the first result: the calls after it remain usable.  An open
\* client for whose confirmation the host waits has somebody who will send it.
SubsequentCallsUsable ==
  \A l \in Clients : Usable(l) /\ host[l].stage = "wanted" =>
    \/ link[l].confirm # "no"
    \/ \E c \in Invocation : call[c].link = l /\ (call[c].phase = "saving" \/ call[c].answer = "cap")

\* What the documents say of a transport failure: its error names the key.  A call that fails
\* with neither an outcome nor a key did not run.
PlainMeansNotRun ==
  \A c \in Invocation : call[c].phase = "done" /\ call[c].outcome = "plain" =>
    \A e \in ran : e[2] # c

\* What the documents say of sessions: each is its own scope.
CallsStayInTheirSession ==
  \A c \in Invocation : call[c].phase = "sent" /\ adapter.kind = "omp" =>
    link[call[c].link].session = call[c].session

\* Stronger than the documents, whose keys are per task: an invocation runs once, whatever
\* tasks its tries had.
RetryRunsOnce == \A c \in Invocation : Cardinality({e \in ran : e[2] = c}) <= 1

\* Clients, keys and capabilities are accounted for.
CallsAccounted == AgentTypeOK /\ NoClientLeaks /\ RunsOncePerTask /\ ResultMeansResumable
================================
