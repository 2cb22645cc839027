---- MODULE ChallengeRules ----
(* The pure part of challenge detection (challenge.ts, challenge-catalog.ts): the      *)
(* signatures, which of them gates a page, and how one scan is folded into a task's    *)
(* list of episodes.  Frames, elements and headers are named by the signal that reads  *)
(* them; a page says which signals hold on it and which of those are in plain sight.   *)
EXTENDS Naturals, Sequences, SequencesExt

CONSTANTS Budget,       \* wait_budget_ms of the automatic signatures, in ticks
          EpisodeLife,  \* CHALLENGE_EPISODE_TTL_MS, in ticks
          EpisodeCap    \* CHALLENGE_MAX_EPISODES_PER_TASK

--------------------------------
\* The catalog: enabled signatures in catalog order; disabled ones are never evaluated.

Rule(signal, of, confidence) == [signal |-> signal, of |-> of, confidence |-> confidence]

\* by is the interaction; token says that the signature names a token field.
Signature(id, vendor, kind, by, active, token, rules) ==
  [id |-> id, vendor |-> vendor, kind |-> kind, by |-> by, active |-> active,
   token |-> token, rules |-> rules]

Cloudflare ==
  << Signature("challenge_page", "cloudflare", "interstitial", "automatic", "document", FALSE,
               {Rule("cf_mitigated", "header", 3), Rule("chl_page", "script", 2)}),
     Signature("jsd", "cloudflare", "widget", "automatic", "never", FALSE,
               {Rule("jsd", "script", 1)}),
     Signature("turnstile", "cloudflare", "widget", "automatic", "widget_unsolved", TRUE,
               {Rule("turnstile_frame", "frame", 3), Rule("turnstile", "element", 2)}) >>

Recaptcha ==
  << Signature("checkbox", "recaptcha", "widget", "human", "widget_unsolved", TRUE,
               {Rule("anchor", "frame", 2)}),
     Signature("v3", "recaptcha", "widget", "automatic", "never", FALSE,
               {Rule("badge", "element", 1), Rule("invisible_anchor", "frame", 1)}) >>

EmbeddedPuzzles ==
  << Signature("hcaptcha", "hcaptcha", "widget", "human", "widget_unsolved", TRUE,
               {Rule("hcaptcha_host", "frame", 2)}),
     Signature("enforcement", "arkose", "puzzle", "human", "visible_frame", FALSE,
               {Rule("arkose_host", "frame", 2)}),
     Signature("response_page", "datadome", "interstitial", "human", "visible_frame", FALSE,
               {Rule("captcha_delivery", "frame", 2)}) >>

AwsWaf ==
  << Signature("captcha", "aws_waf", "interstitial", "human", "document", FALSE,
               {Rule("waf_captcha", "header", 3)}),
     Signature("challenge", "aws_waf", "interstitial", "automatic", "document", FALSE,
               {Rule("waf_challenge", "header", 3)}) >>

Generic ==
  << Signature("rate_limit", "generic", "rate_limit", "none", "document", FALSE,
               {Rule("too_many_requests", "status", 3)}),
     Signature("text_captcha", "generic", "puzzle", "human", "visible_element", FALSE,
               {Rule("text_captcha", "element", 1)}) >>

Catalog == Cloudflare \o Recaptcha \o EmbeddedPuzzles \o AwsWaf \o Generic

\* Signals of the response are read by the debugger only (documentResponses).
ResponseSignals ==
  {r.signal : r \in {x \in UNION {Catalog[i].rules : i \in DOMAIN Catalog} :
                       x.of \in {"header", "status"}}}

--------------------------------
\* Detection: facts are [origin, status, signals, visible, filled, probe]

ScopeClass(kind) ==
  IF kind \in {"interstitial", "block", "rate_limit"} THEN "document" ELSE "embedded"

Held(s, facts) == {r \in s.rules : r.signal \in facts.signals}

TokenPresent(s, facts) == s.token /\ s.vendor \in facts.filled

Shown(s, facts, of) == {r \in Held(s, facts) : r.of = of /\ r.signal \in facts.visible}

FrameSurface(s, facts) == Shown(s, facts, "frame") # {}

\* Every matched selector has a match in plain sight.
ElementSurface(s, facts) ==
  LET elements == {r \in Held(s, facts) : r.of = "element"}
  IN elements # {} /\ elements = Shown(s, facts, "element")

Gates(s, facts) ==
  \/ s.active = "document"
  \/ s.active = "visible_frame" /\ FrameSurface(s, facts)
  \/ s.active = "visible_element" /\ ElementSurface(s, facts)
  \/ /\ s.active = "widget_unsolved" /\ ~TokenPresent(s, facts)
     /\ FrameSurface(s, facts) \/ ElementSurface(s, facts)

KindRank(kind) ==
  CASE kind = "block" -> 5 [] kind = "rate_limit" -> 4 [] kind = "interstitial" -> 3
    [] kind = "puzzle" -> 2 [] kind = "widget" -> 1

Confidence(s, facts) ==
  LET levels == {r.confidence : r \in Held(s, facts)}
  IN CHOOSE c \in levels : \A d \in levels : d <= c

\* Signature i is reported rather than j: by kind, by confidence, by catalog order.
Outranks(i, j, facts) ==
  LET k(x) == KindRank(Catalog[x].kind)
      c(x) == Confidence(Catalog[x], facts)
  IN \/ k(i) > k(j)
     \/ k(i) = k(j) /\ c(i) > c(j)
     \/ k(i) = k(j) /\ c(i) = c(j) /\ i <= j

\* primary is a catalog index, 0 for none; solved the vendors seen with a filled token;
\* observable says that the scripting probe could see what was matched.
Detect(facts) ==
  LET matches == {i \in DOMAIN Catalog : Held(Catalog[i], facts) # {}}
      vendorMatched == \E i \in matches : Catalog[i].vendor # "generic"
      candidates == {i \in matches : /\ Gates(Catalog[i], facts)
                                     /\ ~(vendorMatched /\ Catalog[i].vendor = "generic")}
      best == CHOOSE i \in candidates : \A j \in candidates : Outranks(i, j, facts)
  IN [primary |-> IF candidates = {} THEN 0 ELSE best,
      observable |-> /\ candidates # {}
                     /\ \E r \in Held(Catalog[best], facts) : r.of \notin {"header", "status"},
      solved |-> {Catalog[i].vendor : i \in {x \in matches : TokenPresent(Catalog[x], facts)}}]

--------------------------------
\* Episodes

\* refreshNext: what the agent is told to do now.
NextStep(e, now) ==
  IF e.state # "active" THEN "none"
  ELSE IF e.kind = "block" THEN "stop"
  ELSE IF e.kind = "rate_limit" THEN "retry_later"
  ELSE IF e.by = "automatic" /\ now - e.first < Budget THEN "wait" ELSE "handoff"

Refreshed(e, now) == [e EXCEPT !.next = NextStep(e, now)]

\* ctx is the scan: its page's origin, status and document, its probe, revision and time.
Detected(e, detection, ctx) ==
  LET s == Catalog[detection.primary]
  IN Refreshed([e EXCEPT !.revision = ctx.revision, !.seen = ctx.now, !.sign = detection.primary,
                         !.origin = ctx.origin, !.vendor = s.vendor, !.kind = s.kind, !.by = s.by,
                         !.state = "active", !.class = ScopeClass(s.kind),
                         !.observable = detection.observable, !.status = ctx.status,
                         !.document = ctx.document], ctx.now)

Created(detection, ctx) ==
  Detected([id |-> ctx.id, first |-> ctx.now, notice |-> FALSE, revision |-> 0, seen |-> 0,
            sign |-> 0, origin |-> "", vendor |-> "", kind |-> "", by |-> "", state |-> "active",
            class |-> "", observable |-> TRUE, status |-> 0, next |-> "", document |-> 0],
           detection, ctx)

\* settle: an end that is reported is stamped with the scan that saw it.
Silently(e, ctx) == Refreshed([e EXCEPT !.state = "superseded"], ctx.now)
Settled(e, state, ctx) ==
  Refreshed([e EXCEPT !.state = state, !.revision = ctx.revision, !.seen = ctx.now,
                      !.document = ctx.document], ctx.now)

Active(e) == e.state = "active"
Aged(e, ctx) == IF Active(e) /\ ctx.now - e.seen > EpisodeLife THEN Silently(e, ctx) ELSE e

\* Nothing but headers or status showed this episode, and this scan cannot see those of
\* what is, as far as the page's status tells, the same response.  Status 0: not reported.
ProvesNothing(e, ctx) ==
  /\ ctx.probe = "scripting" /\ ~e.observable
  /\ ctx.origin = e.origin /\ (ctx.status = e.status \/ 0 \in {ctx.status, e.status})

\* The episode the detection continues: the first of its class, vendor and origin.
Continues(list, detection, ctx) ==
  LET s == Catalog[detection.primary]
      same == {i \in DOMAIN list : /\ Active(list[i]) /\ list[i].class = ScopeClass(s.kind)
                                   /\ list[i].vendor = s.vendor /\ list[i].origin = ctx.origin}
  IN IF same = {} THEN 0 ELSE CHOOSE i \in same : \A j \in same : i <= j

\* The end of a document-scope or embedded episode of a page that no longer shows it.
DocumentEnd(e, ctx) ==
  IF ProvesNothing(e, ctx) THEN Refreshed(e, ctx.now)
  ELSE Settled(e, IF ctx.origin = e.origin THEN "cleared" ELSE "superseded", ctx)
EmbeddedEnd(e, detection, ctx) ==
  Settled(e, IF ctx.origin = e.origin /\ e.vendor \in detection.solved THEN "cleared"
             ELSE "superseded", ctx)

\* What the scan makes of the episode at i of the (aged) list.
Folded(list, i, detection, ctx) ==
  LET e == list[i]
      class == IF detection.primary = 0 THEN "none" ELSE ScopeClass(Catalog[detection.primary].kind)
  IN IF ~Active(e) THEN e ELSE
     CASE e.class = class -> IF i = Continues(list, detection, ctx) THEN Detected(e, detection, ctx)
                             ELSE Silently(e, ctx)
       [] e.class = "document" /\ class # "document" -> DocumentEnd(e, ctx)
       [] e.class = "embedded" /\ class = "document" -> Silently(e, ctx)
       [] e.class = "embedded" /\ class = "none" -> EmbeddedEnd(e, detection, ctx)

\* enforceCap: ended episodes go first, the oldest of each sort first.
Earlier(list, i, j) == list[i].seen < list[j].seen \/ (list[i].seen = list[j].seen /\ i < j)
GoesBefore(list, i, j) ==
  IF Active(list[i]) # Active(list[j]) THEN Active(list[j]) ELSE Earlier(list, i, j)
Capped(list) ==
  LET excess == Len(list) - EpisodeCap
      before(i) == {j \in DOMAIN list : j # i /\ GoesBefore(list, j, i)}
      kept == {i \in DOMAIN list : excess <= 0 \/ Cardinality(before(i)) >= excess}
  IN [k \in 1..Cardinality(kept) |->
        list[CHOOSE i \in kept : Cardinality({j \in kept : j < i}) = k - 1]]

\* The episode whose event the result carries: the one detected, else the first that the
\* scan ended (or keeps although it does not see it), document scope first.
Reported(aged, folded, detection, ctx) ==
  LET current == IF detection.primary = 0 THEN 0 ELSE Continues(aged, detection, ctx)
      ended(class) == {i \in DOMAIN aged : Active(aged[i]) /\ aged[i].class = class
                                          /\ (folded[i].state = "superseded" =>
                                                folded[i] # Silently(aged[i], ctx))}
      first(S) == folded[CHOOSE i \in S : \A j \in S : i <= j]
  IN IF current # 0 THEN <<folded[current]>>
     ELSE IF detection.primary # 0 THEN <<Created(detection, ctx)>>
     ELSE IF ended("document") # {} THEN <<first(ended("document"))>>
     ELSE IF ended("embedded") # {} THEN <<first(ended("embedded"))>> ELSE <<>>

Advance(stored, detection, ctx) ==
  LET aged == [i \in DOMAIN stored |-> Aged(stored[i], ctx)]
      folded == [i \in DOMAIN aged |-> Folded(aged, i, detection, ctx)]
      isNew == detection.primary # 0 /\ Continues(aged, detection, ctx) = 0
      list == IF isNew THEN Append(folded, Created(detection, ctx)) ELSE folded
  IN [episodes |-> Capped(list), event |-> Reported(aged, folded, detection, ctx)]

--------------------------------
\* Lookups

FindEpisode(list, id) == SelectSeq(list, LAMBDA e : e.id = id)

\* The episode that governs input on the tab: document scope before embedded.
ActiveEpisode(list) ==
  LET active == SelectSeq(list, Active)
      document == SelectSeq(active, LAMBDA e : e.class = "document")
  IN IF document # <<>> THEN <<Head(document)>> ELSE IF active # <<>> THEN <<Head(active)>> ELSE <<>>
================================
