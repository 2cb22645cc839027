---- MODULE MCRecords ----
(* Instances of the records the extension and the installer keep for TLC, one part at a *)
(* time, as in MCServices.                                                              *)
EXTENDS Downloads, TargetRefs, Challenges, StateStore, InstallTransaction

VARIABLE part

records == <<part, downloadVars, refVars, challengeVars, storeVars, vars>>

\* An idle part begins in one of its initial states.
RecordsInit ==
  /\ part \in {"downloads", "refs", "challenges", "store", "installer"}
  /\ DownloadInit /\ RefsInit /\ ChallengeInit /\ StoreInit /\ InstallInit
  /\ part # "challenges" => ~debugging.on /\ shown.page = CHOOSE p \in Pages : TRUE
  /\ part # "store" => stored = Nothing /\ legacy = Nothing
  /\ part # "installer" => registry = [k \in 1 .. Keys |-> "none"]

DownloadRuns == part = "downloads" /\ DownloadNext
  /\ UNCHANGED <<part, refVars, challengeVars, storeVars, vars>>
RefsRun == part = "refs" /\ RefsNext
  /\ UNCHANGED <<part, downloadVars, challengeVars, storeVars, vars>>
ChallengeRuns == part = "challenges" /\ ChallengeNext
  /\ UNCHANGED <<part, downloadVars, refVars, storeVars, vars>>
StoreRuns == part = "store" /\ StoreNext
  /\ UNCHANGED <<part, downloadVars, refVars, challengeVars, vars>>
InstallerRuns == part = "installer" /\ InstallNext
  /\ UNCHANGED <<part, downloadVars, refVars, challengeVars, storeVars>>

RecordsNext == DownloadRuns \/ RefsRun \/ ChallengeRuns \/ StoreRuns \/ InstallerRuns

RecordsSpec == RecordsInit /\ [][RecordsNext]_records

--------------------------------
(* What earlier versions of the extension have left in the storage. *)

RawTask == {Nothing,
  [group |-> 1, tabs |-> <<1>>, created |-> {1, 2}, state |-> "needs_user"],
  [group |-> Nothing, tabs |-> <<1>>, created |-> Nothing, state |-> "working"]}

FewRaws ==
  {[schema |-> 1, tasks |-> tasks, revisions |-> [t \in StoredTab |-> [floor |-> 1, current |-> 2]],
    notices |-> kept, handoff |-> IF kept = Nothing THEN "active" ELSE Nothing,
    commits |-> {}, cleanup |-> IF kept = Nothing THEN Nothing ELSE NoCleanup] :
     tasks \in [StoredTask -> RawTask], kept \in {Nothing, {}}}

FewLegacies == [StoredTask -> {Nothing, [group |-> 1, tabs |-> <<1>>, state |-> "working"]}]

(* A page, one behind a challenge and one that asks for proof of a human. *)

WebPage(origin, status, signals, visible, closed) ==
  [origin |-> origin, status |-> status, signals |-> signals, visible |-> visible,
   closed |-> closed, filled |-> {}]

FewPages ==
  {WebPage("o1", 200, {}, {}, {}), WebPage("o1", 202, {"waf_challenge"}, {}, {}),
   WebPage("o1", 429, {"too_many_requests", "hcaptcha_host"}, {"hcaptcha_host"}, {})}

(* A release, its rebuild and the next one. *)

Releases == {[version |-> 1, build |-> 1], [version |-> 1, build |-> 2], [version |-> 2, build |-> 1]}
================================
