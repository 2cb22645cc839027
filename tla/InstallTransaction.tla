---- MODULE InstallTransaction ----
(* agenttab install (packages/installer): what one installer after another leaves   *)
(* on the disk.  install() settles where the host executable comes from, plans every *)
(* file of the version, the browser's native-messaging manifest, the client          *)
(* configurations and, last, the receipt; applyTransaction stages the changed ones,  *)
(* backs up and renames them one by one, registers the manifest on Windows, and on a *)
(* failure restores in reverse.  Any step may fail or be the last one the process    *)
(* takes, and the user's client may rewrite its configuration between any two.       *)
EXTENDS Naturals, Sequences, FiniteSets

CONSTANTS Release,     \* [version, build]: what a signed manifest may describe
          Keys,        \* Windows registry keys to point at the manifest, 0 elsewhere
          Malformed,   \* the client's own configurations (by edit) that do not parse
          Absent,      \* no such file
          Partial,     \* a copy that was cut short
          MaxEdits,    \* bound: times the client rewrites its configuration
          MaxAttempts, \* bound: installer runs
          MaxBreaks,   \* bound: runs killed
          MaxFaults    \* bound: downloads, writes, renames, syncs, reg.exe calls that fail

VARIABLES disk,        \* the files under their own names
          staged,      \* .agenttab-stage files: [file, attempt]
          backups,     \* .agenttab-backup files: [file, of, holds]
          registry,    \* per key "none", "other" or "ours"
          step,        \* where the running install is, or how the last one ended
          job,         \* what that run holds in memory
          saved,       \* what the files and keys were when that run looked at them
          edits, attempts, breaks, faults

vars == <<disk, staged, backups, registry, step, job, saved, edits, attempts, breaks, faults>>

Versions == {r.version : r \in Release}
\* "host" stands for all the files below versions/vX: host, CLI, adapter, extension.
Host(v) == <<"host", v>>
Receipt(v) == <<"receipt", v>>
Manifest == <<"manifest", 0>>
Config == <<"config", 0>>
File == {Host(v) : v \in Versions} \cup {Receipt(v) : v \in Versions} \cup {Manifest, Config}

Settings == [edit : 0 .. MaxEdits, entry : BOOLEAN]

\* No file and no configuration is what stands for the absence of one.
ASSUME InstallConstants ==
  /\ Keys \in Nat /\ MaxEdits \in Nat /\ MaxAttempts \in Nat
  /\ Absent \notin Release \cup [names : Versions] \cup Settings

Content == [f \in File |-> {Absent} \cup CASE f = Manifest -> [names : Versions]
                                         [] f = Config -> Settings
                                         [] OTHER -> Release]
Ended == {"out", "done", "failed", "refused", "broken", "killed"}
Steps == Ended \cup {"fetched", "planning", "preparing", "staging", "backing", "copying",
                     "renaming", "syncing", "registering", "unregistering", "undoing"}

NoJob == [release |-> Absent, dry |-> FALSE, plan |-> <<>>, prepared |-> <<>>, n |-> 1,
          changed |-> <<>>, met |-> 0]
NothingSaved == [files |-> <<>>, keys |-> <<>>]

InstallTypeOK ==
  /\ DOMAIN disk = File /\ \A f \in File : disk[f] \in Content[f]
  /\ staged \subseteq [file : File, attempt : 0 .. MaxAttempts]
  /\ \A b \in backups : b.file \in File /\ b.holds \in {Partial} \cup Content[b.file]
  /\ registry \in [1 .. Keys -> {"none", "other", "ours"}]
  /\ step \in Steps /\ edits \in 0 .. MaxEdits
  /\ Len(job.prepared) <= Len(job.plan) /\ Len(job.changed) <= Keys

\* A client is set up; nothing of AgentTab is there, a key may belong to someone else.
InstallInit ==
  /\ disk = [f \in File |-> IF f = Config THEN [edit |-> 0, entry |-> FALSE] ELSE Absent]
  /\ staged = {} /\ backups = {} /\ registry \in [1 .. Keys -> {"none", "other"}]
  /\ step = "out" /\ job = NoJob /\ saved = NothingSaved
  /\ edits = 0 /\ attempts = 0 /\ breaks = 0 /\ faults = 0

Fault == faults < MaxFaults /\ faults' = faults + 1
NoFault == UNCHANGED faults
Met(j) == [j EXCEPT !.met = @ + 1]
Planned == job.plan[job.n]
Now == job.prepared[job.n]
StageName(f) == [file |-> f, attempt |-> attempts]

--------------------------------
(* install(): the release, the host's bytes and the plan *)

Start(r, dry) ==
  /\ step \in Ended /\ attempts < MaxAttempts
  /\ attempts' = attempts + 1
  /\ step' = "fetched" /\ job' = [NoJob EXCEPT !.release = r, !.dry = dry]
  /\ saved' = NothingSaved
  /\ UNCHANGED <<disk, staged, backups, registry, edits, breaks, faults>>

\* The receipt of this very release, beside a host executable.
Installed(r) == disk[Receipt(r.version)] = r /\ disk[Host(r.version)] # Absent

\* The host is taken from the disk if it is the one of the receipt, else downloaded
\* and verified against the signed manifest.
FindHost ==
  /\ step = "fetched"
  /\ LET r == job.release IN
     \/ /\ Installed(r) /\ disk[Host(r.version)] # r
        /\ step' = "refused" /\ NoFault /\ UNCHANGED job
     \/ /\ Installed(r) => disk[Host(r.version)] = r
        /\ step' = "planning" /\ NoFault /\ UNCHANGED job
     \/ /\ ~Installed(r) /\ Fault /\ job' = Met(job) /\ step' = "failed"
  /\ UNCHANGED <<disk, staged, backups, registry, saved, edits, attempts, breaks>>

\* planClientConfigs: the client's configuration with our entry, left out if malformed.
ClientConfigs ==
  IF disk[Config].edit \in Malformed THEN <<>>
  ELSE <<[file |-> Config, bytes |-> [disk[Config] EXCEPT !.entry = TRUE]]>>

FilesReceiptFirst(r, configs) ==
  <<[file |-> Receipt(r.version), bytes |-> r], [file |-> Host(r.version), bytes |-> r],
    [file |-> Manifest, bytes |-> [names |-> r.version]]>> \o configs
FilesOf(r, configs) ==
  <<[file |-> Host(r.version), bytes |-> r], [file |-> Manifest, bytes |-> [names |-> r.version]]>>
  \o configs \o <<[file |-> Receipt(r.version), bytes |-> r]>>

Plan ==
  /\ step = "planning" /\ step' = "preparing"
  /\ job' = [job EXCEPT !.plan = FilesOf(job.release, ClientConfigs)]
  /\ UNCHANGED <<disk, staged, backups, registry, saved, edits, attempts, breaks, faults>>

--------------------------------
(* applyTransaction *)

\* One file is read: left out if it is already right, else remembered with its original.
Prepare ==
  /\ step = "preparing" /\ job.n <= Len(job.plan)
  /\ LET now == disk[Planned.file] IN
     /\ job' = [job EXCEPT !.n = @ + 1,
                  !.prepared = IF now = Planned.bytes THEN @
                               ELSE Append(@, [file |-> Planned.file, bytes |-> Planned.bytes,
                                               original |-> now])]
     /\ saved' = [saved EXCEPT !.files = Append(@, [file |-> Planned.file, was |-> now])]
  /\ UNCHANGED <<disk, staged, backups, registry, step, edits, attempts, breaks, faults>>

AfterApply == IF Keys = 0 THEN "done" ELSE "registering"

Prepared ==
  /\ step = "preparing" /\ job.n > Len(job.plan)
  /\ step' = IF job.dry THEN "done" ELSE IF job.prepared = <<>> THEN AfterApply ELSE "staging"
  /\ job' = [job EXCEPT !.n = 1] /\ saved' = [saved EXCEPT !.keys = registry]
  /\ UNCHANGED <<disk, staged, backups, registry, edits, attempts, breaks, faults>>

\* durableWrite of the staged copy, which must not be there yet ("wx"); outside the try,
\* so a failure leaves the copies already made.
Stage ==
  /\ step = "staging"
  /\ \/ /\ StageName(Now.file) \notin staged
        /\ staged' = staged \cup {StageName(Now.file)}
        /\ LET last == job.n = Len(job.prepared) IN
           /\ step' = IF last THEN "backing" ELSE "staging"
           /\ job' = [job EXCEPT !.n = IF last THEN 1 ELSE @ + 1]
        /\ NoFault
     \/ /\ StageName(Now.file) \in staged
        /\ step' = "failed" /\ NoFault /\ UNCHANGED <<staged, job>>
     \/ /\ Fault /\ job' = Met(job) /\ step' = "failed" /\ UNCHANGED staged
  /\ UNCHANGED <<disk, backups, registry, saved, edits, attempts, breaks>>

\* The catch block: from the last file applied back to the first.
Undo(from) == step' = "undoing" /\ job' = [Met(job) EXCEPT !.n = from]

\* The backup is named after the original's hash; one that is there is left alone.
HasBackup(p) == \E b \in backups : b.file = p.file /\ b.of = p.original

Backup ==
  /\ step = "backing"
  /\ \/ /\ Now.original = Absent \/ HasBackup(Now)
        /\ step' = "renaming" /\ NoFault /\ UNCHANGED <<backups, job>>
     \/ /\ Now.original # Absent /\ ~HasBackup(Now)
        /\ backups' = backups \cup {[file |-> Now.file, of |-> Now.original, holds |-> Partial]}
        /\ step' = "copying" /\ NoFault /\ UNCHANGED job
     \/ /\ Fault /\ Undo(job.n - 1) /\ UNCHANGED backups
  /\ UNCHANGED <<disk, staged, registry, saved, edits, attempts, breaks>>

\* copyFile copies what the file is by now.
Copied ==
  /\ step = "copying"
  /\ \/ /\ backups' = (backups \ {[file |-> Now.file, of |-> Now.original, holds |-> Partial]})
                       \cup {[file |-> Now.file, of |-> Now.original, holds |-> disk[Now.file]]}
        /\ step' = "renaming" /\ NoFault /\ UNCHANGED job
     \/ /\ Fault /\ Undo(job.n - 1) /\ UNCHANGED backups
  /\ UNCHANGED <<disk, staged, registry, saved, edits, attempts, breaks>>

Rename ==
  /\ step = "renaming"
  /\ \/ /\ disk' = [disk EXCEPT ![Now.file] = Now.bytes]
        /\ staged' = staged \ {StageName(Now.file)}
        /\ step' = "syncing" /\ NoFault /\ UNCHANGED job
     \/ /\ Fault /\ Undo(job.n - 1) /\ UNCHANGED <<disk, staged>>
  /\ UNCHANGED <<backups, registry, saved, edits, attempts, breaks>>

AppliedWhenSyncFails == job.n

Synced ==
  /\ step = "syncing"
  /\ \/ /\ LET last == job.n = Len(job.prepared) IN
           /\ step' = IF last THEN AfterApply ELSE "backing"
           /\ job' = [job EXCEPT !.n = IF last THEN 1 ELSE @ + 1]
        /\ NoFault
     \/ /\ Fault /\ Undo(AppliedWhenSyncFails)
  /\ UNCHANGED <<disk, staged, backups, registry, saved, edits, attempts, breaks>>

\* One of the applied files is put back, or removed where there was none; a failure
\* here ends the rollback, before the file is restored or, syncing its directory, after.
Restored(p) == disk' = [disk EXCEPT ![p.file] = p.original]
UndoFile ==
  /\ step = "undoing" /\ job.n > 0
  /\ LET p == job.prepared[job.n] IN
     \/ Restored(p) /\ job' = [job EXCEPT !.n = @ - 1] /\ NoFault /\ UNCHANGED step
     \/ /\ Fault /\ job' = Met(job) /\ step' = "broken"
        /\ UNCHANGED disk \/ (p.original # Absent /\ Restored(p))
  /\ UNCHANGED <<staged, backups, registry, saved, edits, attempts, breaks>>

UndoEnds ==
  /\ step = "undoing" /\ job.n = 0
  /\ staged' = {s \in staged : s.attempt # attempts}
  /\ step' = "failed"
  /\ UNCHANGED <<disk, backups, registry, job, saved, edits, attempts, breaks, faults>>

--------------------------------
(* registerWindows: each key is looked up and set; on a failure the keys that were   *)
(* set go back to what the lookup said, and then the files are restored              *)

\* reg.exe query; one that fails is taken for a key that is not there.
Looked(now) == {now} \cup (IF faults < MaxFaults THEN {"none"} ELSE {})

Register ==
  /\ step = "registering"
  /\ LET k == job.n
         ends == k = Keys
         next == IF ends THEN "done" ELSE "registering" IN
     \E was \in Looked(registry[k]) :
       /\ faults' = IF was = registry[k] THEN faults ELSE faults + 1
       /\ IF was = "ours"
          THEN /\ step' = next /\ job' = [job EXCEPT !.n = @ + 1] /\ UNCHANGED registry
          ELSE /\ registry' = [registry EXCEPT ![k] = "ours"] /\ step' = next
               /\ job' = [job EXCEPT !.n = @ + 1,
                                     !.changed = Append(@, [key |-> k, was |-> was]),
                                     !.met = @ + (faults' - faults)]
  /\ UNCHANGED <<disk, staged, backups, saved, edits, attempts, breaks>>

RegisterFails ==
  /\ step = "registering" /\ registry[job.n] # "ours" /\ Fault
  /\ job' = Met(job) /\ step' = "unregistering"
  /\ UNCHANGED <<disk, staged, backups, registry, saved, edits, attempts, breaks>>

Unregister ==
  /\ step = "unregistering"
  /\ \/ /\ job.changed # <<>>
        /\ LET c == job.changed[Len(job.changed)] IN registry' = [registry EXCEPT ![c.key] = c.was]
        /\ job' = [job EXCEPT !.changed = SubSeq(@, 1, Len(@) - 1)]
        /\ NoFault /\ UNCHANGED step
     \/ /\ job.changed = <<>> /\ step' = "undoing"
        /\ job' = [job EXCEPT !.n = Len(job.prepared)]
        /\ NoFault /\ UNCHANGED registry
     \/ /\ job.changed # <<>> /\ Fault /\ step' = "undoing"
        /\ job' = [Met(job) EXCEPT !.n = Len(job.prepared)]
        /\ UNCHANGED registry
  /\ UNCHANGED <<disk, staged, backups, saved, edits, attempts, breaks>>

--------------------------------
(* Everyone else *)

\* The process is killed: what it did stays, what it knew is gone.
Kill ==
  /\ step \notin Ended /\ breaks < MaxBreaks
  /\ breaks' = breaks + 1 /\ step' = "killed" /\ job' = NoJob /\ saved' = NothingSaved
  /\ UNCHANGED <<disk, staged, backups, registry, edits, attempts, faults>>

\* The client saves its configuration; it keeps the entry it found there.
ClientSaves ==
  /\ edits < MaxEdits /\ edits' = edits + 1
  /\ disk' = [disk EXCEPT ![Config].edit = edits + 1]
  /\ UNCHANGED <<staged, backups, registry, step, job, saved, attempts, breaks, faults>>

InstallNext ==
  \/ \E r \in Release, dry \in BOOLEAN : Start(r, dry)
  \/ FindHost \/ Plan \/ Prepare \/ Prepared \/ Stage \/ Backup \/ Copied \/ Rename \/ Synced
  \/ Register \/ RegisterFails \/ Unregister \/ UndoFile \/ UndoEnds
  \/ Kill \/ ClientSaves

InstallSpec == InstallInit /\ [][InstallNext]_vars

--------------------------------
(* Properties *)

\* A version's receipt never stands without that version's host executable, and the
\* browser's manifest never names a host that is not there, whatever was killed or
\* failed on the way: the order of the plan and of the rollback (install.ts
\* install(), transaction.ts applyTransaction).
NamesWhatIsThere ==
  /\ \A v \in Versions : disk[Receipt(v)] # Absent => disk[Host(v)] # Absent
  /\ disk[Manifest] # Absent => disk[Host(disk[Manifest].names)] # Absent

\* An install that failed at one step has left every file and every registry key as it
\* found it, except a configuration the client saved meanwhile (applyTransaction's and
\* registerWindows' catch blocks).
FailureLeavesAsFound ==
  step = "failed" /\ job.met <= 1 =>
    /\ \A i \in DOMAIN saved.files :
         LET s == saved.files[i] IN
           \/ disk[s.file] = s.was
           \/ s.file = Config /\ edits > s.was.edit
    /\ saved.keys # <<>> => registry = saved.keys

\* What an earlier run left behind, killed or failed at any point, never makes a later
\* run fail: one that met no fault of its own ends, except that a version installed
\* half over with another build of itself is refused (the unique names of staged and
\* restore files).
FailsOnlyOnFault ==
  /\ step = "failed" => job.met > 0
  /\ step = "refused" => disk[Host(job.release.version)] # job.release

\* Once an install is done, every file it replaced has a backup under the hash of its
\* original that is a whole file, not a copy some earlier run was killed in (docs/setup.md
\* "creates backups for replaced files").
BackedUp ==
  step = "done" /\ ~job.dry =>
    \A i \in DOMAIN job.prepared :
      LET p == job.prepared[i] IN
        p.original # Absent =>
          \E b \in backups : b.file = p.file /\ b.of = p.original /\ b.holds # Partial

\* What names a host names one that is there, at any kill; an install that fails leaves
\* files and registry as it found them; and it fails on a fault only (applyTransaction).
InstallsAllOrNothing == InstallTypeOK /\ NamesWhatIsThere /\ FailureLeavesAsFound /\ FailsOnlyOnFault

================================
