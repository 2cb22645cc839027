---- MODULE RecordsProofs ----
(* Proofs about what the installer leaves on the disk, about whose a download is, and   *)
(* about the refs of snapshots that outlive the worker.                                 *)
EXTENDS InstallTransaction, Downloads, TargetRefs, SequenceTheorems, FiniteSetTheorems, TLAPS

--------------------------------
(* InstallTransaction: what a run knows of the disk *)

Bytes == UNION {Content[f] : f \in File}
KeyStates == {"none", "other", "ours"}

JobType ==
  [release : Release \cup {Absent}, dry : BOOLEAN, plan : Seq([file : File, bytes : Bytes]),
   prepared : Seq([file : File, bytes : Bytes, original : Bytes]), n : Nat,
   changed : Seq([key : 1 .. Keys, was : KeyStates]), met : Nat]
SavedType ==
  [files : Seq([file : File, was : Bytes]), keys : {<<>>} \cup [1 .. Keys -> KeyStates]]

\* From planning on a run has a release and a plan; from Prepared on it has seen every file.
Applying == {"staging", "backing", "copying", "renaming", "syncing", "registering",
             "unregistering", "undoing"}
Running == {"preparing"} \cup Applying

\* The files of prepared that are in place.
Applied ==
  CASE step \in {"preparing", "staging"} -> 0
    [] step \in {"backing", "copying", "renaming"} -> job.n - 1
    [] step \in {"syncing", "undoing"} -> job.n
    [] OTHER -> Len(job.prepared)

InstallTyped ==
  /\ InstallTypeOK /\ job \in JobType /\ saved \in SavedType
  /\ edits \in Nat /\ attempts \in 0 .. MaxAttempts
  /\ \A i \in DOMAIN job.plan : job.plan[i].bytes \in Content[job.plan[i].file] \ {Absent}
  /\ \A i \in DOMAIN job.prepared : /\ job.prepared[i].bytes \in Content[job.prepared[i].file]
                                    /\ job.prepared[i].original \in Content[job.prepared[i].file]
  /\ \A i \in DOMAIN saved.files : saved.files[i].was \in Content[saved.files[i].file]
  /\ step \notin {"out", "killed"} => job.release \in Release

\* No configuration comes from an edit still to come.
EditsPast ==
  /\ disk[Config] \in Settings /\ disk[Config].edit <= edits
  /\ \A i \in DOMAIN job.plan : job.plan[i].file = Config => job.plan[i].bytes.edit <= edits
  /\ \A i \in DOMAIN saved.files : saved.files[i].file = Config =>
        saved.files[i].was \in Settings /\ saved.files[i].was.edit <= edits

\* The host comes first, no file twice, and what names a host is there and names that one.
PlanIs(plan, r) ==
  /\ plan # <<>> /\ plan[1] = [file |-> Host(r.version), bytes |-> r]
  /\ \A i, j \in DOMAIN plan : i # j => plan[i].file # plan[j].file
  /\ \A i \in DOMAIN plan : plan[i].file \in {Host(r.version), Manifest, Config, Receipt(r.version)}
  /\ \A i \in DOMAIN plan : plan[i].file = Manifest => plan[i].bytes = [names |-> r.version]
  /\ \A f \in {Manifest, Receipt(r.version)} : \E i \in DOMAIN plan : plan[i].file = f

RunBegun ==
  /\ step \in {"fetched", "planning"} =>
        /\ job.plan = <<>> /\ job.prepared = <<>> /\ job.n = 1 /\ job.changed = <<>>
        /\ saved = NothingSaved
  /\ step = "preparing" => /\ job.n \in 1 .. Len(job.plan) + 1 /\ job.changed = <<>>
                           /\ Len(job.prepared) <= job.n - 1 /\ saved.keys = <<>>
  /\ step \in {"staging", "backing", "copying", "renaming", "syncing"} =>
        job.n \in 1 .. Len(job.prepared) /\ job.changed = <<>>
  /\ step = "undoing" => job.n \in 0 .. Len(job.prepared)
  /\ step \in Running => PlanIs(job.plan, job.release)

\* saved.files has what was found of each file so far, and prepared those of them that
\* are to change.
Seen ==
  step \in Running =>
    /\ Len(saved.files) = IF step = "preparing" THEN job.n - 1 ELSE Len(job.plan)
    /\ \A i \in DOMAIN saved.files :
          /\ saved.files[i].file = job.plan[i].file
          /\ \/ saved.files[i].was = job.plan[i].bytes
             \/ \E m \in DOMAIN job.prepared : job.prepared[m].file = job.plan[i].file
    /\ \A m \in DOMAIN job.prepared : \E i \in DOMAIN saved.files :
          job.prepared[m] = [file |-> job.plan[i].file, bytes |-> job.plan[i].bytes,
                             original |-> saved.files[i].was]
    /\ \A l, m \in DOMAIN job.prepared : l # m => job.prepared[l].file # job.prepared[m].file
    /\ \A m \in DOMAIN job.prepared : job.prepared[m].file = Host(job.release.version) => m = 1

\* The applied files are as planned and all others as they were found, but for what the
\* client saved meanwhile.
IsOrEdited(f, now, was) == disk[f] = now \/ (f = Config /\ edits > was.edit)
DiskFollows ==
  step \in Running =>
    /\ \A m \in DOMAIN job.prepared : LET p == job.prepared[m] IN
          IsOrEdited(p.file, IF m <= Applied THEN p.bytes ELSE p.original, p.original)
    /\ \A i \in DOMAIN saved.files : LET s == saved.files[i] IN
          \/ IsOrEdited(s.file, s.was, s.was)
          \/ \E m \in DOMAIN job.prepared : job.prepared[m].file = s.file

\* What the run found was consistent: putting it back names no host that is not there.
FoundNames ==
  step \in Running =>
    \A i \in DOMAIN saved.files : LET s == saved.files[i] IN
      /\ s.file = Receipt(job.release.version) /\ s.was # Absent => saved.files[1].was # Absent
      /\ s.file = Manifest /\ s.was # Absent =>
            IF s.was.names = job.release.version THEN saved.files[1].was # Absent
                                                 ELSE disk[Host(s.was.names)] # Absent

\* The staged copies of this run are those of the files it has staged.
StagedOnce ==
  \A s \in staged :
    /\ s.attempt <= attempts
    /\ s.attempt = attempts =>
          /\ step \notin {"fetched", "planning", "preparing"}
          /\ step = "staging" => \E m \in 1 .. job.n - 1 : job.prepared[m].file = s.file

\* The keys that were set, each with what the lookup said, unless a lookup failed.
KeysFollow ==
  LET Set(k) == \E i \in DOMAIN job.changed : job.changed[i].key = k IN
  /\ \A i \in DOMAIN job.changed : \A l \in DOMAIN job.changed :
        i # l => job.changed[i].key # job.changed[l].key
  /\ (step = "registering" /\ job.met = 0) \/ (step = "unregistering" /\ job.met <= 1) =>
        /\ \A i \in DOMAIN job.changed : job.changed[i].was = saved.keys[job.changed[i].key]
        /\ \A k \in 1 .. Keys : registry[k] = IF Set(k) THEN "ours" ELSE saved.keys[k]
KeysBegun ==
  /\ step \in Applying => saved.keys \in [1 .. Keys -> KeyStates]
  /\ step = "registering" =>
        /\ job.n \in 1 .. Keys /\ Len(job.changed) < job.n
        /\ \A i \in DOMAIN job.changed : job.changed[i].key < job.n
  /\ \/ step \in {"staging", "backing", "copying", "renaming", "syncing"}
     \/ step = "undoing" /\ job.met <= 1
     => saved.keys = registry

FaultsMet == step \in {"undoing", "unregistering"} => job.met > 0

InstallInv ==
  /\ InstallTyped /\ EditsPast /\ NamesWhatIsThere /\ RunBegun /\ Seen /\ DiskFollows /\ FoundNames
  /\ StagedOnce /\ KeysFollow /\ KeysBegun /\ FaultsMet
  /\ FailureLeavesAsFound /\ FailsOnlyOnFault

--------------------------------
(* Files and their contents *)

LEMMA FilesDiffer ==
    ASSUME NEW v, NEW w
    PROVE  /\ Host(v) # Manifest /\ Host(v) # Config /\ Host(v) # Receipt(w)
           /\ Receipt(v) # Manifest /\ Receipt(v) # Config /\ Manifest # Config
           /\ Host(v) = Host(w) => v = w
           /\ Receipt(v) = Receipt(w) => v = w
BY DEF Host, Manifest, Config, Receipt

LEMMA ContentIs ==
    /\ Manifest \in File /\ Config \in File
    /\ Content[Manifest] = {Absent} \cup [names : Versions]
    /\ Content[Config] = {Absent} \cup Settings
    /\ \A v \in Versions : /\ Host(v) \in File /\ Receipt(v) \in File
                           /\ Content[Host(v)] = {Absent} \cup Release
                           /\ Content[Receipt(v)] = {Absent} \cup Release
BY FilesDiffer DEF Content, File

LEMMA VersionOf ==
    ASSUME NEW r \in Release
    PROVE  r.version \in Versions /\ r # Absent
BY InstallConstants DEF Versions

LEMMA JobFacts ==
    ASSUME InstallTyped
    PROVE  /\ job.plan \in Seq([file : File, bytes : Bytes]) /\ Len(job.plan) \in Nat
           /\ DOMAIN job.plan = 1 .. Len(job.plan)
           /\ job.prepared \in Seq([file : File, bytes : Bytes, original : Bytes])
           /\ Len(job.prepared) \in Nat /\ DOMAIN job.prepared = 1 .. Len(job.prepared)
           /\ saved.files \in Seq([file : File, was : Bytes]) /\ Len(saved.files) \in Nat
           /\ DOMAIN saved.files = 1 .. Len(saved.files)
           /\ job.changed \in Seq([key : 1 .. Keys, was : KeyStates]) /\ Len(job.changed) \in Nat
           /\ DOMAIN job.changed = 1 .. Len(job.changed)
           /\ job.n \in Nat /\ job.met \in Nat /\ Keys \in Nat
BY InstallConstants DEF InstallTyped, JobType, SavedType

\* The file that is being prepared, and what is known of it.
LEMMA PreparedFacts ==
    ASSUME InstallTyped, NEW m \in 1 .. Len(job.prepared)
    PROVE  LET p == job.prepared[m] IN
           p.file \in File /\ p.bytes \in Content[p.file] /\ p.original \in Content[p.file]
<1>1. m \in DOMAIN job.prepared /\ job.prepared[m] \in [file : File, bytes : Bytes, original : Bytes]
  BY JobFacts, ElementOfSeq
<1>2. QED  BY <1>1 DEF InstallTyped

--------------------------------
(* Steps that leave the files as they are *)

LEMMA ApplyingKept ==
    ASSUME InstallInv, step \in Running, step' \in Applying,
           step = "preparing" => job.n = Len(job.plan) + 1,
           UNCHANGED <<disk, edits, attempts>>, saved' \in SavedType, saved'.files = saved.files,
           job' \in JobType, job'.plan = job.plan,
           job'.prepared = job.prepared, job'.release = job.release, Applied' = Applied,
           staged' \subseteq [file : File, attempt : 0 .. MaxAttempts],
           \A b \in backups' : b.file \in File /\ b.holds \in {Partial} \cup Content[b.file],
           registry' \in [1 .. Keys -> KeyStates], Len(job'.changed) <= Keys
    PROVE  /\ InstallTyped' /\ EditsPast' /\ NamesWhatIsThere' /\ Seen' /\ DiskFollows'
           /\ FoundNames' /\ PlanIs(job.plan, job.release)' /\ FailureLeavesAsFound'
           /\ FailsOnlyOnFault'
<1>1. InstallTyped'
  BY DEF InstallInv, InstallTyped, InstallTypeOK, Running, Applying, Steps, Ended, KeyStates
<1>2. EditsPast' /\ NamesWhatIsThere'
  BY DEF InstallInv, EditsPast, NamesWhatIsThere
<1>3. Seen'
  <2>1. Len(job.plan) \in Nat
    BY JobFacts DEF InstallInv
  <2>2. QED  BY <2>1 DEF InstallInv, Seen, Running, Applying
<1>4. DiskFollows'
  BY DEF InstallInv, DiskFollows, IsOrEdited, Running, Applying
<1>5. FoundNames'
  BY DEF InstallInv, FoundNames, Running
<1>6. PlanIs(job.plan, job.release)'
  BY DEF InstallInv, RunBegun, PlanIs, Running
<1>7. FailureLeavesAsFound' /\ FailsOnlyOnFault'
  BY DEF FailureLeavesAsFound, FailsOnlyOnFault, Applying
<1>8. QED  BY <1>1, <1>2, <1>3, <1>4, <1>5, <1>6, <1>7

\* The run ends, and leaves the disk as it is.
LEMMA RunEnds ==
    ASSUME InstallInv, step \notin {"out", "killed"}, step' \in {"done", "failed", "refused", "broken"},
           UNCHANGED <<disk, edits, attempts, backups>>, saved' \in SavedType,
           saved'.files = saved.files, job' \in JobType,
           job'.plan = job.plan, job'.prepared = job.prepared, job'.release = job.release,
           job'.changed \in Seq([key : 1 .. Keys, was : KeyStates]), Len(job'.changed) <= Keys,
           \A i, l \in DOMAIN job'.changed : i # l => job'.changed[i].key # job'.changed[l].key,
           registry' \in [1 .. Keys -> KeyStates], staged' \subseteq staged,
           FailureLeavesAsFound', FailsOnlyOnFault'
    PROVE  InstallInv'
<1>1. InstallTyped'
  BY DEF InstallInv, InstallTyped, InstallTypeOK, Applying, Steps, Ended, KeyStates
<1>2. EditsPast' /\ NamesWhatIsThere'
  BY DEF InstallInv, EditsPast, NamesWhatIsThere
<1>3. RunBegun' /\ Seen' /\ DiskFollows' /\ FoundNames'
  BY DEF RunBegun, Seen, DiskFollows, FoundNames, Running, Applying
<1>4. StagedOnce'
  BY DEF InstallInv, StagedOnce
<1>5. KeysFollow' /\ KeysBegun' /\ FaultsMet'
  BY DEF KeysFollow, KeysBegun, FaultsMet, Applying
<1>6. QED  BY <1>1, <1>2, <1>3, <1>4, <1>5 DEF InstallInv

--------------------------------
(* install() *)

LEMMA FreshJob ==
    ASSUME NEW e, e \in Seq([file : File, bytes : Bytes]),
           e \in Seq([file : File, bytes : Bytes, original : Bytes]),
           e \in Seq([key : 1 .. Keys, was : KeyStates]), NEW d, d \in BOOLEAN, NEW j,
           j = [release |-> Absent, dry |-> d, plan |-> e, prepared |-> e, n |-> 1,
                changed |-> e, met |-> 0]
    PROVE  /\ j \in JobType /\ j.plan = e /\ j.prepared = e /\ j.n = 1
           /\ j.changed = e /\ j.met = 0
BY DEF JobType

LEMMA NoJobIs ==
    /\ NoJob \in JobType /\ NoJob.plan = <<>> /\ NoJob.prepared = <<>> /\ NoJob.n = 1
    /\ NoJob.changed = <<>> /\ NoJob.met = 0
<1>1. PICK e : e = <<>>
  BY Zenon
<1>2. PICK d : d = FALSE
  BY Zenon
<1>3. PICK j : j = NoJob
  BY Zenon
<1>4. /\ e \in Seq([file : File, bytes : Bytes])
      /\ e \in Seq([file : File, bytes : Bytes, original : Bytes])
      /\ e \in Seq([key : 1 .. Keys, was : KeyStates])
  BY <1>1, EmptySeq
<1>5. d \in BOOLEAN
  BY <1>2, Zenon
<1>6. j = [release |-> Absent, dry |-> d, plan |-> e, prepared |-> e, n |-> 1, changed |-> e, met |-> 0]
  BY <1>1, <1>2, <1>3, Zenon DEF NoJob
<1>7. /\ j \in JobType /\ j.plan = e /\ j.prepared = e /\ j.n = 1
      /\ j.changed = e /\ j.met = 0
  BY <1>4, <1>5, <1>6, FreshJob, Zenon
<1>8. QED  BY <1>1, <1>3, <1>7, Zenon

JobOf(r, d) == [NoJob EXCEPT !.release = r, !.dry = d]
LEMMA JobOfIs ==
    ASSUME NEW r, r \in Release \cup {Absent}, NEW d, d \in BOOLEAN
    PROVE  /\ JobOf(r, d) \in JobType /\ JobOf(r, d).release = r
           /\ JobOf(r, d).plan = NoJob.plan /\ JobOf(r, d).prepared = NoJob.prepared
           /\ JobOf(r, d).n = NoJob.n /\ JobOf(r, d).changed = NoJob.changed
           /\ JobOf(r, d).met = NoJob.met
<1>1. NoJob \in JobType
  BY NoJobIs
<1>2. QED  BY <1>1 DEF JobType, JobOf

LEMMA JobMet ==
    ASSUME NEW j, j \in JobType
    PROVE  /\ Met(j) \in JobType /\ Met(j).met = j.met + 1 /\ Met(j).release = j.release
           /\ Met(j).dry = j.dry /\ Met(j).plan = j.plan /\ Met(j).prepared = j.prepared
           /\ Met(j).n = j.n /\ Met(j).changed = j.changed
BY DEF Met, JobType

LEMMA SavedNothing == NothingSaved \in SavedType /\ NothingSaved.files = <<>>
<1>1. <<>> \in Seq([file : File, was : Bytes])
  BY EmptySeq
<1>2. QED  BY <1>1 DEF NothingSaved, SavedType

LEMMA InstallStart ==
    ASSUME InstallInv, NEW r \in Release, NEW dry \in BOOLEAN, Start(r, dry)
    PROVE  InstallInv'
<1>1. /\ job' \in JobType /\ job'.release = r /\ job'.plan = <<>> /\ job'.prepared = <<>>
      /\ job'.n = 1 /\ job'.changed = <<>> /\ job'.met = 0
  <2>1. PICK d : d = dry
    BY Zenon
  <2>2. d \in BOOLEAN /\ r \in Release \cup {Absent}
    BY <2>1, Zenon
  <2>3. /\ JobOf(r, d) \in JobType /\ JobOf(r, d).release = r /\ JobOf(r, d).plan = <<>>
        /\ JobOf(r, d).prepared = <<>> /\ JobOf(r, d).n = 1 /\ JobOf(r, d).changed = <<>>
        /\ JobOf(r, d).met = 0
    BY <2>2, NoJobIs, JobOfIs, Zenon
  <2>4. job' = JobOf(r, d)
    BY <2>1, Zenon DEF Start, JobOf
  <2>5. QED  BY <2>3, <2>4, Zenon
<1>2. saved' = NothingSaved /\ step' = "fetched" /\ attempts' = attempts + 1
      /\ attempts < MaxAttempts /\ UNCHANGED <<disk, staged, backups, registry, edits>>
  BY DEF Start
<1>3. attempts \in Nat /\ MaxAttempts \in Nat
  BY InstallConstants DEF InstallInv, InstallTyped
<1>4. InstallTyped'
  <2>1. InstallTypeOK'
    BY <1>1, <1>2, <1>3, InstallConstants DEF InstallInv, InstallTyped, InstallTypeOK, Steps
  <2>2. QED  BY <1>1, <1>2, <1>3, <2>1, SavedNothing DEF InstallInv, InstallTyped
<1>5. EditsPast' /\ NamesWhatIsThere'
  BY <1>1, <1>2, SavedNothing DEF InstallInv, EditsPast, NamesWhatIsThere
<1>6. RunBegun' /\ Seen' /\ DiskFollows' /\ FoundNames'
  BY <1>1, <1>2 DEF RunBegun, Seen, DiskFollows, FoundNames, Running, Applying
<1>7. StagedOnce'
  <2>1. \A s \in staged : s.attempt \in 0 .. MaxAttempts
    BY DEF InstallInv, InstallTyped, InstallTypeOK
  <2>2. QED  BY <1>2, <1>3, <2>1 DEF InstallInv, StagedOnce
<1>8. KeysFollow' /\ KeysBegun' /\ FaultsMet'
  BY <1>1, <1>2 DEF KeysFollow, KeysBegun, FaultsMet, Applying
<1>9. FailureLeavesAsFound' /\ FailsOnlyOnFault'
  BY <1>2 DEF FailureLeavesAsFound, FailsOnlyOnFault
<1>10. QED  BY <1>4, <1>5, <1>6, <1>7, <1>8, <1>9 DEF InstallInv

LEMMA InstallKill ==
    ASSUME InstallInv, Kill
    PROVE  InstallInv'
<1>1. /\ job' = NoJob /\ saved' = NothingSaved /\ step' = "killed"
      /\ UNCHANGED <<disk, staged, backups, registry, edits, attempts>>
  BY DEF Kill
<1>2. /\ NoJob \in JobType /\ NoJob.plan = <<>> /\ NoJob.prepared = <<>> /\ NoJob.changed = <<>>
  BY NoJobIs, Zenon
<1>3. InstallTyped'
  <2>1. InstallTypeOK'
    BY <1>1, <1>2, InstallConstants DEF InstallInv, InstallTyped, InstallTypeOK, Steps, Ended
  <2>2. QED  BY <1>1, <1>2, <2>1, SavedNothing DEF InstallInv, InstallTyped
<1>4. EditsPast' /\ NamesWhatIsThere'
  BY <1>1, <1>2, SavedNothing DEF InstallInv, EditsPast, NamesWhatIsThere
<1>5. RunBegun' /\ Seen' /\ DiskFollows' /\ FoundNames' /\ StagedOnce'
  BY <1>1 DEF InstallInv, RunBegun, Seen, DiskFollows, FoundNames, StagedOnce, Running, Applying
<1>6. KeysFollow' /\ KeysBegun' /\ FaultsMet'
  BY <1>1, <1>2 DEF KeysFollow, KeysBegun, FaultsMet, Applying
<1>7. FailureLeavesAsFound' /\ FailsOnlyOnFault'
  BY <1>1 DEF FailureLeavesAsFound, FailsOnlyOnFault
<1>8. QED  BY <1>3, <1>4, <1>5, <1>6, <1>7 DEF InstallInv

LEMMA InstallFindHost ==
    ASSUME InstallInv, FindHost
    PROVE  InstallInv'
<1>1. /\ step = "fetched" /\ step' \in {"refused", "planning", "failed"}
      /\ UNCHANGED <<disk, staged, backups, registry, saved, edits, attempts>>
      /\ job' = job \/ (job' = Met(job) /\ step' = "failed")
      /\ step' = "refused" => disk[Host(job.release.version)] # job.release /\ job' = job
      /\ step' = "failed" => job' = Met(job)
  BY DEF FindHost
<1>2. job \in JobType /\ job.release \in Release
  BY <1>1 DEF InstallInv, InstallTyped
<1>3. /\ job' \in JobType /\ job'.plan = job.plan /\ job'.prepared = job.prepared
      /\ job'.release = job.release /\ job'.changed = job.changed /\ job'.n = job.n
      /\ step' = "failed" => job'.met > 0
  BY <1>1, <1>2, JobMet, JobFacts DEF InstallInv
<1>4. CASE step' = "planning"
  <2>1. InstallTyped'
    BY <1>1, <1>2, <1>3, <1>4 DEF InstallInv, InstallTyped, InstallTypeOK, Steps
  <2>2. EditsPast' /\ NamesWhatIsThere' /\ RunBegun' /\ Seen' /\ DiskFollows' /\ FoundNames'
    BY <1>1, <1>3, <1>4 DEF InstallInv, EditsPast, NamesWhatIsThere, RunBegun, Seen, DiskFollows,
       FoundNames, Running, Applying
  <2>3. StagedOnce' /\ KeysFollow' /\ KeysBegun' /\ FaultsMet'
    BY <1>1, <1>3, <1>4 DEF InstallInv, StagedOnce, KeysFollow, KeysBegun, FaultsMet, Applying
  <2>4. FailureLeavesAsFound' /\ FailsOnlyOnFault'
    BY <1>4 DEF FailureLeavesAsFound, FailsOnlyOnFault
  <2>5. QED  BY <2>1, <2>2, <2>3, <2>4 DEF InstallInv
<1>5. CASE step' \in {"refused", "failed"}
  <2>1. saved = NothingSaved /\ job.changed = <<>>
    BY <1>1 DEF InstallInv, RunBegun
  <2>2. FailureLeavesAsFound'
    BY <1>1, <2>1 DEF FailureLeavesAsFound, NothingSaved
  <2>3. FailsOnlyOnFault'
    BY <1>1, <1>3, <1>5 DEF FailsOnlyOnFault
  <2>4. Len(job.changed) <= Keys /\ registry \in [1 .. Keys -> KeyStates] /\ saved \in SavedType
    BY DEF InstallInv, InstallTyped, InstallTypeOK, KeyStates
  <2>5. QED
    BY <1>1, <1>3, <1>5, <2>1, <2>2, <2>3, <2>4, JobFacts, RunEnds DEF InstallInv
<1>6. QED  BY <1>1, <1>4, <1>5

LEMMA Sandwich ==
    ASSUME NEW S, NEW a \in S, NEW b \in S, NEW c \in S, NEW q \in Seq(S),
           NEW s, s = <<a, b>> \o q \o <<c>>
    PROVE  /\ s \in Seq(S) /\ Len(s) = Len(q) + 3 /\ s[1] = a /\ s[2] = b /\ s[Len(q) + 3] = c
           /\ \A i \in 1 .. Len(q) : s[i + 2] = q[i]
<1>1. <<a, b>> \in Seq(S) /\ <<c>> \in Seq(S) /\ Len(<<a, b>>) = 2 /\ Len(<<c>>) = 1
      /\ <<a, b>>[1] = a /\ <<a, b>>[2] = b /\ <<c>>[1] = c /\ Len(q) \in Nat
  OBVIOUS
<1>2. PICK u, v : u = <<a, b>> /\ v = <<c>>
  BY Zenon
<1>3. /\ u \o q \in Seq(S) /\ Len(u \o q) = Len(q) + 2
      /\ (u \o q)[1] = a /\ (u \o q)[2] = b /\ \A i \in 1 .. Len(q) : (u \o q)[i + 2] = q[i]
  BY <1>1, <1>2, ConcatProperties
<1>4. PICK w : w = u \o q
  BY Zenon
<1>5. /\ w \o v \in Seq(S) /\ Len(w \o v) = Len(q) + 3
      /\ \A i \in 1 .. Len(q) + 2 : (w \o v)[i] = w[i]
      /\ (w \o v)[Len(q) + 3] = c
  BY <1>1, <1>2, <1>3, <1>4, ConcatProperties
<1>6. s = w \o v
  BY <1>2, <1>4, Zenon
<1>7. QED  BY <1>1, <1>3, <1>4, <1>5, <1>6

LEMMA PlanMade ==
    ASSUME InstallInv, step = "planning", NEW p, p = FilesOf(job.release, ClientConfigs)
    PROVE  /\ p \in Seq([file : File, bytes : Bytes]) /\ PlanIs(p, job.release)
           /\ \A i \in DOMAIN p : p[i].bytes \in Content[p[i].file] \ {Absent}
           /\ \A i \in DOMAIN p : p[i].file = Config => p[i].bytes.edit <= edits
<1> DEFINE r == job.release
           h == [file |-> Host(r.version), bytes |-> r]
           m == [file |-> Manifest, bytes |-> [names |-> r.version]]
           c == [file |-> Config, bytes |-> [disk[Config] EXCEPT !.entry = TRUE]]
           e == [file |-> Receipt(r.version), bytes |-> r]
           F == [file : File, bytes : Bytes]
           Good(x) == x \in F /\ x.bytes \in Content[x.file] \ {Absent}
<1>1. r \in Release /\ r.version \in Versions /\ r # Absent
  BY VersionOf DEF InstallInv, InstallTyped
<1>2. \A f \in File : Content[f] \subseteq Bytes
  BY DEF Bytes
<1>3. Good(h) /\ Good(e)
  BY <1>1, <1>2, ContentIs
<1>4. Good(m)
  <2>1. [names |-> r.version] \in [names : Versions]
    BY <1>1
  <2>2. [names |-> r.version] # Absent
    BY <2>1, InstallConstants, Zenon
  <2>3. QED  BY <1>2, <2>1, <2>2, ContentIs
<1>5. Good(c) /\ c.bytes.edit <= edits
  <2>1. disk[Config] \in Settings /\ disk[Config].edit <= edits
    BY DEF InstallInv, EditsPast
  <2>2. /\ [disk[Config] EXCEPT !.entry = TRUE] \in Settings
        /\ [disk[Config] EXCEPT !.entry = TRUE].edit = disk[Config].edit
    BY <2>1 DEF Settings
  <2>3. [disk[Config] EXCEPT !.entry = TRUE] # Absent
    BY <2>2, InstallConstants, Zenon
  <2>4. QED  BY <1>2, <2>1, <2>2, <2>3, ContentIs
<1> DEFINE q == ClientConfigs
<1>6. q \in Seq(F) /\ (q = <<>> \/ q = <<c>>)
  <2>1. q = <<>> \/ q = <<c>>
    BY Zenon DEF ClientConfigs
  <2>2. c \in F
    BY <1>5
  <2> HIDE DEF q, c, F
  <2>3. <<>> \in Seq(F) /\ <<c>> \in Seq(F)
    BY <2>2
  <2>4. QED  BY <2>1, <2>3, Zenon
<1>7. h \in F /\ m \in F /\ e \in F
  BY <1>3, <1>4
<1>8. p = <<h, m>> \o q \o <<e>>
  BY Zenon DEF FilesOf
<1>9. h.file = Host(r.version) /\ h.bytes = r /\ m.file = Manifest /\ m.bytes = [names |-> r.version]
      /\ c.file = Config /\ e.file = Receipt(r.version)
  OBVIOUS
<1> HIDE DEF q, h, m, c, e
<1>10. /\ p \in Seq(F) /\ Len(p) = Len(q) + 3 /\ p[1] = h /\ p[2] = m /\ p[Len(q) + 3] = e
       /\ \A i \in 1 .. Len(q) : p[i + 2] = q[i]
  BY <1>6, <1>7, <1>8, Sandwich
<1>11. /\ \/ Len(p) = 3
          \/ Len(p) = 4 /\ p[3] = c
       /\ p[1] = h /\ p[2] = m /\ p[Len(p)] = e /\ DOMAIN p = 1 .. Len(p) /\ p # <<>>
  <2>1. CASE q = <<>>
    BY <1>10, <2>1
  <2>2. CASE q = <<c>>
    <3>1. Len(q) = 1 /\ q[1] = c
      BY <2>2
    <3>2. QED  BY <1>10, <3>1
  <2>3. QED  BY <1>6, <2>1, <2>2
<1>12. \A i \in DOMAIN p : p[i] \in {h, m, c, e}
  BY <1>11
<1>13. \A i, j \in DOMAIN p : i # j => p[i] # p[j] /\ p[i].file # p[j].file
  BY <1>11, <1>9, FilesDiffer
<1>14. \A i \in DOMAIN p : p[i].file \in {Host(r.version), Manifest, Config, Receipt(r.version)}
  BY <1>9, <1>12
<1>15. \A i \in DOMAIN p : p[i].file = Manifest => p[i].bytes = [names |-> r.version]
  BY <1>9, <1>12, FilesDiffer
<1>16. p[1] = [file |-> Host(r.version), bytes |-> r]
  BY <1>11 DEF h
<1>17. PlanIs(p, r)
  <2>1. 2 \in DOMAIN p /\ p[2].file = Manifest /\ Len(p) \in DOMAIN p /\ p[Len(p)].file = Receipt(r.version)
    BY <1>9, <1>11
  <2>2. QED  BY <1>11, <1>13, <1>14, <1>15, <1>16, <2>1 DEF PlanIs
<1>18. \A i \in DOMAIN p : p[i].bytes \in Content[p[i].file] \ {Absent}
  BY <1>3, <1>4, <1>5, <1>12
<1>19. \A i \in DOMAIN p : p[i].file = Config => p[i].bytes.edit <= edits
  BY <1>5, <1>9, <1>12, FilesDiffer
<1>20. QED  BY <1>10, <1>17, <1>18, <1>19

LEMMA InstallPlan ==
    ASSUME InstallInv, Plan
    PROVE  InstallInv'
<1> DEFINE p == FilesOf(job.release, ClientConfigs)
<1>1. /\ step = "planning" /\ step' = "preparing" /\ job' = [job EXCEPT !.plan = p]
      /\ UNCHANGED <<disk, staged, backups, registry, saved, edits, attempts>>
  BY DEF Plan
<1>2. /\ p \in Seq([file : File, bytes : Bytes]) /\ PlanIs(p, job.release)
      /\ \A i \in DOMAIN p : p[i].bytes \in Content[p[i].file] \ {Absent}
      /\ \A i \in DOMAIN p : p[i].file = Config => p[i].bytes.edit <= edits
  BY <1>1, PlanMade
<1> HIDE DEF p
<1>3. /\ job \in JobType /\ job.prepared = <<>> /\ job.n = 1 /\ job.changed = <<>>
      /\ saved = NothingSaved /\ job.release \in Release
  BY <1>1 DEF InstallInv, InstallTyped, RunBegun
<1>4. /\ job' \in JobType /\ job'.plan = p /\ job'.prepared = job.prepared /\ job'.n = job.n
      /\ job'.changed = job.changed /\ job'.met = job.met /\ job'.release = job.release
  BY <1>1, <1>2, <1>3 DEF JobType
<1>5. Len(p) \in Nat /\ DOMAIN p = 1 .. Len(p) /\ p # <<>>
  BY <1>2 DEF PlanIs
<1>6. InstallTyped'
  <2>1. Len(job'.prepared) <= Len(job'.plan)
    BY <1>3, <1>4, <1>5, EmptySeq
  <2>2. QED  BY <1>1, <1>2, <1>3, <1>4, <2>1 DEF InstallInv, InstallTyped, InstallTypeOK, Steps
<1>7. EditsPast' /\ NamesWhatIsThere'
  BY <1>1, <1>2, <1>4 DEF InstallInv, EditsPast, NamesWhatIsThere
<1>8. Len(job.prepared) = 0 /\ DOMAIN job.prepared = {} /\ Len(saved.files) = 0
      /\ DOMAIN saved.files = {} /\ saved.keys = <<>>
  BY <1>3 DEF NothingSaved
<1>9. RunBegun'
  BY <1>1, <1>2, <1>3, <1>4, <1>5, <1>8 DEF RunBegun, Running, Applying
<1>10. Seen' /\ DiskFollows' /\ FoundNames'
  BY <1>1, <1>3, <1>4, <1>8 DEF Seen, DiskFollows, FoundNames
<1>11. StagedOnce' /\ KeysFollow' /\ KeysBegun' /\ FaultsMet'
  BY <1>1, <1>3, <1>4, <1>8 DEF InstallInv, StagedOnce, KeysFollow, KeysBegun, FaultsMet, Applying
<1>12. FailureLeavesAsFound' /\ FailsOnlyOnFault'
  BY <1>1 DEF FailureLeavesAsFound, FailsOnlyOnFault
<1>13. QED  BY <1>6, <1>7, <1>9, <1>10, <1>11, <1>12 DEF InstallInv

--------------------------------
(* The files are looked at *)

\* What is known of a file that is to change.
LEMMA PreparedSeen ==
    ASSUME InstallInv, step \in Running, NEW m \in 1 .. Len(job.prepared)
    PROVE  /\ job.prepared[m].file \in {Host(job.release.version), Manifest, Config,
                                        Receipt(job.release.version)}
           /\ IsOrEdited(job.prepared[m].file,
                         IF m <= Applied THEN job.prepared[m].bytes ELSE job.prepared[m].original,
                         job.prepared[m].original)
           /\ \E i \in 1 .. Len(saved.files) :
                 /\ job.plan[i].file = job.prepared[m].file /\ i \in 1 .. Len(job.plan)
                 /\ job.plan[i].bytes = job.prepared[m].bytes
                 /\ saved.files[i].was = job.prepared[m].original
                 /\ saved.files[i].file = job.prepared[m].file
<1>1. /\ DOMAIN job.prepared = 1 .. Len(job.prepared) /\ DOMAIN saved.files = 1 .. Len(saved.files)
      /\ DOMAIN job.plan = 1 .. Len(job.plan) /\ Len(job.plan) \in Nat /\ Len(saved.files) \in Nat
      /\ job.n \in Nat
  BY JobFacts DEF InstallInv
<1>2. Seen /\ DiskFollows /\ RunBegun
  BY DEF InstallInv
<1>3. PICK i \in DOMAIN saved.files :
        job.prepared[m] = [file |-> job.plan[i].file, bytes |-> job.plan[i].bytes,
                           original |-> saved.files[i].was]
  BY <1>1, <1>2, Zenon DEF Seen
<1>4. Len(saved.files) <= Len(job.plan)
  BY <1>1, <1>2 DEF Seen, RunBegun
<1>5. saved.files[i].file = job.plan[i].file
  BY <1>2, <1>3 DEF Seen
<1>6. job.plan[i].file = job.prepared[m].file /\ job.plan[i].bytes = job.prepared[m].bytes
      /\ saved.files[i].was = job.prepared[m].original
  BY <1>3
<1>7. i \in 1 .. Len(job.plan)
  BY <1>1, <1>3, <1>4
<1>8. PlanIs(job.plan, job.release)
  BY <1>2 DEF RunBegun
<1>9. job.plan[i].file \in {Host(job.release.version), Manifest, Config, Receipt(job.release.version)}
  BY <1>1, <1>7, <1>8 DEF PlanIs
<1>10. QED  BY <1>1, <1>2, <1>3, <1>5, <1>6, <1>7, <1>9 DEF DiskFollows

\* The host is as it was found, or the one of the release.
LEMMA HostFound ==
    ASSUME InstallInv, step \in Running, Len(saved.files) >= 1
    PROVE  LET h == Host(job.release.version) IN
           /\ saved.files[1].file = h
           /\ \/ disk[h] = saved.files[1].was
              \/ disk[h] = job.release /\ Applied >= 1 /\ Len(job.prepared) >= 1
                 /\ job.prepared[1].file = h
<1> DEFINE h == Host(job.release.version)
<1>1. /\ DOMAIN job.prepared = 1 .. Len(job.prepared) /\ DOMAIN saved.files = 1 .. Len(saved.files)
      /\ DOMAIN job.plan = 1 .. Len(job.plan) /\ Len(job.plan) \in Nat /\ Len(saved.files) \in Nat
      /\ Len(job.prepared) \in Nat
  BY JobFacts DEF InstallInv
<1>2. PlanIs(job.plan, job.release) /\ Seen /\ DiskFollows
  BY DEF InstallInv, RunBegun
<1>3. job.plan[1].file = h /\ job.plan[1].bytes = job.release /\ 1 \in DOMAIN job.plan
  BY <1>1, <1>2 DEF PlanIs
<1>4. 1 \in DOMAIN saved.files /\ saved.files[1].file = h
  BY <1>1, <1>2, <1>3 DEF Seen
<1>5. CASE \E m \in DOMAIN job.prepared : job.prepared[m].file = h
  <2>1. PICK m \in 1 .. Len(job.prepared) : job.prepared[m].file = h
    BY <1>1, <1>5
  <2>2. m = 1
    BY <1>1, <1>2, <2>1 DEF Seen
  <2>3. PICK i \in 1 .. Len(saved.files) :
             /\ job.plan[i].file = h /\ i \in 1 .. Len(job.plan)
             /\ job.plan[i].bytes = job.prepared[m].bytes
             /\ saved.files[i].was = job.prepared[m].original
    BY <2>1, PreparedSeen
  <2>4. i = 1
    BY <1>1, <1>2, <1>3, <2>3 DEF PlanIs
  <2>5. disk[h] = IF m <= Applied THEN job.prepared[m].bytes ELSE job.prepared[m].original
    BY <2>1, PreparedSeen, FilesDiffer DEF IsOrEdited
  <2>6. QED  BY <1>1, <1>3, <1>4, <2>1, <2>2, <2>3, <2>4, <2>5
             DEF Applied, Running, Applying
<1>6. CASE ~\E m \in DOMAIN job.prepared : job.prepared[m].file = h
  BY <1>2, <1>4, <1>6, FilesDiffer DEF DiskFollows, IsOrEdited
<1>7. QED  BY <1>5, <1>6

SavedWith(files) == [saved EXCEPT !.files = files]
LEMMA SavedWithIs ==
    ASSUME saved \in SavedType, NEW q \in Seq([file : File, was : Bytes])
    PROVE  SavedWith(q) \in SavedType /\ SavedWith(q).files = q /\ SavedWith(q).keys = saved.keys
BY DEF SavedType, SavedWith

JobWith(n, prepared) == [job EXCEPT !.n = n, !.prepared = prepared]
LEMMA JobWithIs ==
    ASSUME job \in JobType, NEW x \in Nat, NEW q \in Seq([file : File, bytes : Bytes, original : Bytes])
    PROVE  /\ JobWith(x, q) \in JobType /\ JobWith(x, q).n = x /\ JobWith(x, q).prepared = q
           /\ JobWith(x, q).plan = job.plan /\ JobWith(x, q).release = job.release
           /\ JobWith(x, q).changed = job.changed /\ JobWith(x, q).met = job.met
BY DEF JobType, JobWith

LEMMA OneMore ==
    ASSUME NEW S, NEW q \in Seq(S), NEW x \in S
    PROVE  /\ Append(q, x) \in Seq(S) /\ Len(Append(q, x)) = Len(q) + 1
           /\ DOMAIN Append(q, x) = 1 .. Len(q) + 1 /\ Append(q, x)[Len(q) + 1] = x
           /\ \A i \in 1 .. Len(q) : Append(q, x)[i] = q[i]
OBVIOUS

LEMMA JobNext ==
    ASSUME job \in JobType, NEW x \in Nat, NEW k, k = [job EXCEPT !.n = x]
    PROVE  /\ k \in JobType /\ k.n = x /\ k.plan = job.plan /\ k.release = job.release
           /\ k.prepared = job.prepared /\ k.changed = job.changed /\ k.met = job.met
           /\ k.dry = job.dry
BY DEF JobType

\* What Prepare writes: the file is remembered, and is prepared unless it is right.
LEMMA PrepareWrites ==
    ASSUME InstallInv, Prepare
    PROVE  /\ job.n \in 1 .. Len(job.plan) /\ Planned \in [file : File, bytes : Bytes]
           /\ disk[Planned.file] \in Content[Planned.file]
           /\ Len(saved.files) = job.n - 1
           /\ saved' = SavedWith(Append(saved.files, [file |-> Planned.file, was |-> disk[Planned.file]]))
           /\ saved' \in SavedType /\ saved'.keys = saved.keys
           /\ saved'.files = Append(saved.files, [file |-> Planned.file, was |-> disk[Planned.file]])
           /\ [file |-> Planned.file, was |-> disk[Planned.file]] \in [file : File, was : Bytes]
           /\ [file |-> Planned.file, bytes |-> Planned.bytes, original |-> disk[Planned.file]]
                \in [file : File, bytes : Bytes, original : Bytes]
           /\ job' \in JobType /\ job'.n = job.n + 1 /\ job'.plan = job.plan
           /\ job'.release = job.release /\ job'.changed = job.changed /\ job'.met = job.met
           /\ \/ disk[Planned.file] = Planned.bytes /\ job'.prepared = job.prepared
              \/ job'.prepared = Append(job.prepared, [file |-> Planned.file, bytes |-> Planned.bytes,
                                                       original |-> disk[Planned.file]])
<1> DEFINE s == [file |-> Planned.file, was |-> disk[Planned.file]]
           p == [file |-> Planned.file, bytes |-> Planned.bytes, original |-> disk[Planned.file]]
<1>1. /\ step = "preparing" /\ job.n <= Len(job.plan) /\ job \in JobType /\ saved \in SavedType
      /\ job.n \in 1 .. Len(job.plan) + 1 /\ Len(saved.files) = job.n - 1
      /\ Len(job.plan) \in Nat
  BY JobFacts DEF InstallInv, InstallTyped, RunBegun, Prepare, Seen, Running
<1>2. job.n \in 1 .. Len(job.plan) /\ job.n + 1 \in Nat
  BY <1>1
<1>3. Planned \in [file : File, bytes : Bytes]
  BY <1>2, JobFacts, ElementOfSeq DEF InstallInv, Planned
<1>4. disk[Planned.file] \in Content[Planned.file] /\ disk[Planned.file] \in Bytes
  BY <1>3 DEF InstallInv, InstallTyped, InstallTypeOK, Bytes
<1>5. s \in [file : File, was : Bytes] /\ p \in [file : File, bytes : Bytes, original : Bytes]
  BY <1>3, <1>4
<1>6. saved' = SavedWith(Append(saved.files, s))
  BY Zenon DEF Prepare, SavedWith
<1> HIDE DEF s, p
<1>7. Append(saved.files, s) \in Seq([file : File, was : Bytes])
  BY <1>5, JobFacts DEF InstallInv
<1>8. saved' \in SavedType /\ saved'.keys = saved.keys /\ saved'.files = Append(saved.files, s)
  BY <1>1, <1>6, <1>7, SavedWithIs
<1>9. CASE disk[Planned.file] = Planned.bytes
  <2>1. job' = JobWith(job.n + 1, job.prepared)
    BY <1>9, Zenon DEF Prepare, JobWith
  <2>2. /\ job' \in JobType /\ job'.n = job.n + 1 /\ job'.plan = job.plan
        /\ job'.release = job.release /\ job'.changed = job.changed /\ job'.met = job.met
        /\ job'.prepared = job.prepared
    BY <1>1, <1>2, <2>1, JobWithIs, JobFacts DEF InstallInv
  <2>3. QED  BY <1>1, <1>2, <1>3, <1>4, <1>5, <1>6, <1>8, <1>9, <2>2 DEF s, p
<1>10. CASE disk[Planned.file] # Planned.bytes
  <2>1. job' = JobWith(job.n + 1, Append(job.prepared, p))
    BY <1>10, Zenon DEF Prepare, JobWith, p
  <2>2. Append(job.prepared, p) \in Seq([file : File, bytes : Bytes, original : Bytes])
    BY <1>5, JobFacts DEF InstallInv
  <2>3. /\ job' \in JobType /\ job'.n = job.n + 1 /\ job'.plan = job.plan
        /\ job'.release = job.release /\ job'.changed = job.changed /\ job'.met = job.met
        /\ job'.prepared = Append(job.prepared, p)
    BY <1>1, <1>2, <2>1, <2>2, JobWithIs
  <2>4. QED  BY <1>1, <1>2, <1>3, <1>4, <1>5, <1>6, <1>8, <2>3 DEF s, p
<1>11. QED  BY <1>9, <1>10

LEMMA InstallPrepare ==
    ASSUME InstallInv, Prepare
    PROVE  InstallInv'
<1> DEFINE f == Planned.file
           now == disk[f]
           h == Host(job.release.version)
           P == Len(job.prepared)
<1> DEFINE s == [file |-> f, was |-> now]
           p == [file |-> f, bytes |-> Planned.bytes, original |-> now]
           more == now # Planned.bytes
<1>1. /\ step = "preparing" /\ step' = "preparing"
      /\ UNCHANGED <<disk, staged, backups, registry, edits, attempts>>
  BY DEF Prepare
<1>2. PlanIs(job.plan, job.release) /\ Applied = 0 /\ Applied' = 0
  BY <1>1 DEF InstallInv, RunBegun, Running, Applied
<1>3. /\ job.n \in 1 .. Len(job.plan) /\ job.n \in Nat /\ job.n - 1 \in Nat /\ Len(job.plan) \in Nat
      /\ DOMAIN job.plan = 1 .. Len(job.plan) /\ P \in Nat /\ P <= job.n - 1 /\ DOMAIN job.prepared = 1 .. P
      /\ Len(saved.files) = job.n - 1 /\ DOMAIN saved.files = 1 .. job.n - 1
      /\ Len(job.changed) \in Nat
  BY <1>1, PrepareWrites, JobFacts DEF InstallInv, RunBegun
<1>4. /\ f \in File /\ now \in Content[f] /\ Planned = job.plan[job.n]
      /\ Planned.bytes \in Content[f] /\ (f = Config => Planned.bytes.edit <= edits)
  BY <1>3, PrepareWrites DEF InstallInv, InstallTyped, EditsPast, Planned
<1>5. s.file = f /\ s.was = now /\ p.file = f /\ p.bytes = Planned.bytes /\ p.original = now
  OBVIOUS
<1>6. s \in [file : File, was : Bytes] /\ p \in [file : File, bytes : Bytes, original : Bytes]
  BY PrepareWrites, Zenon
<1>7. /\ saved' \in SavedType /\ saved'.keys = saved.keys /\ saved'.files = Append(saved.files, s)
  BY PrepareWrites, Zenon
<1>8. /\ job' \in JobType /\ job'.n = job.n + 1 /\ job'.plan = job.plan
      /\ job'.release = job.release /\ job'.changed = job.changed /\ job'.met = job.met
      /\ \/ now = Planned.bytes /\ job'.prepared = job.prepared
         \/ job'.prepared = Append(job.prepared, p)
  BY PrepareWrites, Zenon
<1> HIDE DEF s, p, f, now, h, P
<1>9. /\ Len(saved'.files) = job.n /\ DOMAIN saved'.files = 1 .. job.n
      /\ saved'.files[job.n] = s /\ \A i \in 1 .. job.n - 1 : saved'.files[i] = saved.files[i]
  BY <1>3, <1>6, <1>7, JobFacts, OneMore DEF InstallInv
<1>10. \/ now = Planned.bytes /\ job'.prepared = job.prepared /\ Len(job'.prepared) = P
       \/ /\ Len(job'.prepared) = P + 1 /\ DOMAIN job'.prepared = 1 .. P + 1
          /\ job'.prepared[P + 1] = p /\ \A i \in 1 .. P : job'.prepared[i] = job.prepared[i]
  <2>1. CASE now = Planned.bytes /\ job'.prepared = job.prepared
    BY <2>1 DEF P
  <2>2. CASE job'.prepared = Append(job.prepared, p)
    <3>1. job.prepared \in Seq([file : File, bytes : Bytes, original : Bytes])
      BY JobFacts DEF InstallInv
    <3>2. QED  BY <1>6, <2>2, <3>1, OneMore DEF P
  <2>3. QED  BY <1>8, <2>1, <2>2
<1>11. f = Config => now \in Settings /\ now.edit <= edits
  BY DEF InstallInv, EditsPast, now
<1>12. \A m \in 1 .. P : job.prepared[m].file # f
  <2>1. TAKE m \in 1 .. P
  <2>2. PICK i \in 1 .. Len(saved.files) : job.plan[i].file = job.prepared[m].file /\ i \in 1 .. Len(job.plan)
    BY <1>1, PreparedSeen DEF Running, P
  <2>3. i # job.n
    BY <1>3, <2>2
  <2>4. job.plan[job.n].file = f
    BY <1>4 DEF f
  <2>5. QED  BY <1>2, <1>3, <2>2, <2>3, <2>4 DEF PlanIs
<1>13. \A i \in DOMAIN saved'.files : i = job.n \/ (i \in 1 .. job.n - 1 /\ i \in DOMAIN saved.files)
  BY <1>3, <1>9
<1>14. \A m \in DOMAIN job'.prepared :
          \/ (m \in 1 .. P /\ m \in DOMAIN job.prepared /\ job'.prepared[m] = job.prepared[m])
          \/ (m = P + 1 /\ job'.prepared[m] = p)
  BY <1>3, <1>10
<1>15. \A m \in DOMAIN job.prepared : m \in DOMAIN job'.prepared /\ job'.prepared[m] = job.prepared[m]
  BY <1>3, <1>10
<1>16. InstallTyped'
  <2>1. Len(job'.prepared) <= Len(job'.plan)
    BY <1>3, <1>8, <1>10
  <2>2. \A i \in DOMAIN job'.prepared : /\ job'.prepared[i].bytes \in Content[job'.prepared[i].file]
                                        /\ job'.prepared[i].original \in Content[job'.prepared[i].file]
    BY <1>4, <1>5, <1>14 DEF InstallInv, InstallTyped
  <2>3. \A i \in DOMAIN saved'.files : saved'.files[i].was \in Content[saved'.files[i].file]
    BY <1>4, <1>5, <1>9, <1>13 DEF InstallInv, InstallTyped
  <2>4. QED  BY <1>1, <1>7, <1>8, <2>1, <2>2, <2>3 DEF InstallInv, InstallTyped, InstallTypeOK
<1>17. EditsPast' /\ NamesWhatIsThere'
  <2>1. \A i \in DOMAIN saved'.files : saved'.files[i].file = Config =>
          saved'.files[i].was \in Settings /\ saved'.files[i].was.edit <= edits
    BY <1>5, <1>9, <1>11, <1>13 DEF InstallInv, EditsPast
  <2>2. QED  BY <1>1, <1>8, <2>1 DEF InstallInv, EditsPast, NamesWhatIsThere
<1>18. RunBegun'
  <2>1. job'.n \in 1 .. Len(job.plan) + 1 /\ Len(job'.prepared) <= job'.n - 1
    BY <1>3, <1>8, <1>10
  <2>2. saved.keys = <<>> /\ job.changed = <<>>
    BY <1>1 DEF InstallInv, RunBegun
  <2>3. QED  BY <1>1, <1>2, <1>7, <1>8, <2>1, <2>2 DEF RunBegun
<1>19. Seen'
  <2>1. Len(saved'.files) = job'.n - 1
    BY <1>3, <1>8, <1>9
  <2>2. \A i \in DOMAIN saved'.files :
          /\ saved'.files[i].file = job.plan[i].file
          /\ \/ saved'.files[i].was = job.plan[i].bytes
             \/ \E m \in DOMAIN job'.prepared : job'.prepared[m].file = job.plan[i].file
    <3>1. TAKE i \in DOMAIN saved'.files
    <3>2. CASE i = job.n
      <4>1. job.plan[i].file = f /\ saved'.files[i].file = f /\ saved'.files[i].was = now
        BY <1>4, <1>5, <1>9, <3>2 DEF f
      <4>2. now = job.plan[i].bytes \/ (P + 1 \in DOMAIN job'.prepared /\ job'.prepared[P + 1].file = f)
        BY <1>3, <1>4, <1>5, <1>10, <3>2
      <4>3. QED  BY <4>1, <4>2
    <3>3. CASE i \in 1 .. job.n - 1 /\ i \in DOMAIN saved.files
      <4>1. /\ saved.files[i].file = job.plan[i].file
            /\ \/ saved.files[i].was = job.plan[i].bytes
               \/ \E m \in DOMAIN job.prepared : job.prepared[m].file = job.plan[i].file
        BY <1>1, <3>3 DEF InstallInv, Seen, Running
      <4>2. saved'.files[i] = saved.files[i]
        BY <1>9, <3>3
      <4>3. QED  BY <1>15, <4>1, <4>2
    <3>4. QED  BY <1>13, <3>2, <3>3
  <2>3. \A m \in DOMAIN job'.prepared : \E i \in DOMAIN saved'.files :
          job'.prepared[m] = [file |-> job.plan[i].file, bytes |-> job.plan[i].bytes,
                              original |-> saved'.files[i].was]
    <3>1. TAKE m \in DOMAIN job'.prepared
    <3>2. CASE m \in DOMAIN job.prepared /\ job'.prepared[m] = job.prepared[m]
      <4>1. PICK i \in DOMAIN saved.files :
               job.prepared[m] = [file |-> job.plan[i].file, bytes |-> job.plan[i].bytes,
                                  original |-> saved.files[i].was]
        BY <1>1, <3>2 DEF InstallInv, Seen, Running
      <4>2. i \in DOMAIN saved'.files /\ saved'.files[i] = saved.files[i]
        BY <1>3, <1>9, <4>1
      <4>3. QED  BY <3>2, <4>1, <4>2
    <3>3. CASE job'.prepared[m] = p
      <4>1. job.n \in DOMAIN saved'.files /\ saved'.files[job.n].was = now
        BY <1>3, <1>5, <1>9
      <4>2. p = [file |-> job.plan[job.n].file, bytes |-> job.plan[job.n].bytes,
                 original |-> saved'.files[job.n].was]
        BY <1>4, <4>1 DEF p, f
      <4>3. QED  BY <3>3, <4>1, <4>2
    <3>4. QED  BY <1>14, <3>2, <3>3
  <2>4. \A l, m \in DOMAIN job'.prepared : l # m => job'.prepared[l].file # job'.prepared[m].file
    <3>1. \A l, m \in DOMAIN job.prepared : l # m => job.prepared[l].file # job.prepared[m].file
      BY <1>1 DEF InstallInv, Seen, Running
    <3>2. QED  BY <1>5, <1>12, <1>14, <3>1
  <2>5. \A m \in DOMAIN job'.prepared : job'.prepared[m].file = h => m = 1
    <3>1. f = h => P = 0
      <4>1. job.plan[1].file = h /\ job.plan[job.n].file = f /\ 1 \in DOMAIN job.plan
        BY <1>2, <1>3, <1>4 DEF PlanIs, h, f
      <4>2. f = h => job.n = 1
        BY <1>2, <1>3, <4>1 DEF PlanIs
      <4>3. QED  BY <1>3, <4>2
    <3>2. \A m \in 1 .. P : job.prepared[m].file = h => m = 1
      BY <1>1, <1>3 DEF InstallInv, Seen, Running, h
    <3>3. QED  BY <1>3, <1>5, <1>14, <3>1, <3>2
  <2>6. QED  BY <1>1, <1>8, <2>1, <2>2, <2>3, <2>4, <2>5 DEF Seen, h
<1>20. DiskFollows'
  <2>1. \A m \in DOMAIN job'.prepared : LET q == job'.prepared[m] IN
           disk[q.file] = q.original \/ (q.file = Config /\ edits > q.original.edit)
    <3>1. \A m \in DOMAIN job.prepared : LET q == job.prepared[m] IN
           disk[q.file] = q.original \/ (q.file = Config /\ edits > q.original.edit)
      BY <1>1, <1>2, <1>3 DEF InstallInv, DiskFollows, Running, IsOrEdited
    <3>2. disk[p.file] = p.original
      BY <1>5 DEF now
    <3>3. QED  BY <1>14, <3>1, <3>2
  <2>2. \A i \in DOMAIN saved'.files : LET t == saved'.files[i] IN
           \/ disk[t.file] = t.was \/ (t.file = Config /\ edits > t.was.edit)
           \/ \E m \in DOMAIN job'.prepared : job'.prepared[m].file = t.file
    <3>1. \A i \in DOMAIN saved.files : LET t == saved.files[i] IN
           \/ disk[t.file] = t.was \/ (t.file = Config /\ edits > t.was.edit)
           \/ \E m \in DOMAIN job.prepared : job.prepared[m].file = t.file
      BY <1>1 DEF InstallInv, DiskFollows, Running, IsOrEdited
    <3>2. disk[s.file] = s.was
      BY <1>5 DEF now
    <3>3. QED  BY <1>9, <1>13, <1>15, <3>1, <3>2
  <2>3. \A m \in DOMAIN job'.prepared : ~(m <= 0)
    BY <1>3, <1>14
  <2>4. QED  BY <1>1, <1>2, <2>1, <2>2, <2>3 DEF DiskFollows, IsOrEdited
<1>21. FoundNames'
  <2>1. job.n > 1 => disk[h] = saved.files[1].was
    <3>1. job.n > 1 => Len(saved.files) >= 1
      BY <1>3
    <3>2. QED  BY <1>1, <1>2, <3>1, HostFound DEF Running, h
  <2>2. job.n = 1 => f = h
    BY <1>2, <1>4 DEF PlanIs, h, f
  <2>3. f \in {Manifest, Receipt(job.release.version)} => saved'.files[1].was = disk[h]
    <3>1. f \in {Manifest, Receipt(job.release.version)} => job.n > 1
      BY <1>3, <2>2, FilesDiffer DEF h
    <3>2. job.n > 1 => 1 \in 1 .. job.n - 1
      BY <1>3
    <3>3. QED  BY <1>9, <2>1, <3>1, <3>2
  <2>4. job.release.version \in Versions
    BY <1>1, VersionOf DEF InstallInv, InstallTyped
  <2>5. f = Receipt(job.release.version) /\ now # Absent => saved'.files[1].was # Absent
    BY <2>3, <2>4 DEF InstallInv, NamesWhatIsThere, now, h
  <2>6. f = Manifest /\ now # Absent =>
          IF now.names = job.release.version THEN saved'.files[1].was # Absent
                                             ELSE disk[Host(now.names)] # Absent
    BY <2>3 DEF InstallInv, NamesWhatIsThere, now, h
  <2>7. \A i \in DOMAIN saved.files : LET t == saved.files[i] IN
      /\ t.file = Receipt(job.release.version) /\ t.was # Absent => saved.files[1].was # Absent
      /\ t.file = Manifest /\ t.was # Absent =>
            IF t.was.names = job.release.version THEN saved.files[1].was # Absent
                                                 ELSE disk[Host(t.was.names)] # Absent
    BY <1>1 DEF InstallInv, FoundNames, Running
  <2>8. \A i \in DOMAIN saved.files : saved'.files[1] = saved.files[1]
    <3>1. \A i \in DOMAIN saved.files : 1 \in 1 .. job.n - 1
      BY <1>3
    <3>2. QED  BY <1>9, <3>1
  <2>9. \A i \in DOMAIN saved'.files : LET t == saved'.files[i] IN
      /\ t.file = Receipt(job.release.version) /\ t.was # Absent => saved'.files[1].was # Absent
      /\ t.file = Manifest /\ t.was # Absent =>
            IF t.was.names = job.release.version THEN saved'.files[1].was # Absent
                                                 ELSE disk[Host(t.was.names)] # Absent
    BY <1>5, <1>9, <1>13, <2>5, <2>6, <2>7, <2>8
  <2>10. QED  BY <1>1, <1>8, <2>9 DEF FoundNames
<1>22. StagedOnce' /\ KeysFollow' /\ KeysBegun' /\ FaultsMet'
  BY <1>1, <1>8 DEF InstallInv, StagedOnce, KeysFollow, KeysBegun, FaultsMet, Applying
<1>23. FailureLeavesAsFound' /\ FailsOnlyOnFault'
  BY <1>1 DEF FailureLeavesAsFound, FailsOnlyOnFault
<1>24. QED  BY <1>16, <1>17, <1>18, <1>19, <1>20, <1>21, <1>22, <1>23 DEF InstallInv

--------------------------------
(* applyTransaction *)

\* With no file applied, the disk is as it was found.
LEMMA Unapplied ==
    ASSUME InstallInv, step \in Running, Applied = 0, NEW i \in DOMAIN saved.files
    PROVE  \/ disk[saved.files[i].file] = saved.files[i].was
           \/ saved.files[i].file = Config /\ edits > saved.files[i].was.edit
<1>1. CASE \E m \in DOMAIN job.prepared : job.prepared[m].file = saved.files[i].file
  <2>1. PICK m \in 1 .. Len(job.prepared) : job.prepared[m].file = saved.files[i].file
    BY <1>1, JobFacts DEF InstallInv
  <2>2. PICK j \in 1 .. Len(saved.files) :
             /\ job.plan[j].file = job.prepared[m].file /\ j \in 1 .. Len(job.plan)
             /\ saved.files[j].was = job.prepared[m].original
             /\ saved.files[j].file = job.prepared[m].file
    BY PreparedSeen
  <2>3. IsOrEdited(job.prepared[m].file, job.prepared[m].original, job.prepared[m].original)
    <3>1. ~(m <= 0)
      BY <2>1
    <3>2. QED  BY <3>1, PreparedSeen
  <2>4. i = j
    <3>1. DOMAIN job.plan = 1 .. Len(job.plan) /\ DOMAIN saved.files = 1 .. Len(saved.files)
      BY JobFacts DEF InstallInv
    <3>2. Len(saved.files) <= Len(job.plan) /\ Len(job.plan) \in Nat /\ Len(saved.files) \in Nat
      BY JobFacts DEF InstallInv, Seen, RunBegun
    <3>3. i \in DOMAIN job.plan /\ j \in DOMAIN job.plan
      BY <2>2, <3>1, <3>2
    <3>4. job.plan[i].file = saved.files[i].file
      BY DEF InstallInv, Seen
    <3>5. QED  BY <2>1, <2>2, <3>3, <3>4 DEF InstallInv, RunBegun, PlanIs
  <2>5. QED  BY <2>1, <2>2, <2>3, <2>4 DEF IsOrEdited
<1>2. CASE ~\E m \in DOMAIN job.prepared : job.prepared[m].file = saved.files[i].file
  BY <1>2 DEF InstallInv, DiskFollows, IsOrEdited
<1>3. QED  BY <1>1, <1>2

\* Once the host is applied, or if it need not be, the host of the release is there.
LEMMA HostThere ==
    ASSUME InstallInv, step \in Applying,
           Len(job.prepared) >= 1 /\ job.prepared[1].file = Host(job.release.version) => Applied >= 1
    PROVE  disk[Host(job.release.version)] = job.release
<1> DEFINE h == Host(job.release.version)
<1>1. /\ DOMAIN job.prepared = 1 .. Len(job.prepared) /\ DOMAIN saved.files = 1 .. Len(saved.files)
      /\ DOMAIN job.plan = 1 .. Len(job.plan) /\ Len(job.plan) \in Nat /\ Len(job.prepared) \in Nat
  BY JobFacts DEF InstallInv
<1>2. PlanIs(job.plan, job.release) /\ Seen /\ DiskFollows /\ step \in Running /\ step # "preparing"
  BY DEF InstallInv, RunBegun, Running, Applying
<1>3. job.plan[1].file = h /\ job.plan[1].bytes = job.release /\ Len(saved.files) = Len(job.plan)
      /\ job.plan # <<>>
  BY <1>2 DEF PlanIs, Seen
<1>4. 1 \in DOMAIN job.plan
  BY <1>1, <1>3, JobFacts, EmptySeq DEF InstallInv
<1>5. 1 \in DOMAIN saved.files /\ saved.files[1].file = h
  BY <1>1, <1>2, <1>3, <1>4 DEF Seen
<1>6. CASE \E m \in DOMAIN job.prepared : job.prepared[m].file = h
  <2>1. PICK m \in 1 .. Len(job.prepared) : job.prepared[m].file = h
    BY <1>1, <1>6
  <2>2. m = 1 /\ Len(job.prepared) >= 1
    BY <1>1, <1>2, <2>1 DEF Seen
  <2>3. PICK i \in 1 .. Len(saved.files) :
             /\ job.plan[i].file = h /\ i \in 1 .. Len(job.plan)
             /\ job.plan[i].bytes = job.prepared[m].bytes
    BY <1>2, <2>1, PreparedSeen
  <2>4. i = 1
    BY <1>1, <1>2, <1>3, <1>4, <2>3 DEF PlanIs
  <2>5. disk[h] = IF m <= Applied THEN job.prepared[m].bytes ELSE job.prepared[m].original
    BY <1>2, <2>1, PreparedSeen, FilesDiffer DEF IsOrEdited
  <2>6. m <= Applied
    BY <2>1, <2>2
  <2>7. QED  BY <1>3, <2>3, <2>4, <2>5, <2>6
<1>7. CASE ~\E m \in DOMAIN job.prepared : job.prepared[m].file = h
  <2>1. saved.files[1].was = job.release
    BY <1>2, <1>3, <1>4, <1>5, <1>7 DEF Seen
  <2>2. IsOrEdited(h, job.release, job.release)
    BY <1>2, <1>5, <1>7, <2>1 DEF DiskFollows
  <2>3. QED  BY <2>2, FilesDiffer DEF IsOrEdited
<1>8. QED  BY <1>6, <1>7

LEMMA KeysTyped ==
    ASSUME InstallInv
    PROVE  /\ registry \in [1 .. Keys -> KeyStates] /\ Len(job.changed) <= Keys
           /\ saved \in SavedType /\ job \in JobType
           /\ \A i, l \in DOMAIN job.changed : i # l => job.changed[i].key # job.changed[l].key
           /\ staged \subseteq [file : File, attempt : 0 .. MaxAttempts]
           /\ \A b \in backups : b.file \in File /\ b.holds \in {Partial} \cup Content[b.file]
           /\ \A f \in File : disk[f] \in Content[f]
           /\ attempts \in 0 .. MaxAttempts
BY DEF InstallInv, InstallTyped, InstallTypeOK, KeyStates, KeysFollow

LEMMA InstallPrepared ==
    ASSUME InstallInv, Prepared
    PROVE  InstallInv'
<1>1. /\ step = "preparing" /\ job.n > Len(job.plan) /\ job' = [job EXCEPT !.n = 1]
      /\ saved' = [saved EXCEPT !.keys = registry]
      /\ step' = IF job.dry THEN "done" ELSE IF job.prepared = <<>> THEN AfterApply ELSE "staging"
      /\ UNCHANGED <<disk, staged, backups, registry, edits, attempts>>
  BY DEF Prepared
<1>2. /\ job' \in JobType /\ job'.n = 1 /\ job'.plan = job.plan /\ job'.release = job.release
      /\ job'.prepared = job.prepared /\ job'.changed = job.changed /\ job'.met = job.met
  BY <1>1, KeysTyped, JobNext
<1>3. saved' \in SavedType /\ saved'.files = saved.files /\ saved'.keys = registry
  BY <1>1, KeysTyped DEF SavedType
<1>4. job.changed = <<>> /\ job.n = Len(job.plan) + 1 /\ Len(job.prepared) \in Nat
      /\ Len(job.changed) = 0 /\ DOMAIN job.changed = {} /\ job.prepared \in Seq([file : File, bytes : Bytes, original : Bytes])
  BY <1>1, JobFacts, EmptySeq DEF InstallInv, RunBegun
<1>5. CASE step' = "done"
  <2>1. FailureLeavesAsFound' /\ FailsOnlyOnFault'
    BY <1>5 DEF FailureLeavesAsFound, FailsOnlyOnFault
  <2>2. QED  BY <1>1, <1>2, <1>3, <1>4, <1>5, <2>1, KeysTyped, RunEnds, JobFacts DEF InstallInv
<1>6. CASE step' = "staging" \/ (step' = "registering" /\ job.prepared = <<>> /\ Keys # 0)
  <2>1. Applied = 0 /\ Applied' = 0
    BY <1>1, <1>2, <1>4, <1>6, EmptySeq DEF Applied
  <2>2. /\ InstallTyped' /\ EditsPast' /\ NamesWhatIsThere' /\ Seen' /\ DiskFollows'
        /\ FoundNames' /\ PlanIs(job.plan, job.release)' /\ FailureLeavesAsFound'
        /\ FailsOnlyOnFault'
    BY <1>1, <1>2, <1>3, <1>4, <1>6, <2>1, KeysTyped, ApplyingKept DEF Running, Applying
  <2>3. RunBegun'
    <3>1. step' = "staging" => job.prepared # <<>>
      BY <1>1 DEF AfterApply
    <3>2. step' = "staging" => 1 \in 1 .. Len(job.prepared)
      BY <1>4, <3>1, EmptySeq
    <3>3. QED  BY <1>2, <1>4, <1>6, <2>2, <3>2 DEF RunBegun
  <2>4. StagedOnce'
    BY <1>1, <1>6 DEF InstallInv, StagedOnce
  <2>5. KeysFollow' /\ KeysBegun' /\ FaultsMet'
    <3>1. KeysFollow'
      BY <1>1, <1>2, <1>3, <1>4 DEF KeysFollow
    <3>2. KeysBegun'
      BY <1>1, <1>2, <1>3, <1>4, <1>6, KeysTyped, InstallConstants DEF KeysBegun, Applying
    <3>3. FaultsMet'
      BY <1>6 DEF FaultsMet
    <3>4. QED  BY <3>1, <3>2, <3>3
  <2>6. QED  BY <2>2, <2>3, <2>4, <2>5 DEF InstallInv
<1>7. QED  BY <1>1, <1>5, <1>6 DEF AfterApply

\* The file that the run is at.
LEMMA NowFacts ==
    ASSUME InstallInv, step \in {"staging", "backing", "copying", "renaming", "syncing"}
    PROVE  /\ job.n \in 1 .. Len(job.prepared) /\ job.n \in Nat /\ Len(job.prepared) \in Nat
           /\ job.changed = <<>> /\ Now = job.prepared[job.n]
           /\ Now.file \in File /\ Now.bytes \in Content[Now.file] /\ Now.original \in Content[Now.file]
           /\ step \in Running /\ step \in Applying /\ saved.keys = registry
           /\ PlanIs(job.plan, job.release)
<1>1. job.n \in 1 .. Len(job.prepared) /\ job.changed = <<>> /\ saved.keys = registry
      /\ step \in Running /\ step \in Applying /\ PlanIs(job.plan, job.release)
  BY DEF InstallInv, RunBegun, KeysBegun, Running, Applying
<1>2. job.n \in Nat /\ Len(job.prepared) \in Nat
  BY JobFacts DEF InstallInv
<1>3. QED  BY <1>1, <1>2, PreparedFacts DEF Now, InstallInv

MetFrom(x) == [Met(job) EXCEPT !.n = x]
LEMMA MetFromIs ==
    ASSUME job \in JobType, NEW x \in Nat
    PROVE  /\ MetFrom(x) \in JobType /\ MetFrom(x).n = x /\ MetFrom(x).met = job.met + 1
           /\ MetFrom(x).prepared = job.prepared /\ MetFrom(x).plan = job.plan
           /\ MetFrom(x).release = job.release /\ MetFrom(x).changed = job.changed
<1>1. /\ Met(job) \in JobType /\ Met(job).met = job.met + 1 /\ Met(job).release = job.release
      /\ Met(job).plan = job.plan /\ Met(job).prepared = job.prepared /\ Met(job).changed = job.changed
  BY JobMet
<1>2. QED  BY <1>1 DEF MetFrom, JobType

\* The catch block is entered with the files applied so far.
LEMMA UndoBegins ==
    ASSUME InstallInv, step \in {"backing", "copying", "renaming", "syncing"}, Undo(Applied),
           UNCHANGED <<disk, staged, backups, registry, saved, edits, attempts>>
    PROVE  InstallInv'
<1>1. /\ job.n \in 1 .. Len(job.prepared) /\ job.n \in Nat /\ Len(job.prepared) \in Nat
      /\ job.changed = <<>> /\ step \in Running /\ saved.keys = registry
  BY NowFacts
<1>2. Applied \in 0 .. Len(job.prepared) /\ Applied \in Nat
  BY <1>1 DEF Applied
<1>3. job' = MetFrom(Applied) /\ step' = "undoing" /\ job.met \in Nat
  BY JobFacts DEF Undo, MetFrom, InstallInv
<1>4. /\ job' \in JobType /\ job'.n = Applied /\ job'.met = job.met + 1 /\ job'.prepared = job.prepared
      /\ job'.plan = job.plan /\ job'.release = job.release /\ job'.changed = job.changed
  BY <1>2, <1>3, MetFromIs, KeysTyped
<1>5. Applied' = Applied
  BY <1>3, <1>4 DEF Applied
<1>6. /\ InstallTyped' /\ EditsPast' /\ NamesWhatIsThere' /\ Seen' /\ DiskFollows'
      /\ FoundNames' /\ PlanIs(job.plan, job.release)' /\ FailureLeavesAsFound'
      /\ FailsOnlyOnFault'
  BY <1>1, <1>3, <1>4, <1>5, KeysTyped, ApplyingKept DEF Applying
<1>7. RunBegun'
  BY <1>1, <1>2, <1>3, <1>4, <1>6 DEF RunBegun
<1>8. StagedOnce'
  BY <1>3 DEF InstallInv, StagedOnce
<1>9. KeysFollow' /\ KeysBegun' /\ FaultsMet'
  BY <1>1, <1>3, <1>4, KeysTyped DEF InstallInv, KeysFollow, KeysBegun, FaultsMet, Applying
<1>10. QED  BY <1>6, <1>7, <1>8, <1>9 DEF InstallInv

LEMMA InstallStage ==
    ASSUME InstallInv, Stage
    PROVE  InstallInv'
<1> DEFINE name == StageName(Now.file)
           last == job.n = Len(job.prepared)
<1>1. /\ step = "staging" /\ UNCHANGED <<disk, backups, registry, saved, edits, attempts>>
      /\ \/ /\ name \notin staged /\ staged' = staged \cup {name}
            /\ step' = IF last THEN "backing" ELSE "staging"
            /\ job' = [job EXCEPT !.n = IF last THEN 1 ELSE @ + 1]
         \/ name \in staged
         \/ job' = Met(job) /\ step' = "failed" /\ UNCHANGED staged
  BY DEF Stage
<1>2. /\ job.n \in 1 .. Len(job.prepared) /\ job.n \in Nat /\ Len(job.prepared) \in Nat
      /\ job.changed = <<>> /\ Now = job.prepared[job.n] /\ Now.file \in File
      /\ step \in Running /\ saved.keys = registry /\ job.met \in Nat
      /\ DOMAIN job.prepared = 1 .. Len(job.prepared)
  BY <1>1, NowFacts, JobFacts DEF InstallInv
<1>3. name.file = Now.file /\ name.attempt = attempts /\ name \in [file : File, attempt : 0 .. MaxAttempts]
  BY <1>2, KeysTyped DEF StageName
<1> HIDE DEF name
<1>4. name \notin staged
  <2>1. SUFFICES ASSUME name \in staged  PROVE FALSE
    OBVIOUS
  <2>2. PICK m \in 1 .. job.n - 1 : job.prepared[m].file = Now.file
    BY <1>1, <1>3, <2>1 DEF InstallInv, StagedOnce
  <2>3. m \in DOMAIN job.prepared /\ job.n \in DOMAIN job.prepared /\ m # job.n
    BY <1>2, <2>2
  <2>4. QED  BY <1>2, <2>2, <2>3 DEF InstallInv, Seen
<1>5. CASE job' = Met(job) /\ step' = "failed" /\ UNCHANGED staged
  <2>1. /\ job' \in JobType /\ job'.met = job.met + 1 /\ job'.release = job.release
        /\ job'.plan = job.plan /\ job'.prepared = job.prepared /\ job'.changed = job.changed
    BY <1>5, KeysTyped, JobMet
  <2>2. FailureLeavesAsFound'
    BY <1>1, <1>2, Unapplied DEF FailureLeavesAsFound, Applied
  <2>3. FailsOnlyOnFault'
    BY <1>2, <1>5, <2>1 DEF FailsOnlyOnFault
  <2>4. QED  BY <1>1, <1>2, <1>5, <2>1, <2>2, <2>3, KeysTyped, JobFacts, RunEnds DEF InstallInv
<1>6. CASE /\ staged' = staged \cup {name} /\ step' = IF last THEN "backing" ELSE "staging"
           /\ job' = [job EXCEPT !.n = IF last THEN 1 ELSE @ + 1]
  <2>1. PICK x \in Nat : x = IF last THEN 1 ELSE job.n + 1
    BY <1>2
  <2>2. x \in 1 .. Len(job.prepared) /\ (~last => x = job.n + 1) /\ (last => x = 1)
    BY <1>2, <2>1
  <2>3. job' = [job EXCEPT !.n = x]
    BY <1>6, <2>1
  <2>4. /\ job' \in JobType /\ job'.n = x /\ job'.plan = job.plan /\ job'.release = job.release
        /\ job'.prepared = job.prepared /\ job'.changed = job.changed /\ job'.met = job.met
    BY <2>3, KeysTyped, JobNext
  <2>5. Applied = 0 /\ Applied' = 0
    BY <1>1, <1>6, <2>2, <2>4 DEF Applied
  <2>6. staged' \subseteq [file : File, attempt : 0 .. MaxAttempts]
    BY <1>3, <1>6, KeysTyped
  <2>7. /\ InstallTyped' /\ EditsPast' /\ NamesWhatIsThere' /\ Seen' /\ DiskFollows'
        /\ FoundNames' /\ PlanIs(job.plan, job.release)' /\ FailureLeavesAsFound'
        /\ FailsOnlyOnFault'
    BY <1>1, <1>2, <1>6, <2>4, <2>5, <2>6, KeysTyped, ApplyingKept DEF Applying
  <2>8. RunBegun'
    BY <1>2, <1>6, <2>2, <2>4, <2>7 DEF RunBegun
  <2>9. StagedOnce'
    <3>1. \A s \in staged : s.attempt <= attempts /\ (s.attempt = attempts =>
             \E m \in 1 .. job.n - 1 : job.prepared[m].file = s.file)
      BY <1>1 DEF InstallInv, StagedOnce
    <3>2. attempts \in Nat
      BY KeysTyped
    <3>3. ~last => /\ \A m \in 1 .. job.n - 1 : m \in 1 .. x - 1
                   /\ job.n \in 1 .. x - 1
      BY <1>2, <2>2
    <3>4. QED  BY <1>1, <1>2, <1>3, <1>6, <2>4, <3>1, <3>2, <3>3 DEF StagedOnce
  <2>10. KeysFollow' /\ KeysBegun' /\ FaultsMet'
    BY <1>1, <1>2, <1>6, <2>4, KeysTyped DEF InstallInv, KeysFollow, KeysBegun, FaultsMet, Applying
  <2>11. QED  BY <2>7, <2>8, <2>9, <2>10 DEF InstallInv
<1>7. QED  BY <1>1, <1>4, <1>5, <1>6

\* To the next step for the same file, or with the next file.
LEMMA MovesOn ==
    ASSUME InstallInv, step \in {"backing", "copying", "renaming", "syncing"},
           step' \in {"backing", "copying", "renaming", "syncing"},
           job' \in JobType, job'.plan = job.plan, job'.prepared = job.prepared,
           job'.release = job.release, job'.changed = job.changed, job'.met = job.met,
           job'.n \in 1 .. Len(job.prepared), Applied' = Applied,
           UNCHANGED <<disk, staged, registry, saved, edits, attempts>>,
           \A b \in backups' : b.file \in File /\ b.holds \in {Partial} \cup Content[b.file]
    PROVE  InstallInv'
<1>1. /\ job.changed = <<>> /\ step \in Running /\ saved.keys = registry
  BY NowFacts
<1>2. /\ InstallTyped' /\ EditsPast' /\ NamesWhatIsThere' /\ Seen' /\ DiskFollows'
      /\ FoundNames' /\ PlanIs(job.plan, job.release)' /\ FailureLeavesAsFound'
      /\ FailsOnlyOnFault'
  BY <1>1, KeysTyped, ApplyingKept DEF Applying
<1>3. RunBegun'
  BY <1>1, <1>2 DEF RunBegun
<1>4. StagedOnce'
  BY DEF InstallInv, StagedOnce
<1>5. KeysFollow' /\ KeysBegun' /\ FaultsMet'
  BY <1>1, KeysTyped DEF InstallInv, KeysFollow, KeysBegun, FaultsMet, Applying
<1>6. QED  BY <1>2, <1>3, <1>4, <1>5 DEF InstallInv

LEMMA InstallBackup ==
    ASSUME InstallInv, Backup
    PROVE  InstallInv'
<1> DEFINE b0 == [file |-> Now.file, of |-> Now.original, holds |-> Partial]
<1>1. /\ step = "backing" /\ UNCHANGED <<disk, staged, registry, saved, edits, attempts>>
      /\ \/ step' \in {"renaming", "copying"} /\ UNCHANGED job
            /\ (backups' = backups \/ backups' = backups \cup {b0})
         \/ Undo(job.n - 1) /\ UNCHANGED backups
  BY DEF Backup
<1>2. /\ job.n \in 1 .. Len(job.prepared) /\ Now.file \in File /\ job \in JobType
      /\ \A b \in backups : b.file \in File /\ b.holds \in {Partial} \cup Content[b.file]
  BY <1>1, NowFacts, KeysTyped
<1>3. b0.file \in File /\ b0.holds = Partial
  BY <1>2
<1> HIDE DEF b0
<1>4. Applied = job.n - 1
  BY <1>1 DEF Applied
<1>5. CASE Undo(job.n - 1) /\ UNCHANGED backups
  BY <1>1, <1>4, <1>5, UndoBegins
<1>6. CASE step' \in {"renaming", "copying"} /\ UNCHANGED job
           /\ (backups' = backups \/ backups' = backups \cup {b0})
  <2>1. Applied' = Applied
    BY <1>4, <1>6 DEF Applied
  <2>2. \A b \in backups' : b.file \in File /\ b.holds \in {Partial} \cup Content[b.file]
    BY <1>2, <1>3, <1>6
  <2>3. QED  BY <1>1, <1>2, <1>6, <2>1, <2>2, MovesOn
<1>7. QED  BY <1>1, <1>5, <1>6

LEMMA InstallCopied ==
    ASSUME InstallInv, Copied
    PROVE  InstallInv'
<1> DEFINE b0 == [file |-> Now.file, of |-> Now.original, holds |-> Partial]
           b1 == [file |-> Now.file, of |-> Now.original, holds |-> disk[Now.file]]
<1>1. /\ step = "copying" /\ UNCHANGED <<disk, staged, registry, saved, edits, attempts>>
      /\ \/ step' = "renaming" /\ UNCHANGED job /\ backups' = (backups \ {b0}) \cup {b1}
         \/ Undo(job.n - 1) /\ UNCHANGED backups
  BY DEF Copied
<1>2. /\ job.n \in 1 .. Len(job.prepared) /\ Now.file \in File /\ job \in JobType
      /\ \A b \in backups : b.file \in File /\ b.holds \in {Partial} \cup Content[b.file]
      /\ disk[Now.file] \in Content[Now.file]
  BY <1>1, NowFacts, KeysTyped
<1>3. b1.file \in File /\ b1.holds \in Content[b1.file]
  BY <1>2
<1> HIDE DEF b0, b1
<1>4. Applied = job.n - 1
  BY <1>1 DEF Applied
<1>5. CASE Undo(job.n - 1) /\ UNCHANGED backups
  BY <1>1, <1>4, <1>5, UndoBegins
<1>6. CASE step' = "renaming" /\ UNCHANGED job /\ backups' = (backups \ {b0}) \cup {b1}
  <2>1. Applied' = Applied
    BY <1>4, <1>6 DEF Applied
  <2>2. \A b \in backups' : b.file \in File /\ b.holds \in {Partial} \cup Content[b.file]
    BY <1>2, <1>3, <1>6
  <2>3. QED  BY <1>1, <1>2, <1>6, <2>1, <2>2, MovesOn
<1>7. QED  BY <1>1, <1>5, <1>6

LEMMA InstallSynced ==
    ASSUME InstallInv, Synced
    PROVE  InstallInv'
<1> DEFINE last == job.n = Len(job.prepared)
<1>1. /\ step = "syncing" /\ UNCHANGED <<disk, staged, backups, registry, saved, edits, attempts>>
      /\ \/ step' = (IF last THEN AfterApply ELSE "backing")
            /\ job' = [job EXCEPT !.n = IF last THEN 1 ELSE @ + 1]
         \/ Undo(job.n)
  BY DEF Synced, AppliedWhenSyncFails
<1>2. /\ job.n \in 1 .. Len(job.prepared) /\ job.n \in Nat /\ Len(job.prepared) \in Nat /\ job \in JobType
      /\ job.changed = <<>> /\ step \in Running /\ saved.keys = registry
      /\ \A b \in backups : b.file \in File /\ b.holds \in {Partial} \cup Content[b.file]
  BY <1>1, NowFacts, KeysTyped
<1>3. Applied = job.n
  BY <1>1 DEF Applied
<1>4. CASE Undo(job.n)
  BY <1>1, <1>3, <1>4, UndoBegins
<1>5. ASSUME ~last, step' = "backing", job' = [job EXCEPT !.n = job.n + 1]  PROVE InstallInv'
  <2>1. job.n + 1 \in 1 .. Len(job.prepared) /\ job.n + 1 \in Nat
    BY <1>2, <1>5
  <2>2. /\ job' \in JobType /\ job'.n = job.n + 1 /\ job'.plan = job.plan /\ job'.release = job.release
        /\ job'.prepared = job.prepared /\ job'.changed = job.changed /\ job'.met = job.met
    BY <1>2, <1>5, <2>1, JobNext
  <2>3. Applied' = Applied
    BY <1>2, <1>3, <1>5, <2>2 DEF Applied
  <2>4. QED  BY <1>1, <1>2, <1>5, <2>1, <2>2, <2>3, MovesOn
<1>6. ASSUME last, step' = AfterApply, job' = [job EXCEPT !.n = 1]  PROVE InstallInv'
  <2>1. /\ job' \in JobType /\ job'.n = 1 /\ job'.plan = job.plan /\ job'.release = job.release
        /\ job'.prepared = job.prepared /\ job'.changed = job.changed /\ job'.met = job.met
    BY <1>2, <1>6, JobNext
  <2>2. CASE step' = "done"
    <3>1. FailureLeavesAsFound' /\ FailsOnlyOnFault'
      BY <2>2 DEF FailureLeavesAsFound, FailsOnlyOnFault
    <3>2. QED  BY <1>1, <1>2, <2>1, <2>2, <3>1, KeysTyped, RunEnds, JobFacts DEF InstallInv
  <2>3. CASE step' = "registering" /\ Keys # 0
    <3>1. Applied' = Applied
      BY <1>3, <1>6, <2>1, <2>3 DEF Applied
    <3>2. /\ InstallTyped' /\ EditsPast' /\ NamesWhatIsThere' /\ Seen' /\ DiskFollows'
          /\ FoundNames' /\ PlanIs(job.plan, job.release)' /\ FailureLeavesAsFound'
          /\ FailsOnlyOnFault'
      BY <1>1, <1>2, <2>1, <2>3, <3>1, KeysTyped, ApplyingKept DEF Applying
    <3>3. RunBegun'
      BY <1>2, <2>1, <2>3, <3>2 DEF RunBegun
    <3>4. StagedOnce'
      BY <1>1, <2>3 DEF InstallInv, StagedOnce
    <3>5. Len(job.changed) = 0 /\ DOMAIN job.changed = {}
      BY <1>2
    <3>6. KeysFollow' /\ KeysBegun' /\ FaultsMet'
      BY <1>1, <1>2, <2>1, <2>3, <3>5, KeysTyped, InstallConstants
         DEF KeysFollow, KeysBegun, FaultsMet, Applying
    <3>7. QED  BY <3>2, <3>3, <3>4, <3>6 DEF InstallInv
  <2>4. QED  BY <1>6, <2>2, <2>3 DEF AfterApply
<1>7. QED  BY <1>1, <1>4, <1>5, <1>6

\* A file is written: no run loses count of anything else.
LEMMA Written ==
    ASSUME InstallInv, step \in Applying, step' \in Applying \ {"staging"}, NEW m \in 1 .. Len(job.prepared),
           NEW c \in {job.prepared[m].bytes, job.prepared[m].original},
           disk' = [disk EXCEPT ![job.prepared[m].file] = c],
           staged' \subseteq staged, UNCHANGED <<backups, registry, saved, edits, attempts>>,
           job' \in JobType, job'.plan = job.plan, job'.prepared = job.prepared,
           job'.release = job.release, job'.changed = job.changed, job'.met = job.met,
           NamesWhatIsThere',
           \A l \in 1 .. Len(job.prepared) : l # m => (l <= Applied <=> l <= Applied'),
           c = IF m <= Applied' THEN job.prepared[m].bytes ELSE job.prepared[m].original,
           c = Absent => job.prepared[m].file \notin {Host(v) : v \in Versions \ {job.release.version}}
    PROVE  /\ InstallTyped' /\ EditsPast' /\ NamesWhatIsThere' /\ Seen' /\ DiskFollows'
           /\ FoundNames' /\ PlanIs(job.plan, job.release)' /\ FailureLeavesAsFound'
           /\ FailsOnlyOnFault' /\ StagedOnce'
<1> DEFINE f == job.prepared[m].file
<1>1. /\ DOMAIN job.prepared = 1 .. Len(job.prepared) /\ DOMAIN saved.files = 1 .. Len(saved.files)
      /\ DOMAIN job.plan = 1 .. Len(job.plan)
      /\ f \in File /\ job.prepared[m].bytes \in Content[f] /\ job.prepared[m].original \in Content[f]
  BY JobFacts, PreparedFacts DEF InstallInv
<1>2. /\ step \in Running /\ step' \in Running /\ PlanIs(job.plan, job.release) /\ Seen /\ DiskFollows
      /\ step # "preparing" /\ step' # "preparing"
  BY DEF InstallInv, RunBegun, Running, Applying
<1>3. /\ DOMAIN disk = File /\ \A g \in File : disk[g] \in Content[g]
      /\ disk'[f] = c /\ \A g \in File \ {f} : disk'[g] = disk[g]
      /\ DOMAIN disk' = File
  BY <1>1 DEF InstallInv, InstallTyped, InstallTypeOK
<1>4. PICK i \in 1 .. Len(saved.files) :
          /\ job.plan[i].file = f /\ i \in 1 .. Len(job.plan)
          /\ job.plan[i].bytes = job.prepared[m].bytes
          /\ saved.files[i].was = job.prepared[m].original
          /\ saved.files[i].file = f
  BY <1>2, PreparedSeen
<1>5. InstallTyped'
  <2>1. InstallTypeOK'
    <3>1. \A g \in File : disk'[g] \in Content[g]
      BY <1>1, <1>3
    <3>2. step' \in Steps
      BY DEF Steps, Applying
    <3>3. QED  BY <1>3, <3>1, <3>2 DEF InstallInv, InstallTyped, InstallTypeOK
  <2>2. QED  BY <1>2, <2>1 DEF InstallInv, InstallTyped, Applying
<1>6. EditsPast'
  <2>1. f = Config => c \in Settings /\ c.edit <= edits
    <3>1. CASE c = job.prepared[m].bytes
      <4>1. job.plan[i].bytes \in Content[job.plan[i].file] \ {Absent}
        BY <1>1, <1>4 DEF InstallInv, InstallTyped
      <4>2. f = Config => job.plan[i].bytes.edit <= edits
        BY <1>1, <1>4 DEF InstallInv, EditsPast
      <4>3. QED  BY <1>4, <3>1, <4>1, <4>2, ContentIs
    <3>2. CASE c = job.prepared[m].original
      BY <1>1, <1>4, <3>2 DEF InstallInv, EditsPast
    <3>3. QED  BY <3>1, <3>2
  <2>2. disk'[Config] \in Settings /\ disk'[Config].edit <= edits
    BY <1>3, <2>1, ContentIs DEF InstallInv, EditsPast
  <2>3. QED  BY <2>2 DEF InstallInv, EditsPast
<1>7. Seen'
  BY <1>2 DEF Seen
<1>8. DiskFollows'
  <2>1. \A l \in DOMAIN job.prepared : LET p == job.prepared[l] IN
          IsOrEdited(p.file, IF l <= Applied THEN p.bytes ELSE p.original, p.original)
    BY <1>2 DEF DiskFollows
  <2>2. \A l \in DOMAIN job.prepared : l # m => job.prepared[l].file # f
    BY <1>1, <1>2 DEF Seen
  <2>3. \A l \in DOMAIN job.prepared : job.prepared[l].file \in File
    BY <1>1, PreparedFacts DEF InstallInv
  <2>4. \A l \in DOMAIN job.prepared : LET p == job.prepared[l] IN
          \/ disk'[p.file] = IF l <= Applied' THEN p.bytes ELSE p.original
          \/ p.file = Config /\ edits > p.original.edit
    <3>1. TAKE l \in DOMAIN job.prepared
    <3>2. CASE l = m
      BY <1>3, <3>2
    <3>3. CASE l # m
      <4>1. disk'[job.prepared[l].file] = disk[job.prepared[l].file]
        BY <1>3, <2>2, <2>3, <3>3
      <4>2. QED  BY <1>1, <2>1, <3>3, <4>1 DEF IsOrEdited
    <3>4. QED  BY <3>2, <3>3
  <2>5. \A k \in DOMAIN saved.files : LET s == saved.files[k] IN
          \/ IsOrEdited(s.file, s.was, s.was)'
          \/ \E l \in DOMAIN job.prepared : job.prepared[l].file = s.file
    <3>1. TAKE k \in DOMAIN saved.files
    <3>2. CASE saved.files[k].file = f
      BY <1>1, <3>2
    <3>3. CASE saved.files[k].file # f
      <4>1. saved.files[k].file \in File
        <5>1. saved.files \in Seq([file : File, was : Bytes]) /\ k \in 1 .. Len(saved.files)
          BY <1>1, JobFacts DEF InstallInv
        <5>2. saved.files[k] \in [file : File, was : Bytes]
          BY <5>1, ElementOfSeq
        <5>3. QED  BY <5>2
      <4>2. disk'[saved.files[k].file] = disk[saved.files[k].file]
        BY <1>3, <3>3, <4>1
      <4>3. QED  BY <1>2, <4>2 DEF DiskFollows, IsOrEdited
    <3>4. QED  BY <3>2, <3>3
  <2>6. QED  BY <2>4, <2>5 DEF DiskFollows, IsOrEdited
<1>9. FoundNames'
  <2>1. \A k \in DOMAIN saved.files : LET s == saved.files[k] IN
      /\ s.file = Receipt(job.release.version) /\ s.was # Absent => saved.files[1].was # Absent
      /\ s.file = Manifest /\ s.was # Absent =>
            IF s.was.names = job.release.version THEN saved.files[1].was # Absent
                                                 ELSE disk[Host(s.was.names)] # Absent
    BY <1>2 DEF InstallInv, FoundNames
  <2>2. \A v \in Versions : v # job.release.version /\ disk[Host(v)] # Absent => disk'[Host(v)] # Absent
    BY <1>3, ContentIs
  <2>3. \A k \in DOMAIN saved.files : saved.files[k].file = Manifest /\ saved.files[k].was # Absent =>
          saved.files[k].was.names \in Versions
    BY ContentIs DEF InstallInv, InstallTyped
  <2>4. QED  BY <2>1, <2>2, <2>3 DEF FoundNames
<1>10. PlanIs(job.plan, job.release)' /\ FailureLeavesAsFound' /\ FailsOnlyOnFault'
  BY <1>2 DEF PlanIs, FailureLeavesAsFound, FailsOnlyOnFault, Applying
<1>11. StagedOnce'
  BY DEF InstallInv, StagedOnce, Applying
<1>12. QED  BY <1>5, <1>6, <1>7, <1>8, <1>9, <1>10, <1>11

LEMMA InstallRename ==
    ASSUME InstallInv, Rename
    PROVE  InstallInv'
<1> DEFINE f == Now.file
           h == Host(job.release.version)
<1>1. /\ step = "renaming" /\ UNCHANGED <<backups, registry, saved, edits, attempts>>
      /\ \/ /\ disk' = [disk EXCEPT ![f] = Now.bytes] /\ staged' = staged \ {StageName(f)}
            /\ step' = "syncing" /\ UNCHANGED job
         \/ Undo(job.n - 1) /\ UNCHANGED <<disk, staged>>
  BY DEF Rename
<1>2. /\ job.n \in 1 .. Len(job.prepared) /\ job.n \in Nat /\ Len(job.prepared) \in Nat /\ job \in JobType
      /\ job.changed = <<>> /\ step \in Running /\ step \in Applying /\ saved.keys = registry
      /\ Now = job.prepared[job.n] /\ f \in File /\ PlanIs(job.plan, job.release)
  BY <1>1, NowFacts, KeysTyped
<1>3. Applied = job.n - 1
  BY <1>1 DEF Applied
<1>4. CASE Undo(job.n - 1) /\ UNCHANGED <<disk, staged>>
  BY <1>1, <1>3, <1>4, UndoBegins
<1>5. CASE /\ disk' = [disk EXCEPT ![f] = Now.bytes] /\ staged' = staged \ {StageName(f)}
           /\ step' = "syncing" /\ UNCHANGED job
  <2>1. Applied' = job.n
    BY <1>5 DEF Applied
  <2>2. PICK i \in 1 .. Len(saved.files) :
          /\ job.plan[i].file = f /\ i \in 1 .. Len(job.plan) /\ job.plan[i].bytes = Now.bytes
    BY <1>2, PreparedSeen
  <2>3. Now.bytes # Absent /\ i \in DOMAIN job.plan
    BY <2>2, JobFacts DEF InstallInv, InstallTyped
  <2>4. f \in {h, Manifest, Config, Receipt(job.release.version)}
    BY <1>2, PreparedSeen
  <2>5. f # h => disk[h] = job.release
    <3>1. f # h /\ Len(job.prepared) >= 1 /\ job.prepared[1].file = h => Applied >= 1
      BY <1>2, <1>3
    <3>2. QED  BY <1>2, <3>1, HostThere
  <2>6. job.release \in Release /\ job.release # Absent /\ job.release.version \in Versions
    BY <1>1, VersionOf DEF InstallInv, InstallTyped
  <2>7. /\ disk'[f] = Now.bytes /\ \A g \in File : g # f => disk'[g] = disk[g]
    BY <1>2, <1>5 DEF InstallInv, InstallTyped, InstallTypeOK
  <2>8. NamesWhatIsThere'
    <3>1. disk'[h] # Absent \/ f \notin {h, Manifest, Receipt(job.release.version)}
      BY <2>3, <2>5, <2>6, <2>7, ContentIs
    <3>2. \A v \in Versions : disk[Host(v)] # Absent => disk'[Host(v)] # Absent
      BY <2>3, <2>7, ContentIs
    <3>3. f = Manifest => Now.bytes.names = job.release.version
      <4>1. f = Manifest => job.plan[i].bytes = [names |-> job.release.version]
        BY <1>2, <2>2, <2>3 DEF PlanIs
      <4>2. QED  BY <2>2, <4>1
    <3>4. \A v \in Versions : disk'[Receipt(v)] # Absent => disk'[Host(v)] # Absent
      <4>1. SUFFICES ASSUME NEW v \in Versions, disk'[Receipt(v)] # Absent  PROVE disk'[Host(v)] # Absent
        OBVIOUS
      <4>2. CASE f = Receipt(v)
        BY <2>4, <3>1, <4>2, FilesDiffer
      <4>3. CASE f # Receipt(v)
        BY <2>7, <3>2, <4>1, <4>3, ContentIs DEF InstallInv, NamesWhatIsThere
      <4>4. QED  BY <4>2, <4>3
    <3>5. disk'[Manifest] # Absent => disk'[Host(disk'[Manifest].names)] # Absent
      <4>1. CASE f = Manifest
        BY <2>7, <3>1, <3>3, <4>1
      <4>2. CASE f # Manifest
        <5>1. disk'[Manifest] = disk[Manifest] /\ disk[Manifest] \in Content[Manifest]
          BY <2>7, <4>2, ContentIs, KeysTyped
        <5>2. disk[Manifest] # Absent => disk[Manifest].names \in Versions
          BY <5>1, ContentIs
        <5>3. QED  BY <3>2, <5>1, <5>2 DEF InstallInv, NamesWhatIsThere
      <4>3. QED  BY <4>1, <4>2
    <3>6. QED  BY <3>4, <3>5 DEF NamesWhatIsThere
  <2>9. \A l \in 1 .. Len(job.prepared) : l # job.n => (l <= Applied <=> l <= Applied')
    BY <1>2, <1>3, <2>1
  <2>10. job.n <= Applied'
    BY <1>2, <2>1
  <2>11. /\ InstallTyped' /\ EditsPast' /\ NamesWhatIsThere' /\ Seen' /\ DiskFollows'
         /\ FoundNames' /\ PlanIs(job.plan, job.release)' /\ FailureLeavesAsFound'
         /\ FailsOnlyOnFault' /\ StagedOnce'
    <3>1. Now.bytes \in {job.prepared[job.n].bytes, job.prepared[job.n].original}
      BY <1>2
    <3>2. staged' \subseteq staged /\ step' \in Applying \ {"staging"}
      BY <1>5 DEF Applying
    <3>3. disk' = [disk EXCEPT ![job.prepared[job.n].file] = Now.bytes]
      BY <1>2, <1>5
    <3>4. QED  BY <1>1, <1>2, <1>5, <2>3, <2>8, <2>9, <2>10, <3>1, <3>2, <3>3, Written
  <2>12. RunBegun'
    BY <1>2, <1>5, <2>11 DEF RunBegun
  <2>13. KeysFollow' /\ KeysBegun' /\ FaultsMet'
    BY <1>1, <1>2, <1>5, KeysTyped DEF InstallInv, KeysFollow, KeysBegun, FaultsMet, Applying
  <2>14. QED  BY <2>11, <2>12, <2>13 DEF InstallInv
<1>6. QED  BY <1>1, <1>4, <1>5

LEMMA InstallUndoFile ==
    ASSUME InstallInv, UndoFile
    PROVE  InstallInv'
<1> DEFINE p == job.prepared[job.n]
           f == p.file
           v0 == job.release.version
           h == Host(v0)
<1>1. /\ step = "undoing" /\ job.n > 0 /\ UNCHANGED <<staged, backups, registry, saved, edits, attempts>>
      /\ \/ disk' = [disk EXCEPT ![f] = p.original] /\ job' = [job EXCEPT !.n = @ - 1] /\ step' = "undoing"
         \/ /\ job' = Met(job) /\ step' = "broken"
            /\ disk' = disk \/ disk' = [disk EXCEPT ![f] = p.original]
  BY DEF UndoFile, Restored
<1>2. /\ job.n \in 1 .. Len(job.prepared) /\ job.n \in Nat /\ Len(job.prepared) \in Nat /\ job \in JobType
      /\ step \in Running /\ step \in Applying /\ PlanIs(job.plan, job.release) /\ job.met \in Nat
  BY <1>1, KeysTyped, JobFacts DEF InstallInv, RunBegun, Running, Applying
<1>3. Applied = job.n
  BY <1>1 DEF Applied
<1>4. CASE job' = Met(job) /\ step' = "broken" /\ disk' = disk
  <2>1. /\ job' \in JobType /\ job'.release = job.release
        /\ job'.plan = job.plan /\ job'.prepared = job.prepared /\ job'.changed = job.changed
    BY <1>2, <1>4, JobMet
  <2>2. FailureLeavesAsFound' /\ FailsOnlyOnFault'
    BY <1>4 DEF FailureLeavesAsFound, FailsOnlyOnFault
  <2>3. QED  BY <1>1, <1>4, <2>1, <2>2, KeysTyped, JobFacts, RunEnds DEF InstallInv
<1>5. ASSUME disk' = [disk EXCEPT ![f] = p.original]
      PROVE  /\ NamesWhatIsThere' /\ f \notin {Host(v) : v \in Versions \ {v0}}
             /\ f \in File /\ p.original \in Content[f]
             /\ disk'[f] = p.original /\ \A g \in File : g # f => disk'[g] = disk[g]
             /\ \E i \in DOMAIN saved.files : saved.files[i].file = f /\ saved.files[i].was = p.original
  <2>4. PICK i \in 1 .. Len(saved.files) :
          /\ job.plan[i].file = f /\ i \in 1 .. Len(job.plan) /\ saved.files[i].was = p.original
          /\ saved.files[i].file = f
    BY <1>2, PreparedSeen
  <2>5. /\ DOMAIN job.plan = 1 .. Len(job.plan) /\ DOMAIN saved.files = 1 .. Len(saved.files)
        /\ Len(saved.files) = Len(job.plan) /\ Len(saved.files) >= 1 /\ DOMAIN job.prepared = 1 .. Len(job.prepared)
        /\ 1 \in DOMAIN saved.files /\ f \in File /\ p.original \in Content[f]
    BY <1>1, <1>2, <2>4, JobFacts, PreparedFacts DEF InstallInv, Seen
  <2>5a. f = h => i = 1
    <3>1. job.plan[1].file = h /\ 1 \in DOMAIN job.plan /\ i \in DOMAIN job.plan
      BY <1>2, <2>4, <2>5 DEF PlanIs
    <3>2. \A k, l \in DOMAIN job.plan : k # l => job.plan[k].file # job.plan[l].file
      BY <1>2 DEF PlanIs
    <3>3. QED  BY <2>4, <3>1, <3>2
  <2>6. f \in {h, Manifest, Config, Receipt(v0)}
    BY <1>2, PreparedSeen
  <2>7. /\ disk'[f] = p.original /\ \A g \in File : g # f => disk'[g] = disk[g]
    BY <1>5, <2>5 DEF InstallInv, InstallTyped, InstallTypeOK
  <2>8. job.release \in Release /\ job.release # Absent /\ v0 \in Versions
    BY <1>1, VersionOf DEF InstallInv, InstallTyped
  <2>9. saved.files[1].was # Absent => disk[h] # Absent
    BY <1>2, <2>5, <2>8, HostFound
  <2>10. \A k \in DOMAIN saved.files :
           /\ saved.files[k].file = Receipt(v0) /\ saved.files[k].was # Absent => saved.files[1].was # Absent
           /\ saved.files[k].file = Manifest /\ saved.files[k].was # Absent =>
                 IF saved.files[k].was.names = v0 THEN saved.files[1].was # Absent
                                                 ELSE disk[Host(saved.files[k].was.names)] # Absent
    BY <1>2 DEF InstallInv, FoundNames
  <2>11. ASSUME f = h, NEW g \in {Manifest, Receipt(v0)}
         PROVE  \E k \in DOMAIN saved.files : saved.files[k].file = g /\ disk[g] = saved.files[k].was
    <3>1. job.n = 1
      BY <1>2, <2>5, <2>11 DEF InstallInv, Seen
    <3>2. PICK k \in DOMAIN job.plan : job.plan[k].file = g
      BY <1>2 DEF PlanIs
    <3>3. k \in DOMAIN saved.files /\ saved.files[k].file = g
      BY <1>2, <2>5, <3>2 DEF InstallInv, Seen
    <3>4. CASE \E m \in DOMAIN job.prepared : job.prepared[m].file = g
      <4>1. PICK m \in 1 .. Len(job.prepared) : job.prepared[m].file = g
        BY <2>5, <3>4
      <4>2. m # 1 /\ ~(m <= Applied)
        BY <1>2, <1>3, <2>11, <3>1, <4>1, FilesDiffer
      <4>3. PICK j \in 1 .. Len(saved.files) :
              /\ job.plan[j].file = g /\ j \in 1 .. Len(job.plan)
              /\ saved.files[j].was = job.prepared[m].original
        BY <1>2, <4>1, PreparedSeen
      <4>4. disk[g] = job.prepared[m].original
        BY <1>2, <4>1, <4>2, PreparedSeen, FilesDiffer DEF IsOrEdited
      <4>5. j = k
        BY <1>2, <2>5, <3>2, <4>3 DEF PlanIs
      <4>6. QED  BY <3>3, <4>3, <4>4, <4>5
    <3>5. CASE ~\E m \in DOMAIN job.prepared : job.prepared[m].file = g
      BY <1>2, <3>3, <3>5, FilesDiffer DEF InstallInv, DiskFollows, IsOrEdited
    <3>6. QED  BY <3>4, <3>5
  <2>12. NamesWhatIsThere'
    <3>1. ASSUME NEW v \in Versions, disk'[Receipt(v)] # Absent  PROVE disk'[Host(v)] # Absent
      <4>1. CASE f = Receipt(v)
        <5>1. v = v0
          BY <2>6, <4>1, FilesDiffer
        <5>2. saved.files[1].was # Absent
          BY <2>4, <2>5, <2>7, <2>10, <3>1, <4>1, <5>1
        <5>3. QED  BY <2>7, <2>9, <4>1, <5>1, <5>2, ContentIs, FilesDiffer
      <4>2. CASE f = Host(v)
        <5>1. v = v0 /\ f = h
          BY <2>6, <4>2, FilesDiffer
        <5>2. disk[Receipt(v)] # Absent
          BY <2>7, <3>1, <4>2, ContentIs, FilesDiffer
        <5>3. PICK k \in DOMAIN saved.files : saved.files[k].file = Receipt(v0) /\ saved.files[k].was # Absent
          BY <2>11, <5>1, <5>2
        <5>4. saved.files[1].was # Absent
          BY <2>10, <5>3
        <5>5. i = 1
          BY <2>5a, <5>1
        <5>6. QED  BY <2>4, <2>7, <4>2, <5>4, <5>5
      <4>3. CASE f # Receipt(v) /\ f # Host(v)
        BY <2>7, <3>1, <4>3, ContentIs DEF InstallInv, NamesWhatIsThere
      <4>4. QED  BY <4>1, <4>2, <4>3
    <3>2. ASSUME disk'[Manifest] # Absent  PROVE disk'[Host(disk'[Manifest].names)] # Absent
      <4>1. CASE f = Manifest
        <5>1. p.original # Absent /\ disk'[Manifest] = p.original /\ p.original.names \in Versions
          BY <2>5, <2>7, <3>2, <4>1, ContentIs
        <5>2. disk[Host(p.original.names)] # Absent
          BY <2>4, <2>5, <2>9, <2>10, <4>1, <5>1
        <5>3. QED  BY <2>7, <4>1, <5>1, <5>2, ContentIs, FilesDiffer
      <4>2. CASE f # Manifest
        <5>1. disk'[Manifest] = disk[Manifest] /\ disk[Manifest] # Absent /\ disk[Manifest].names \in Versions
          BY <2>7, <3>2, <4>2, ContentIs, KeysTyped
        <5>2. disk[Host(disk[Manifest].names)] # Absent
          BY <5>1 DEF InstallInv, NamesWhatIsThere
        <5>3. CASE f = Host(disk[Manifest].names)
          <6>1. disk[Manifest].names = v0 /\ f = h
            BY <2>6, <5>3, FilesDiffer
          <6>2. PICK k \in DOMAIN saved.files : saved.files[k].file = Manifest /\ saved.files[k].was = disk[Manifest]
            BY <2>11, <6>1
          <6>3. saved.files[1].was # Absent
            BY <2>10, <5>1, <6>1, <6>2
          <6>4. i = 1
            BY <2>5a, <6>1
          <6>5. QED  BY <2>4, <2>7, <5>1, <5>3, <6>3, <6>4
        <5>4. CASE f # Host(disk[Manifest].names)
          BY <2>7, <5>1, <5>2, <5>4, ContentIs
        <5>5. QED  BY <5>3, <5>4
      <4>3. QED  BY <4>1, <4>2
    <3>3. QED  BY <3>1, <3>2 DEF NamesWhatIsThere
  <2>13. f \notin {Host(v) : v \in Versions \ {v0}}
    BY <2>6, FilesDiffer
  <2>14. QED  BY <2>4, <2>5, <2>7, <2>12, <2>13
<1>6. CASE disk' = [disk EXCEPT ![f] = p.original] /\ job' = [job EXCEPT !.n = @ - 1] /\ step' = "undoing"
  <2>1. PICK x \in Nat : x = job.n - 1
    BY <1>2
  <2>2. /\ job' \in JobType /\ job'.n = x /\ job'.plan = job.plan /\ job'.release = job.release
        /\ job'.prepared = job.prepared /\ job'.changed = job.changed /\ job'.met = job.met
    <3>1. job' = [job EXCEPT !.n = x]
      BY <1>6, <2>1
    <3>2. QED  BY <1>2, <3>1, JobNext
  <2>3. Applied' = job.n - 1
    BY <1>6, <2>1, <2>2 DEF Applied
  <2>13. \A l \in 1 .. Len(job.prepared) : l # job.n => (l <= Applied <=> l <= Applied')
    BY <1>2, <1>3, <2>3
  <2>14. ~(job.n <= Applied')
    BY <1>2, <2>3
  <2>16. /\ InstallTyped' /\ EditsPast' /\ NamesWhatIsThere' /\ Seen' /\ DiskFollows'
         /\ FoundNames' /\ PlanIs(job.plan, job.release)' /\ FailureLeavesAsFound'
         /\ FailsOnlyOnFault' /\ StagedOnce'
    <3>1. p.original \in {p.bytes, p.original} /\ step' \in Applying \ {"staging"} /\ staged' \subseteq staged
      BY <1>1, <1>6 DEF Applying
    <3>2. QED  BY <1>1, <1>2, <1>6, <2>2, <1>5, <2>13, <2>14, <3>1, Written
  <2>17. RunBegun'
    BY <1>2, <1>6, <2>1, <2>2, <2>16 DEF RunBegun
  <2>18. KeysFollow' /\ KeysBegun' /\ FaultsMet'
    BY <1>1, <1>6, <2>2, KeysTyped DEF InstallInv, KeysFollow, KeysBegun, FaultsMet, Applying
  <2>19. QED  BY <2>16, <2>17, <2>18 DEF InstallInv
<1>7. CASE job' = Met(job) /\ step' = "broken" /\ disk' = [disk EXCEPT ![f] = p.original]
  <2>1. /\ job' \in JobType /\ job'.release = job.release /\ job'.changed = job.changed
        /\ job'.plan = job.plan /\ job'.prepared = job.prepared
    BY <1>2, <1>7, JobMet
  <2>2. /\ NamesWhatIsThere' /\ DOMAIN disk' = File /\ \A g \in File : disk'[g] \in Content[g]
    BY <1>5, <1>7 DEF InstallInv, InstallTyped, InstallTypeOK
  <2>3. EditsPast'
    <3>1. disk'[Config] \in Settings /\ disk'[Config].edit <= edits
      BY <1>5, <1>7, ContentIs DEF InstallInv, EditsPast
    <3>2. QED  BY <1>1, <2>1, <3>1 DEF InstallInv, EditsPast
  <2>4. InstallTyped'
    BY <1>1, <1>7, <2>1, <2>2, KeysTyped DEF InstallInv, InstallTyped, InstallTypeOK, Steps, Ended
  <2>5. RunBegun' /\ Seen' /\ DiskFollows' /\ FoundNames' /\ FaultsMet'
    BY <1>7 DEF RunBegun, Seen, DiskFollows, FoundNames, FaultsMet, Running, Applying
  <2>6. StagedOnce' /\ FailureLeavesAsFound' /\ FailsOnlyOnFault'
    BY <1>1, <1>7 DEF InstallInv, StagedOnce, FailureLeavesAsFound, FailsOnlyOnFault
  <2>7. KeysFollow' /\ KeysBegun'
    BY <1>1, <1>7, <2>1 DEF InstallInv, KeysFollow, KeysBegun, Applying
  <2>8. QED  BY <2>2, <2>3, <2>4, <2>5, <2>6, <2>7 DEF InstallInv
<1>8. QED  BY <1>1, <1>4, <1>6, <1>7

LEMMA InstallUndoEnds ==
    ASSUME InstallInv, UndoEnds
    PROVE  InstallInv'
<1>1. /\ step = "undoing" /\ job.n = 0 /\ step' = "failed" /\ staged' \subseteq staged
      /\ UNCHANGED <<disk, backups, registry, job, saved, edits, attempts>>
  BY DEF UndoEnds
<1>2. step \in Running /\ Applied = 0 /\ job.met \in Nat /\ job.met > 0
  BY <1>1, JobFacts DEF InstallInv, FaultsMet, Running, Applying, Applied
<1>3. FailureLeavesAsFound'
  BY <1>1, <1>2, Unapplied DEF FailureLeavesAsFound, InstallInv, KeysBegun
<1>4. FailsOnlyOnFault'
  BY <1>1, <1>2 DEF FailsOnlyOnFault
<1>5. QED  BY <1>1, <1>3, <1>4, KeysTyped, JobFacts, RunEnds DEF InstallInv

--------------------------------
(* registerWindows *)

JobChanged(n, changed, met) == [job EXCEPT !.n = n, !.changed = changed, !.met = met]
ChangedKeys == Seq([key : 1 .. Keys, was : KeyStates])
JobIsChanged(j, n, changed, met) ==
  /\ j \in JobType /\ j.n = n /\ j.changed = changed /\ j.met = met
  /\ j.prepared = job.prepared /\ j.plan = job.plan /\ j.release = job.release
LEMMA JobChangedIs ==
    ASSUME job \in JobType, NEW x, x \in Nat, NEW c, c \in ChangedKeys, NEW y, y \in Nat
    PROVE  JobIsChanged(JobChanged(x, c, y), x, c, y)
<1>1. PICK j : j = JobChanged(x, c, y)
  BY Zenon
<1>2. JobIsChanged(j, x, c, y)
  BY <1>1 DEF JobType, JobChanged, ChangedKeys, JobIsChanged
<1>3. QED  BY <1>1, <1>2, Zenon

LEMMA JobChangedSame ==
    ASSUME job \in JobType, NEW x
    PROVE  [job EXCEPT !.n = x] = JobChanged(x, job.changed, job.met)
BY DEF JobType, JobChanged

\* All files are applied while the keys are set.
LEMMA RegisteringKept ==
    ASSUME InstallInv, step \in {"registering", "unregistering"},
           step' \in {"registering", "unregistering", "undoing"},
           UNCHANGED <<disk, staged, backups, saved, edits, attempts>>,
           job' \in JobType, job'.plan = job.plan, job'.prepared = job.prepared,
           job'.release = job.release, registry' \in [1 .. Keys -> KeyStates],
           Len(job'.changed) <= Keys, step' = "undoing" => job'.n = Len(job.prepared)
    PROVE  /\ InstallTyped' /\ EditsPast' /\ NamesWhatIsThere' /\ Seen' /\ DiskFollows'
           /\ FoundNames' /\ RunBegun' /\ FailureLeavesAsFound'
           /\ FailsOnlyOnFault' /\ StagedOnce'
<1>1. Applied' = Applied
  BY DEF Applied
<1>2. step \in Running /\ step # "preparing" /\ step' \in Applying /\ Len(job.prepared) \in Nat
  BY JobFacts DEF InstallInv, Running, Applying
<1>3. /\ InstallTyped' /\ EditsPast' /\ NamesWhatIsThere' /\ Seen' /\ DiskFollows'
      /\ FoundNames' /\ PlanIs(job.plan, job.release)' /\ FailureLeavesAsFound'
      /\ FailsOnlyOnFault'
  BY <1>1, <1>2, KeysTyped, ApplyingKept
<1>4. RunBegun'
  BY <1>2, <1>3 DEF RunBegun
<1>5. StagedOnce'
  BY DEF InstallInv, StagedOnce
<1>6. QED  BY <1>3, <1>4, <1>5

LEMMA InstallRegister ==
    ASSUME InstallInv, faults \in Nat, Register
    PROVE  InstallInv'
<1> DEFINE k == job.n
           next == IF k = Keys THEN "done" ELSE "registering"
<1>1. PICK was \in Looked(registry[k]) :
        /\ faults' = IF was = registry[k] THEN faults ELSE faults + 1
        /\ IF was = "ours"
           THEN /\ step' = next /\ job' = [job EXCEPT !.n = @ + 1] /\ UNCHANGED registry
           ELSE /\ registry' = [registry EXCEPT ![k] = "ours"] /\ step' = next
                /\ job' = [job EXCEPT !.n = @ + 1,
                                      !.changed = Append(@, [key |-> k, was |-> was]),
                                      !.met = @ + (faults' - faults)]
  BY Zenon DEF Register
<1>2. step = "registering" /\ UNCHANGED <<disk, staged, backups, saved, edits, attempts>>
  BY DEF Register
<1>3. /\ job.n \in 1 .. Keys /\ Keys \in Nat /\ Len(job.changed) < job.n /\ Len(job.changed) \in Nat
      /\ job.n \in Nat /\ job.met \in Nat /\ job \in JobType
      /\ job.changed \in Seq([key : 1 .. Keys, was : KeyStates]) /\ DOMAIN job.changed = 1 .. Len(job.changed)
      /\ registry \in [1 .. Keys -> KeyStates] /\ saved.keys \in [1 .. Keys -> KeyStates]
      /\ \A i \in DOMAIN job.changed : job.changed[i].key < job.n /\ job.changed[i].key \in Nat
      /\ \A i, l \in DOMAIN job.changed : i # l => job.changed[i].key # job.changed[l].key
  <2>1. /\ job.changed \in Seq([key : 1 .. Keys, was : KeyStates]) /\ Keys \in Nat
        /\ DOMAIN job.changed = 1 .. Len(job.changed)
    BY JobFacts DEF InstallInv
  <2>2. \A i \in DOMAIN job.changed : job.changed[i].key \in Nat
    <3>1. \A i \in 1 .. Len(job.changed) : job.changed[i] \in [key : 1 .. Keys, was : KeyStates]
      BY <2>1, ElementOfSeq, Zenon
    <3>2. QED  BY <2>1, <3>1
  <2>3. QED  BY <1>2, <2>1, <2>2, JobFacts, KeysTyped DEF InstallInv, KeysBegun, Applying
<1>4. was \in KeyStates /\ (faults' = faults => was = registry[k])
  <2>1. registry[k] \in KeyStates /\ "none" \in KeyStates
    BY <1>3 DEF KeyStates
  <2>2. was = registry[k] \/ was = "none"
    BY <1>1 DEF Looked
  <2>3. QED  BY <1>1, <2>1, <2>2
<1> DEFINE c == [key |-> k, was |-> was]
           changed == IF was = "ours" THEN job.changed ELSE Append(job.changed, c)
           met == IF was = "ours" THEN job.met ELSE job.met + (faults' - faults)
<1>5. /\ changed \in Seq([key : 1 .. Keys, was : KeyStates])
      /\ Len(changed) <= job.n /\ DOMAIN changed = 1 .. Len(changed)
      /\ \A i \in DOMAIN changed : \/ i \in DOMAIN job.changed /\ changed[i] = job.changed[i]
                                   \/ was # "ours" /\ changed[i] = c /\ i = Len(job.changed) + 1
      /\ \A i \in DOMAIN job.changed : i \in DOMAIN changed /\ changed[i] = job.changed[i]
      /\ was # "ours" => Len(job.changed) + 1 \in DOMAIN changed /\ changed[Len(job.changed) + 1] = c
  <2>1. c \in [key : 1 .. Keys, was : KeyStates]
    BY <1>3, <1>4
  <2> HIDE DEF c
  <2>2. CASE was = "ours"
    BY <1>3, <2>2
  <2>3. CASE was # "ours"
    <3>1. PICK a : a = Append(job.changed, c)
      OBVIOUS
    <3>2. /\ a \in Seq([key : 1 .. Keys, was : KeyStates]) /\ Len(a) = Len(job.changed) + 1
          /\ DOMAIN a = 1 .. Len(job.changed) + 1 /\ a[Len(job.changed) + 1] = c
          /\ \A i \in 1 .. Len(job.changed) : a[i] = job.changed[i]
      BY <1>3, <2>1, <3>1, OneMore
    <3>3. changed = a
      BY <2>3, <3>1
    <3>4. /\ Len(a) <= job.n /\ DOMAIN a = 1 .. Len(a)
          /\ \A i \in DOMAIN a : i \in 1 .. Len(job.changed) \/ i = Len(job.changed) + 1
          /\ \A i \in 1 .. Len(job.changed) : i \in DOMAIN a
          /\ Len(job.changed) + 1 \in DOMAIN a
      BY <1>3, <3>2
    <3> HIDE DEF changed
    <3>5. QED  BY <1>3, <2>3, <3>2, <3>3, <3>4
  <2>4. QED  BY <2>2, <2>3
<1>6. c.key = k /\ c.was = was
  OBVIOUS
<1>7. met \in Nat /\ (met = 0 => job.met = 0 /\ (was # "ours" => was = registry[k]))
  <2>1. faults' - faults \in {0, 1} /\ (faults' - faults = 0 => faults' = faults)
    BY <1>1
  <2>2. QED  BY <1>3, <1>4, <2>1
<1>8. job' = JobChanged(job.n + 1, changed, met) /\ step' = next
      /\ registry' = IF was = "ours" THEN registry ELSE [registry EXCEPT ![k] = "ours"]
  <2>1. CASE was = "ours"
    BY <1>1, <1>3, <2>1, JobChangedSame
  <2>2. CASE was # "ours"
    BY <1>1, <2>2, Zenon DEF JobChanged
  <2>3. QED  BY <2>1, <2>2
<1> HIDE DEF c, changed, met
<1>9. /\ job' \in JobType /\ job'.n = job.n + 1 /\ job'.changed = changed /\ job'.met = met
      /\ job'.plan = job.plan /\ job'.release = job.release /\ job'.prepared = job.prepared
  <2>1. job \in JobType /\ job.n + 1 \in Nat /\ met \in Nat
        /\ changed \in Seq([key : 1 .. Keys, was : KeyStates])
    BY <1>3, <1>5, <1>7
  <2>2. job' = JobChanged(job.n + 1, changed, met)
    BY <1>8
  <2>3. changed \in ChangedKeys
    BY <2>1, Zenon DEF ChangedKeys
  <2>4. JobIsChanged(JobChanged(job.n + 1, changed, met), job.n + 1, changed, met)
    BY <2>1, <2>3, JobChangedIs, Zenon
  <2>5. JobIsChanged(job', job.n + 1, changed, met)
    BY <2>2, <2>4, Zenon
  <2>6. QED  BY <2>5, Zenon DEF JobIsChanged
<1>10. registry' \in [1 .. Keys -> KeyStates]
  BY <1>3, <1>8 DEF KeyStates
<1>11. Len(changed) \in Nat /\ Len(changed) <= Keys
  BY <1>3, <1>5
<1>12. /\ \A i \in DOMAIN changed : changed[i].key < job.n + 1
       /\ \A i, l \in DOMAIN changed : i # l => changed[i].key # changed[l].key
  <2>1. \A i \in DOMAIN changed : \/ i \in DOMAIN job.changed /\ changed[i].key = job.changed[i].key
                                  \/ changed[i].key = job.n /\ i = Len(job.changed) + 1
    BY <1>5, <1>6
  <2>2. \A i \in DOMAIN job.changed : job.changed[i].key < job.n + 1 /\ job.changed[i].key # job.n
    BY <1>3
  <2>3. QED  BY <1>3, <2>1, <2>2
<1>13. CASE step' = "done"
  <2>1. FailureLeavesAsFound' /\ FailsOnlyOnFault'
    BY <1>13 DEF FailureLeavesAsFound, FailsOnlyOnFault
  <2>2. QED  BY <1>2, <1>5, <1>9, <1>10, <1>11, <1>12, <1>13, <2>1, KeysTyped, RunEnds
<1>14. CASE step' = "registering" /\ job.n # Keys
  <2>1. /\ InstallTyped' /\ EditsPast' /\ NamesWhatIsThere' /\ Seen' /\ DiskFollows'
        /\ FoundNames' /\ RunBegun' /\ FailureLeavesAsFound'
        /\ FailsOnlyOnFault' /\ StagedOnce'
    BY <1>2, <1>9, <1>10, <1>11, <1>14, RegisteringKept
  <2>2. KeysBegun' /\ FaultsMet'
    <3>1. job.n + 1 \in 1 .. Keys /\ Len(changed) < job.n + 1
      BY <1>3, <1>5, <1>11, <1>14
    <3>2. QED  BY <1>2, <1>3, <1>9, <1>12, <1>14, <3>1 DEF KeysBegun, FaultsMet, Applying
  <2>3. ASSUME met = 0
        PROVE  /\ \A i \in DOMAIN changed : changed[i].was = saved.keys[changed[i].key]
               /\ \A l \in 1 .. Keys : registry'[l] = IF \E i \in DOMAIN changed : changed[i].key = l
                                                       THEN "ours" ELSE saved.keys[l]
    <3>1. /\ \A i \in DOMAIN job.changed : job.changed[i].was = saved.keys[job.changed[i].key]
          /\ \A l \in 1 .. Keys : registry[l] = IF \E i \in DOMAIN job.changed : job.changed[i].key = l
                                                 THEN "ours" ELSE saved.keys[l]
      BY <1>2, <1>7, <2>3 DEF InstallInv, KeysFollow
    <3>2. registry[k] = saved.keys[k]
      <4>1. ~\E i \in DOMAIN job.changed : job.changed[i].key = k
        BY <1>3
      <4>2. QED  BY <1>3, <3>1, <4>1
    <3>3. \A i \in DOMAIN changed : changed[i].was = saved.keys[changed[i].key]
      BY <1>5, <1>6, <1>7, <2>3, <3>1, <3>2
    <3>4. ASSUME NEW l \in 1 .. Keys
          PROVE  registry'[l] = IF \E i \in DOMAIN changed : changed[i].key = l THEN "ours" ELSE saved.keys[l]
      <4>1. CASE l # k \/ was = "ours"
        <5>1. (\E i \in DOMAIN changed : changed[i].key = l) <=> (\E i \in DOMAIN job.changed : job.changed[i].key = l)
          BY <1>5, <1>6, <4>1
        <5>2. registry'[l] = registry[l]
          BY <1>3, <1>8, <4>1
        <5>3. QED  BY <3>1, <5>1, <5>2
      <4>2. CASE l = k /\ was # "ours"
        <5>1. registry'[l] = "ours"
          BY <1>3, <1>8, <4>2
        <5>2. \E i \in DOMAIN changed : changed[i].key = l
          <6>1. changed[Len(job.changed) + 1] = c /\ Len(job.changed) + 1 \in DOMAIN changed
            BY <1>5, <4>2
          <6>2. QED  BY <1>6, <4>2, <6>1
        <5>3. QED  BY <5>1, <5>2
      <4>3. QED  BY <4>1, <4>2
    <3>5. QED  BY <3>3, <3>4
  <2>4. KeysFollow'
    BY <1>2, <1>9, <1>12, <1>14, <2>3 DEF KeysFollow
  <2>5. QED  BY <2>1, <2>2, <2>4 DEF InstallInv
<1>15. QED  BY <1>8, <1>13, <1>14

LEMMA InstallRegisterFails ==
    ASSUME InstallInv, RegisterFails
    PROVE  InstallInv'
<1>1. /\ step = "registering" /\ step' = "unregistering" /\ job' = Met(job)
      /\ UNCHANGED <<disk, staged, backups, registry, saved, edits, attempts>>
  BY DEF RegisterFails
<1>2. /\ job' \in JobType /\ job'.met = job.met + 1 /\ job'.release = job.release
      /\ job'.plan = job.plan /\ job'.prepared = job.prepared /\ job'.changed = job.changed
      /\ job.met \in Nat
  BY <1>1, JobMet, KeysTyped, JobFacts DEF InstallInv
<1>3. /\ InstallTyped' /\ EditsPast' /\ NamesWhatIsThere' /\ Seen' /\ DiskFollows'
      /\ FoundNames' /\ RunBegun' /\ FailureLeavesAsFound'
      /\ FailsOnlyOnFault' /\ StagedOnce'
  BY <1>1, <1>2, KeysTyped, RegisteringKept
<1>4. KeysFollow' /\ KeysBegun' /\ FaultsMet'
  BY <1>1, <1>2 DEF InstallInv, KeysFollow, KeysBegun, FaultsMet, Applying
<1>5. QED  BY <1>3, <1>4 DEF InstallInv

\* The last of the keys is forgotten; all others stay.
LEMMA OneLess ==
    ASSUME NEW S, NEW q \in Seq(S), q # <<>>, NEW r, r = SubSeq(q, 1, Len(q) - 1)
    PROVE  /\ r \in Seq(S) /\ Len(r) <= Len(q) /\ Len(q) \in DOMAIN q /\ q[Len(q)] \in S
           /\ \A i \in DOMAIN r : i \in DOMAIN q /\ i # Len(q) /\ r[i] = q[i]
           /\ \A i \in DOMAIN q : i = Len(q) \/ (i \in DOMAIN r /\ r[i] = q[i])
<1>1. PICK n \in Nat : n = Len(q) /\ n > 0 /\ DOMAIN q = 1 .. n
  BY EmptySeq
<1>2. \A i \in 1 .. n : q[i] \in S
  BY <1>1
<1>3. n - 1 \in Int /\ 1 \in Int /\ \A i \in 1 .. n - 1 : q[i] \in S
  BY <1>1, <1>2
<1>4. r = SubSeq(q, 1, n - 1)
  BY <1>1
<1>5. /\ r \in Seq(S) /\ Len(r) = (IF 1 <= n - 1 THEN n - 1 - 1 + 1 ELSE 0)
      /\ \A i \in 1 .. n - 1 - 1 + 1 : r[i] = q[1 + i - 1]
  BY <1>3, <1>4, SubSeqProperties
<1>6. Len(r) = n - 1 /\ r \in Seq(S)
  BY <1>1, <1>5
<1>7. DOMAIN r = 1 .. n - 1
  BY <1>6
<1>8. \A i \in 1 .. n - 1 : r[i] = q[i]
  <2>1. n - 1 - 1 + 1 = n - 1 /\ \A i \in 1 .. n - 1 : 1 + i - 1 = i
    BY <1>1
  <2>2. QED  BY <1>5, <2>1
<1>9. n \in 1 .. n /\ n - 1 <= n /\ \A i \in 1 .. n - 1 : i \in 1 .. n /\ i # n
  BY <1>1
<1>10. \A i \in 1 .. n : i = n \/ i \in 1 .. n - 1
  BY <1>1
<1>11. Len(r) <= Len(q) /\ Len(q) \in DOMAIN q /\ q[Len(q)] \in S
  BY <1>1, <1>2, <1>6, <1>9
<1>12. \A i \in DOMAIN r : i \in DOMAIN q /\ i # Len(q) /\ r[i] = q[i]
  BY <1>1, <1>7, <1>8, <1>9, Zenon
<1>13. \A i \in DOMAIN q : i = Len(q) \/ (i \in DOMAIN r /\ r[i] = q[i])
  BY <1>1, <1>7, <1>8, <1>10, Zenon
<1>14. QED  BY <1>5, <1>11, <1>12, <1>13

LEMMA InstallUnregister ==
    ASSUME InstallInv, Unregister
    PROVE  InstallInv'
<1> DEFINE q == job.changed
           c == q[Len(q)]
<1>1. /\ step = "unregistering" /\ UNCHANGED <<disk, staged, backups, saved, edits, attempts>>
      /\ \/ /\ q # <<>> /\ registry' = [registry EXCEPT ![c.key] = c.was]
            /\ job' = [job EXCEPT !.changed = SubSeq(q, 1, Len(q) - 1)] /\ step' = step
         \/ /\ q = <<>> /\ step' = "undoing" /\ job' = [job EXCEPT !.n = Len(job.prepared)]
            /\ UNCHANGED registry
         \/ /\ step' = "undoing" /\ job' = MetFrom(Len(job.prepared)) /\ UNCHANGED registry
  BY DEF Unregister, MetFrom
<1>2. /\ q \in Seq([key : 1 .. Keys, was : KeyStates]) /\ Len(q) \in Nat /\ DOMAIN q = 1 .. Len(q)
      /\ job \in JobType /\ job.met \in Nat /\ job.met > 0 /\ Len(job.prepared) \in Nat
      /\ registry \in [1 .. Keys -> KeyStates] /\ saved.keys \in [1 .. Keys -> KeyStates]
      /\ Len(q) <= Keys /\ Keys \in Nat
      /\ \A i, l \in DOMAIN q : i # l => q[i].key # q[l].key
  BY <1>1, JobFacts, KeysTyped DEF InstallInv, KeysBegun, FaultsMet, Applying
<1>3. CASE /\ q # <<>> /\ registry' = [registry EXCEPT ![c.key] = c.was]
           /\ job' = [job EXCEPT !.changed = SubSeq(q, 1, Len(q) - 1)] /\ step' = step
  <2>1. PICK r : r = SubSeq(q, 1, Len(q) - 1)
    OBVIOUS
  <2>2. /\ r \in Seq([key : 1 .. Keys, was : KeyStates]) /\ Len(r) <= Len(q) /\ Len(q) \in DOMAIN q
        /\ c \in [key : 1 .. Keys, was : KeyStates]
        /\ \A i \in DOMAIN r : i \in DOMAIN q /\ i # Len(q) /\ r[i] = q[i]
        /\ \A i \in DOMAIN q : i = Len(q) \/ (i \in DOMAIN r /\ r[i] = q[i])
    <3>1. PICK S : S = [key : 1 .. Keys, was : KeyStates]
      BY Zenon
    <3>2. PICK p \in Seq(S) : p = q
      BY <1>2, <3>1, Zenon
    <3>3. p # <<>> /\ r = SubSeq(p, 1, Len(p) - 1)
      BY <1>3, <2>1, <3>2, Zenon
    <3>4. /\ r \in Seq(S) /\ Len(r) <= Len(p) /\ Len(p) \in DOMAIN p /\ p[Len(p)] \in S
          /\ \A i \in DOMAIN r : i \in DOMAIN p /\ i # Len(p) /\ r[i] = p[i]
          /\ \A i \in DOMAIN p : i = Len(p) \/ (i \in DOMAIN r /\ r[i] = p[i])
      BY <3>3, OneLess
    <3>5. QED  BY <3>1, <3>2, <3>4, Zenon
  <2>3. /\ job' \in JobType /\ job'.changed = r /\ job'.met = job.met /\ job'.n = job.n
        /\ job'.plan = job.plan /\ job'.release = job.release /\ job'.prepared = job.prepared
    <3>1. job' = [job EXCEPT !.changed = r]
      BY <1>3, <2>1
    <3>2. QED  BY <1>2, <2>2, <3>1 DEF JobType
  <2>4. c.key \in 1 .. Keys /\ c.was \in KeyStates
    BY <2>2
  <2>5. registry' \in [1 .. Keys -> KeyStates] /\ Len(r) <= Keys
    <3>1. registry' \in [1 .. Keys -> KeyStates]
      BY <1>2, <1>3, <2>4
    <3>2. Len(r) \in Nat
      BY <2>2
    <3>3. QED  BY <1>2, <2>2, <3>1, <3>2
  <2>6. /\ InstallTyped' /\ EditsPast' /\ NamesWhatIsThere' /\ Seen' /\ DiskFollows'
        /\ FoundNames' /\ RunBegun' /\ FailureLeavesAsFound'
        /\ FailsOnlyOnFault' /\ StagedOnce'
    BY <1>1, <1>3, <2>3, <2>5, RegisteringKept
  <2>7. KeysBegun' /\ FaultsMet'
    BY <1>1, <1>2, <1>3, <2>3 DEF KeysBegun, FaultsMet, Applying
  <2>8. \A i, l \in DOMAIN r : i # l => r[i].key # r[l].key
    <3>1. \A i, l \in DOMAIN q : i # l => q[i].key # q[l].key
      BY <1>2
    <3>2. QED  BY <2>2, <3>1, Zenon
  <2>9. ASSUME job.met <= 1
        PROVE  /\ \A i \in DOMAIN r : r[i].was = saved.keys[r[i].key]
               /\ \A k \in 1 .. Keys : registry'[k] = IF \E i \in DOMAIN r : r[i].key = k
                                                       THEN "ours" ELSE saved.keys[k]
    <3>1. /\ \A i \in DOMAIN q : q[i].was = saved.keys[q[i].key]
          /\ \A k \in 1 .. Keys : registry[k] = IF \E i \in DOMAIN q : q[i].key = k
                                                 THEN "ours" ELSE saved.keys[k]
      BY <1>1, <2>9 DEF InstallInv, KeysFollow
    <3>2. \A i \in DOMAIN q : i = Len(q) \/ (i \in DOMAIN r /\ r[i] = q[i])
      BY <2>2
    <3>3. \A i \in DOMAIN r : i \in DOMAIN q /\ i # Len(q) /\ r[i] = q[i]
      BY <2>2
    <3>4. \A i \in DOMAIN r : r[i].was = saved.keys[r[i].key] /\ r[i].key # c.key
      <4>1. \A i, l \in DOMAIN q : i # l => q[i].key # q[l].key
        BY <1>2
      <4>2. Len(q) \in DOMAIN q
        BY <2>2
      <4>3. QED  BY <3>1, <3>3, <4>1, <4>2
    <3>5. ASSUME NEW k \in 1 .. Keys
          PROVE  registry'[k] = IF \E i \in DOMAIN r : r[i].key = k THEN "ours" ELSE saved.keys[k]
      <4>1. CASE k = c.key
        <5>1. registry'[k] = c.was /\ c.was = saved.keys[c.key]
          BY <1>2, <1>3, <2>2, <2>4, <3>1, <4>1
        <5>2. ~\E i \in DOMAIN r : r[i].key = k
          BY <3>4, <4>1
        <5>3. QED  BY <4>1, <5>1, <5>2
      <4>2. CASE k # c.key
        <5>1. registry'[k] = registry[k]
          BY <1>2, <1>3, <4>2
        <5>2. (\E i \in DOMAIN r : r[i].key = k) <=> (\E i \in DOMAIN q : q[i].key = k)
          BY <3>2, <3>3, <4>2
        <5>3. QED  BY <3>1, <5>1, <5>2
      <4>3. QED  BY <4>1, <4>2
    <3>6. QED  BY <3>4, <3>5
  <2>10. KeysFollow'
    <3>1. step' = "unregistering" /\ saved' = saved /\ job'.changed = r /\ job'.met = job.met
      BY <1>1, <1>3, <2>3
    <3>2. QED  BY <2>8, <2>9, <3>1 DEF KeysFollow
  <2>11. QED  BY <2>6, <2>7, <2>10 DEF InstallInv
<1>4. CASE q = <<>> /\ step' = "undoing" /\ job' = [job EXCEPT !.n = Len(job.prepared)] /\ UNCHANGED registry
  <2>1. /\ job' \in JobType /\ job'.n = Len(job.prepared) /\ job'.plan = job.plan /\ job'.release = job.release
        /\ job'.prepared = job.prepared /\ job'.changed = job.changed /\ job'.met = job.met
    BY <1>2, <1>4, JobNext
  <2>2. /\ InstallTyped' /\ EditsPast' /\ NamesWhatIsThere' /\ Seen' /\ DiskFollows'
        /\ FoundNames' /\ RunBegun' /\ FailureLeavesAsFound'
        /\ FailsOnlyOnFault' /\ StagedOnce'
    BY <1>1, <1>2, <1>4, <2>1, RegisteringKept
  <2>3. job.met <= 1 => saved.keys = registry
    <3>1. DOMAIN q = {}
      BY <1>2, <1>4
    <3>2. job.met <= 1 => \A k \in 1 .. Keys : registry[k] = saved.keys[k]
      BY <1>1, <3>1 DEF InstallInv, KeysFollow
    <3>3. QED  BY <1>2, <3>2
  <2>4. KeysFollow' /\ KeysBegun' /\ FaultsMet'
    BY <1>1, <1>2, <1>4, <2>1, <2>3 DEF InstallInv, KeysFollow, KeysBegun, FaultsMet, Applying
  <2>5. QED  BY <2>2, <2>4 DEF InstallInv
<1>5. CASE step' = "undoing" /\ job' = MetFrom(Len(job.prepared)) /\ UNCHANGED registry
  <2>1. /\ job' \in JobType /\ job'.n = Len(job.prepared) /\ job'.met = job.met + 1
        /\ job'.prepared = job.prepared /\ job'.plan = job.plan
        /\ job'.release = job.release /\ job'.changed = job.changed
    BY <1>2, <1>5, MetFromIs
  <2>2. /\ InstallTyped' /\ EditsPast' /\ NamesWhatIsThere' /\ Seen' /\ DiskFollows'
        /\ FoundNames' /\ RunBegun' /\ FailureLeavesAsFound'
        /\ FailsOnlyOnFault' /\ StagedOnce'
    BY <1>1, <1>2, <1>5, <2>1, RegisteringKept
  <2>3. KeysFollow' /\ KeysBegun' /\ FaultsMet'
    <3>1. ~(job'.met <= 1) /\ job'.met > 0 /\ saved' = saved
      BY <1>1, <1>2, <2>1
    <3>2. \A i, l \in DOMAIN q : i # l => q[i].key # q[l].key
      BY <1>2
    <3>3. KeysFollow'
      BY <1>5, <2>1, <3>2 DEF KeysFollow
    <3>4. QED  BY <1>2, <1>5, <3>1, <3>3 DEF KeysBegun, FaultsMet
  <2>4. QED  BY <2>2, <2>3 DEF InstallInv
<1>6. QED  BY <1>1, <1>3, <1>4, <1>5

--------------------------------
(* The user's client, and the whole *)

LEMMA InstallClientSaves ==
    ASSUME InstallInv, ClientSaves
    PROVE  InstallInv'
<1>1. /\ edits < MaxEdits /\ edits' = edits + 1 /\ disk' = [disk EXCEPT ![Config].edit = edits + 1]
      /\ UNCHANGED <<staged, backups, registry, step, job, saved, attempts>>
  BY DEF ClientSaves
<1>2. /\ DOMAIN disk = File /\ disk[Config] \in Settings /\ edits \in Nat /\ MaxEdits \in Nat
      /\ \A g \in File : disk[g] \in Content[g]
  BY InstallConstants DEF InstallInv, InstallTyped, InstallTypeOK, EditsPast
<1>3. /\ disk'[Config] = [disk[Config] EXCEPT !.edit = edits + 1] /\ DOMAIN disk' = File
      /\ \A g \in File : g # Config => disk'[g] = disk[g]
  BY <1>1, <1>2, ContentIs
<1>4. disk'[Config] \in Settings /\ disk'[Config].edit = edits + 1
  <2>1. edits + 1 \in 0 .. MaxEdits
    BY <1>1, <1>2
  <2>2. QED  BY <1>2, <1>3, <2>1 DEF Settings
<1>5. /\ DOMAIN saved.files = 1 .. Len(saved.files) /\ DOMAIN job.prepared = 1 .. Len(job.prepared)
  BY JobFacts DEF InstallInv
<1>6. \A v \in Versions : disk'[Host(v)] = disk[Host(v)] /\ disk'[Receipt(v)] = disk[Receipt(v)]
  BY <1>3, ContentIs, FilesDiffer
<1>7. disk'[Manifest] = disk[Manifest] /\ disk[Manifest] \in Content[Manifest]
  BY <1>2, <1>3, ContentIs, FilesDiffer
<1>8. \A s : s \in Settings /\ s.edit <= edits => s.edit <= edits + 1 /\ edits + 1 > s.edit
  <2>1. \A s \in Settings : s.edit \in Nat
    BY <1>2 DEF Settings
  <2>2. QED  BY <1>2, <2>1
<1>9. \A i \in DOMAIN saved.files : saved.files[i].file = Config =>
        saved.files[i].was \in Settings /\ saved.files[i].was.edit <= edits
  BY DEF InstallInv, EditsPast
<1>10. InstallTyped'
  <2>1. \A g \in File : disk'[g] \in Content[g]
    BY <1>2, <1>3, <1>4, ContentIs
  <2>2. edits' \in Nat /\ edits' \in 0 .. MaxEdits
    BY <1>1, <1>2
  <2>3. QED  BY <1>1, <1>3, <2>1, <2>2 DEF InstallInv, InstallTyped, InstallTypeOK
<1>11. EditsPast'
  <2>1. \A i \in DOMAIN job.plan : job.plan[i].file = Config => job.plan[i].bytes.edit <= edits + 1
    <3>1. TAKE i \in DOMAIN job.plan
    <3>2. HAVE job.plan[i].file = Config
    <3>3. job.plan[i].bytes \in Settings
      BY <3>2, ContentIs DEF InstallInv, InstallTyped
    <3>4. QED  BY <1>8, <3>2, <3>3 DEF InstallInv, EditsPast
  <2>2. QED  BY <1>1, <1>2, <1>4, <1>8, <1>9, <2>1 DEF EditsPast
<1>12. NamesWhatIsThere'
  <2>1. disk[Manifest] # Absent => disk[Manifest].names \in Versions
    BY <1>7, ContentIs
  <2>2. QED  BY <1>6, <1>7, <2>1 DEF InstallInv, NamesWhatIsThere
<1>13. RunBegun' /\ Seen' /\ StagedOnce' /\ KeysFollow' /\ KeysBegun' /\ FaultsMet'
  BY <1>1 DEF InstallInv, RunBegun, Seen, StagedOnce, KeysFollow, KeysBegun, FaultsMet, PlanIs
<1>14. FoundNames'
  <2>1. \A i \in DOMAIN saved.files : saved.files[i].file = Manifest /\ saved.files[i].was # Absent =>
          saved.files[i].was.names \in Versions
    BY ContentIs DEF InstallInv, InstallTyped
  <2>2. QED  BY <1>1, <1>6, <2>1 DEF InstallInv, FoundNames
<1>15. DiskFollows'
  <2>1. Applied' = Applied
    BY <1>1 DEF Applied
  <2>2. ASSUME step \in Running, NEW m \in DOMAIN job.prepared
        PROVE  LET p == job.prepared[m] IN
               IsOrEdited(p.file, IF m <= Applied THEN p.bytes ELSE p.original, p.original)'
    <3>1. PICK i \in 1 .. Len(saved.files) : /\ saved.files[i].was = job.prepared[m].original
                                             /\ saved.files[i].file = job.prepared[m].file
      BY <1>5, <2>2, PreparedSeen
    <3>2. job.prepared[m].file \in File
      BY <1>5, PreparedFacts DEF InstallInv
    <3>3. IsOrEdited(job.prepared[m].file,
                     IF m <= Applied THEN job.prepared[m].bytes ELSE job.prepared[m].original,
                     job.prepared[m].original)
      BY <1>5, <2>2, PreparedSeen
    <3>4. CASE job.prepared[m].file = Config
      BY <1>1, <1>5, <1>8, <1>9, <3>1, <3>4 DEF IsOrEdited
    <3>5. CASE job.prepared[m].file # Config
      BY <1>1, <1>3, <2>1, <3>2, <3>3, <3>5 DEF IsOrEdited
    <3>6. QED  BY <3>4, <3>5
  <2>3. ASSUME step \in Running, NEW i \in DOMAIN saved.files
        PROVE  LET s == saved.files[i] IN
               \/ IsOrEdited(s.file, s.was, s.was)'
               \/ \E m \in DOMAIN job.prepared : job.prepared[m].file = s.file
    <3>1. saved.files[i].file \in File
      <4>1. saved.files \in Seq([file : File, was : Bytes]) /\ i \in 1 .. Len(saved.files)
        BY <1>5, JobFacts DEF InstallInv
      <4>2. saved.files[i] \in [file : File, was : Bytes]
        BY <4>1, ElementOfSeq
      <4>3. QED  BY <4>2
    <3>2. CASE saved.files[i].file = Config
      BY <1>1, <1>8, <1>9, <3>2 DEF IsOrEdited
    <3>3. CASE saved.files[i].file # Config
      BY <1>1, <1>3, <2>3, <3>1, <3>3 DEF InstallInv, DiskFollows, IsOrEdited
    <3>4. QED  BY <3>2, <3>3
  <2>4. QED  BY <1>1, <2>1, <2>2, <2>3 DEF DiskFollows
<1>16. FailureLeavesAsFound'
  <2>1. ASSUME step = "failed", job.met <= 1, NEW i \in DOMAIN saved.files
        PROVE  \/ disk'[saved.files[i].file] = saved.files[i].was
               \/ saved.files[i].file = Config /\ edits' > saved.files[i].was.edit
    <3>1. saved.files[i].file \in File
      <4>1. saved.files \in Seq([file : File, was : Bytes]) /\ i \in 1 .. Len(saved.files)
        BY <1>5, JobFacts DEF InstallInv
      <4>2. saved.files[i] \in [file : File, was : Bytes]
        BY <4>1, ElementOfSeq
      <4>3. QED  BY <4>2
    <3>2. CASE saved.files[i].file = Config
      BY <1>1, <1>8, <1>9, <3>2
    <3>3. CASE saved.files[i].file # Config
      BY <1>3, <2>1, <3>1, <3>3 DEF InstallInv, FailureLeavesAsFound
    <3>4. QED  BY <3>2, <3>3
  <2>2. QED  BY <1>1, <2>1 DEF InstallInv, FailureLeavesAsFound
<1>17. FailsOnlyOnFault'
  <2>1. step = "refused" => job.release.version \in Versions
    BY VersionOf DEF InstallInv, InstallTyped
  <2>2. QED  BY <1>1, <1>6, <2>1 DEF InstallInv, FailsOnlyOnFault
<1>18. QED  BY <1>10, <1>11, <1>12, <1>13, <1>14, <1>15, <1>16, <1>17 DEF InstallInv

LEMMA InstallBegins ==
    ASSUME InstallInit
    PROVE  InstallInv
<1>1. /\ step = "out" /\ job = NoJob /\ saved = NothingSaved /\ staged = {} /\ backups = {}
      /\ edits = 0 /\ attempts = 0 /\ registry \in [1 .. Keys -> {"none", "other"}]
      /\ disk = [f \in File |-> IF f = Config THEN [edit |-> 0, entry |-> FALSE] ELSE Absent]
  BY DEF InstallInit
<1>2. /\ job \in JobType /\ job.plan = <<>> /\ job.prepared = <<>> /\ job.changed = <<>>
      /\ saved \in SavedType /\ saved.files = <<>>
  BY <1>1, NoJobIs, SavedNothing
<1>3. /\ DOMAIN disk = File /\ disk[Config] \in Settings /\ disk[Config].edit = 0
      /\ \A f \in File : f # Config => disk[f] = Absent
  BY <1>1, ContentIs, InstallConstants DEF Settings
<1>4. \A f \in File : disk[f] \in Content[f]
  <2>1. \A f \in File : Absent \in Content[f]
    BY DEF Content
  <2>2. QED  BY <1>3, <2>1, ContentIs
<1>5. InstallTyped
  <2>1. InstallTypeOK
    BY <1>1, <1>2, <1>3, <1>4, InstallConstants DEF InstallTypeOK, Steps, Ended
  <2>2. QED  BY <1>1, <1>2, <2>1, InstallConstants DEF InstallTyped
<1>6. EditsPast
  BY <1>1, <1>2, <1>3 DEF EditsPast
<1>7. NamesWhatIsThere
  BY <1>3, ContentIs, FilesDiffer DEF NamesWhatIsThere
<1>8. RunBegun /\ Seen /\ DiskFollows /\ FoundNames
  BY <1>1 DEF RunBegun, Seen, DiskFollows, FoundNames, Running, Applying
<1>9. StagedOnce /\ KeysFollow /\ KeysBegun /\ FaultsMet
  BY <1>1, <1>2 DEF StagedOnce, KeysFollow, KeysBegun, FaultsMet, Applying
<1>10. FailureLeavesAsFound /\ FailsOnlyOnFault
  BY <1>1 DEF FailureLeavesAsFound, FailsOnlyOnFault
<1>11. QED  BY <1>5, <1>6, <1>7, <1>8, <1>9, <1>10 DEF InstallInv

LEMMA InstallStutter ==
    ASSUME InstallInv, UNCHANGED vars
    PROVE  InstallInv'
<1>1. UNCHANGED <<disk, staged, backups, registry, step, job, saved, edits, attempts>>
  BY DEF vars
<1>2. /\ InstallTyped' /\ EditsPast' /\ NamesWhatIsThere' /\ RunBegun' /\ Seen'
  <2>1. InstallTyped'
    BY <1>1, Zenon DEF InstallInv, InstallTyped, InstallTypeOK
  <2>2. EditsPast' /\ NamesWhatIsThere'
    BY <1>1, Zenon DEF InstallInv, EditsPast, NamesWhatIsThere
  <2>3. RunBegun' /\ Seen'
    BY <1>1 DEF InstallInv, RunBegun, PlanIs, Seen
  <2>4. QED  BY <2>1, <2>2, <2>3
<1>3. DiskFollows' /\ FoundNames'
  BY <1>1 DEF InstallInv, DiskFollows, IsOrEdited, Applied, FoundNames
<1>4. StagedOnce' /\ KeysFollow' /\ KeysBegun' /\ FaultsMet'
  BY <1>1 DEF InstallInv, StagedOnce, KeysFollow, KeysBegun, FaultsMet
<1>5. FailureLeavesAsFound' /\ FailsOnlyOnFault'
  BY <1>1 DEF InstallInv, FailureLeavesAsFound, FailsOnlyOnFault
<1>6. QED  BY <1>2, <1>3, <1>4, <1>5 DEF InstallInv

LEMMA FaultsCounted ==
    ASSUME faults \in Nat, [InstallNext]_vars
    PROVE  faults' \in Nat
<1>1. CASE faults' = faults \/ faults' = faults + 1
  BY <1>1
<1>2. Register => faults' = faults \/ faults' = faults + 1
  BY DEF Register
<1>3. InstallNext => faults' = faults \/ faults' = faults + 1
  <2>1. ASSUME NEW r \in Release, NEW d \in BOOLEAN, Start(r, d)
        PROVE  faults' = faults
    BY <2>1 DEF Start
  <2>2. FindHost \/ Plan \/ Prepare \/ Prepared \/ Stage \/ Backup \/ Copied
          => faults' = faults \/ faults' = faults + 1
    BY DEF FindHost, Plan, Prepare, Prepared, Stage, Backup, Copied, Fault, NoFault
  <2>3. Rename \/ Synced \/ RegisterFails \/ Unregister \/ UndoFile \/ UndoEnds \/ Kill \/ ClientSaves
          => faults' = faults \/ faults' = faults + 1
    BY DEF Rename, Synced, RegisterFails, Unregister, UndoFile, UndoEnds, Kill, ClientSaves,
           Fault, NoFault
  <2>4. QED  BY <1>2, <2>1, <2>2, <2>3 DEF InstallNext
<1>4. (UNCHANGED vars) => faults' = faults
  BY DEF vars
<1>5. QED  BY <1>1, <1>3, <1>4

LEMMA InstallStep ==
    ASSUME InstallInv, faults \in Nat, [InstallNext]_vars
    PROVE  InstallInv'
<1>1. ASSUME NEW r \in Release, NEW dry \in BOOLEAN, Start(r, dry)
      PROVE  InstallInv'
  BY <1>1, InstallStart
<1>2. CASE FindHost
  BY <1>2, InstallFindHost
<1>3. CASE Plan
  BY <1>3, InstallPlan
<1>4. CASE Prepare
  BY <1>4, InstallPrepare
<1>5. CASE Prepared
  BY <1>5, InstallPrepared
<1>6. CASE Stage
  BY <1>6, InstallStage
<1>7. CASE Backup
  BY <1>7, InstallBackup
<1>8. CASE Copied
  BY <1>8, InstallCopied
<1>9. CASE Rename
  BY <1>9, InstallRename
<1>10. CASE Synced
  BY <1>10, InstallSynced
<1>11. CASE Register
  BY <1>11, InstallRegister
<1>12. CASE RegisterFails
  BY <1>12, InstallRegisterFails
<1>13. CASE Unregister
  BY <1>13, InstallUnregister
<1>14. CASE UndoFile
  BY <1>14, InstallUndoFile
<1>15. CASE UndoEnds
  BY <1>15, InstallUndoEnds
<1>16. CASE Kill
  BY <1>16, InstallKill
<1>17. CASE ClientSaves
  BY <1>17, InstallClientSaves
<1>18. CASE UNCHANGED vars
  BY <1>18, InstallStutter
<1>19. QED
  BY <1>1, <1>2, <1>3, <1>4, <1>5, <1>6, <1>7, <1>8, <1>9, <1>10, <1>11, <1>12, <1>13, <1>14,
     <1>15, <1>16, <1>17, <1>18 DEF InstallNext

\* Whatever step an install is killed at, a receipt stands beside its host and the
\* browser's manifest names a host that is there; a run that fails at one step puts back
\* every file and every key it found, but for a configuration the client saved meanwhile;
\* and no run fails but for a fault of its own (applyTransaction, registerWindows).
THEOREM InstallIsAllOrNothing == InstallSpec => []InstallsAllOrNothing
<1>1. InstallInit => InstallInv /\ faults \in Nat
  BY InstallBegins DEF InstallInit
<1>2. InstallInv /\ faults \in Nat /\ [InstallNext]_vars => (InstallInv /\ faults \in Nat)'
  BY InstallStep, FaultsCounted
<1>3. InstallInv => InstallsAllOrNothing
  BY DEF InstallInv, InstallTyped, InstallsAllOrNothing
<1>4. QED  BY <1>1, <1>2, <1>3, PTL DEF InstallSpec

--------------------------------
(* Downloads: a cursor outlives the beginning of its download, so that a download that   *)
(* begins finds the cursor of its action armed or as a tombstone                          *)

CursorStates == {"none", "armed", "completed", "canceled", "ambiguous", "detached"}
CursorType == [state : CursorStates, expires : 0..(MaxDownloadTime + Retention),
               download : Expecting \cup {NoAction}]
EntryType == [status : {"none", "in_progress", "completed", "canceled"}, since : 0..MaxDownloadTime,
              cursor : Expecting \cup {NoAction}]
ReportType == [what : {"begins", "completed", "canceled", "detached"}, of : Expecting \cup {NoAction}]

Told(what, a) == \E i \in DOMAIN reports : reports[i].what = what /\ reports[i].of = a
Occurred(a) == \E i \in DOMAIN started : started[i] = a
IsLast(a) == Len(started) > 0 /\ started[Len(started)] = a

DownloadTyped ==
  /\ DownloadTypeOK
  /\ reports \in Seq(ReportType) /\ started \in Seq(PageAction)
  /\ due \in [Expecting -> Nat] /\ \A a \in Expecting : due[a] <= downloadNow + Retention

\* Only the last action has an armed cursor, and each action causes its download once.
ActionsInOrder ==
  /\ performing.act # NoAction => IsLast(performing.act)
  /\ \A a \in Expecting :
       /\ cursor[a].state = "armed" => IsLast(a)
       /\ cursor[a].state # "none" => Occurred(a)
       /\ page[a] # "none" => Occurred(a) /\ performing.act # a

\* What lost its download did so to another action or to the end of a session.
Overlapped(a) == Overtaken(a) \/ \E b \in Expecting : Before(b, a)
LossesExplained ==
  /\ \A a \in Expecting : /\ cursor[a].state = "ambiguous" => Overlapped(a)
                          /\ cursor[a].state = "detached" => cuts > 0
  /\ \A i \in DOMAIN reports : reports[i].what = "detached" => cuts > 0
  /\ OnlyOverlapsLose

\* The worker has a session until it hears of its end, which is the last it hears of it.
SessionReports ==
  /\ cdpAttached => tracked
  /\ ~tracked => DOMAIN reports = {}
  /\ \A i \in DOMAIN reports : reports[i].what = "detached" => i = Len(reports) /\ ~cdpAttached

\* A download begins once, and what is reported has happened.
ReportsTrue ==
  /\ \A i \in DOMAIN reports :
       /\ reports[i].what # "detached" => reports[i].of \in Expecting
       /\ reports[i].what = "begins" =>
            /\ page[reports[i].of] \notin {"none", "due"} /\ entry[reports[i].of].status = "none"
            /\ \A j \in DOMAIN reports :
                 reports[j].what = "begins" /\ reports[j].of = reports[i].of => j = i
       /\ reports[i].what \in {"completed", "canceled"} => page[reports[i].of] = reports[i].what
  /\ \A a \in Expecting : entry[a].status # "none" => page[a] \notin {"none", "due"}

\* A download that can still begin, or has begun unheard, finds its cursor.
CanBegin(a) == page[a] = "due" \/ performing = [act |-> a, at |-> "ready"]
FindsItsCursor(a) == cursor[a].state \in {"armed", "ambiguous"} /\ downloadNow <= cursor[a].expires
CursorsAwait ==
  \A a \in Expecting :
    /\ CanBegin(a) => /\ FindsItsCursor(a)
                      /\ due[a] <= cursor[a].expires /\ downloadNow <= due[a]
    /\ Told("begins", a) => FindsItsCursor(a)

CursorsOwn ==
  \A a \in Expecting :
    /\ entry[a].cursor \in {a, NoAction}
    /\ cursor[a].state \in {"completed", "canceled"} => page[a] = cursor[a].state
    /\ cursor[a].state = "completed" => cursor[a].download = a
    /\ answers[a] \cap {"completed", "canceled"} \subseteq {page[a]}

DownloadInv ==
  /\ DownloadTyped /\ ActionsInOrder /\ LossesExplained /\ SessionReports /\ ReportsTrue
  /\ unarmed = {} => CursorsAwait /\ CursorsOwn

--------------------------------
\* The helpers on the cursors, and on what Chrome reports

LEMMA KeptIs ==
  ASSUME DownloadTyped
  PROVE  /\ Kept(cursor) \in [Expecting -> CursorType]
         /\ \A a \in Expecting :
              /\ cursor[a] \in CursorType
              /\ Kept(cursor)[a] = cursor[a] \/ Kept(cursor)[a].state = "none"
              /\ downloadNow <= cursor[a].expires => Kept(cursor)[a] = cursor[a]
  <1>1. cursor \in [Expecting -> CursorType]
    BY DEF DownloadTyped, DownloadTypeOK, CursorType, CursorStates
  <1>2. NoCursor \in CursorType /\ NoCursor.state = "none"
    BY DownloadConstants DEF NoCursor, CursorType, CursorStates
  <1>3. downloadNow \in Nat /\ \A a \in Expecting : cursor[a].expires \in Nat
    BY <1>1, DownloadConstants DEF DownloadTyped, DownloadTypeOK, CursorType
  <1> QED
    BY <1>1, <1>2, <1>3 DEF Kept

LEMMA MovedIs ==
  ASSUME DownloadTyped, NEW from \in CursorStates, NEW to \in CursorStates, from # to,
         NEW c \in [Expecting -> CursorType]
  PROVE  /\ Moved(c, from, to) \in [Expecting -> CursorType]
         /\ \A a \in Expecting :
              /\ Moved(c, from, to)[a].state # from
              /\ c[a].state # from => Moved(c, from, to)[a] = c[a]
              /\ c[a].state = from => /\ Moved(c, from, to)[a].state = to
                                      /\ Moved(c, from, to)[a].expires = downloadNow + Retention
  <1>1. downloadNow + Retention \in 0..(MaxDownloadTime + Retention)
    BY DownloadConstants DEF DownloadTyped, DownloadTypeOK
  <1> DEFINE M(a) == [c[a] EXCEPT !.state = to, !.expires = downloadNow + Retention]
  <1>2. \A a \in Expecting : /\ M(a) \in CursorType /\ M(a).state = to
                             /\ M(a).expires = downloadNow + Retention
    BY <1>1 DEF CursorType
  <1>3. Moved(c, from, to) = [a \in Expecting |-> IF c[a].state = from THEN M(a) ELSE c[a]]
    BY DEF Moved
  <1> HIDE DEF M
  <1> QED
    BY <1>2, <1>3

LEMMA EntriesAre ==
  ASSUME DownloadTyped
  PROVE  /\ entry \in [Expecting -> EntryType] /\ NoEntry \in EntryType
         /\ KeptEntries \in [Expecting -> EntryType]
         /\ \A a \in Expecting : KeptEntries[a] \in {entry[a], NoEntry}
  <1>1. entry \in [Expecting -> EntryType] /\ NoEntry \in EntryType
    BY DownloadConstants DEF DownloadTyped, DownloadTypeOK, EntryType, NoEntry
  <1> QED
    BY <1>1 DEF KeptEntries

\* What stands behind the first report.
LEMMA TailReports ==
  ASSUME DownloadTyped, reports # <<>>, reports' = Tail(reports)
  PROVE  /\ reports' \in Seq(ReportType)
         /\ Head(reports) = reports[1] /\ 1 \in DOMAIN reports /\ reports[1] \in ReportType
         /\ Len(reports) \in Nat \ {0} /\ Len(reports') = Len(reports) - 1
         /\ DOMAIN reports = 1 .. Len(reports) /\ DOMAIN reports' = 1 .. Len(reports')
         /\ \A i \in DOMAIN reports' : /\ reports'[i] = reports[i + 1] /\ i + 1 \in DOMAIN reports
  BY DEF DownloadTyped

\* A report that joins the queue.
LEMMA MoreReports ==
  ASSUME DownloadTyped, NEW r \in ReportType, reports' = Append(reports, r)
  PROVE  /\ reports' \in Seq(ReportType)
         /\ Len(reports) \in Nat /\ Len(reports') = Len(reports) + 1
         /\ DOMAIN reports = 1 .. Len(reports) /\ DOMAIN reports' = 1 .. Len(reports')
         /\ reports'[Len(reports')] = r
         /\ \A i \in DOMAIN reports : reports'[i] = reports[i] /\ i \in DOMAIN reports'
         /\ \A i \in DOMAIN reports' : i \in DOMAIN reports \/ i = Len(reports')
  BY DEF DownloadTyped

\* A session that is acquired keeps the entries or drops them, and makes no report.
LEMMA AttachedIs ==
  ASSUME DownloadInv, Attached, page' = page, reports' = reports
  PROVE  /\ entry' \in [Expecting -> EntryType] /\ tracked' = TRUE /\ cdpAttached' \in BOOLEAN
         /\ \A a \in Expecting : entry'[a] \in {entry[a], NoEntry}
         /\ SessionReports' /\ ReportsTrue'
  <1>1. entry' \in [Expecting -> EntryType] /\ \A a \in Expecting : entry'[a] \in {entry[a], NoEntry}
    BY EntriesAre DEF Attached, DownloadInv
  <1>2. tracked' = TRUE /\ cdpAttached' \in BOOLEAN
    BY DEF Attached, DownloadInv, DownloadTyped, DownloadTypeOK
  <1>3. SessionReports'
    BY DEF Attached, DownloadInv, SessionReports
  <1>4. NoEntry.status = "none" BY DEF NoEntry
  <1>5. ReportsTrue'
    BY <1>1, <1>4 DEF DownloadInv, ReportsTrue
  <1> QED
    BY <1>1, <1>2, <1>3, <1>5

\* An action that joins the others overtakes the last of them.
LEMMA MoreStarted ==
  ASSUME DownloadTyped, NEW a \in PageAction, started' = Append(started, a)
  PROVE  /\ started' \in Seq(PageAction) /\ IsLast(a)'
         /\ \A b \in PageAction : /\ Occurred(b) => Occurred(b)'
                                  /\ Overlapped(b) => Overlapped(b)'
                                  /\ IsLast(b) => Overtaken(b)'
  <1>1. started \in Seq(PageAction) /\ Len(started) \in Nat BY DEF DownloadTyped
  <1>2. /\ started' \in Seq(PageAction) /\ Len(started') = Len(started) + 1
        /\ DOMAIN started = 1 .. Len(started) /\ DOMAIN started' = 1 .. Len(started')
        /\ started'[Len(started')] = a
        /\ \A i \in DOMAIN started : started'[i] = started[i] /\ i \in DOMAIN started'
    BY <1>1
  <1>3. IsLast(a)'
    BY <1>1, <1>2 DEF IsLast
  <1>4. ASSUME NEW b \in PageAction
        PROVE  /\ Occurred(b) => Occurred(b)'
               /\ IsLast(b) => Overtaken(b)'
    <2>1. Occurred(b) => Occurred(b)'
      BY <1>2 DEF Occurred
    <2>2. ASSUME IsLast(b) PROVE Overtaken(b)'
      <3>1. /\ Len(started) \in DOMAIN started' /\ Len(started') \in DOMAIN started'
            /\ Len(started) < Len(started') /\ started'[Len(started)] = b
        <4>1. Len(started) > 0 /\ started[Len(started)] = b BY <2>2 DEF IsLast
        <4>2. Len(started) \in DOMAIN started BY <1>1, <1>2, <4>1
        <4>3. Len(started') \in DOMAIN started' /\ Len(started) < Len(started') BY <1>1, <1>2
        <4> QED
          BY <1>2, <4>1, <4>2, <4>3
      <3> QED
        BY <3>1 DEF Overtaken
    <2> QED
      BY <2>1, <2>2
  <1>5. ASSUME NEW b \in PageAction, Overlapped(b) PROVE Overlapped(b)'
    <2>1. Overtaken(b) => Overtaken(b)'
      BY <1>2 DEF Overtaken
    <2>2. ASSUME NEW c \in Expecting, Before(c, b) PROVE Before(c, b)'
      BY <1>2, <2>2 DEF Before
    <2> QED
      BY <1>5, <2>1, <2>2 DEF Overlapped
  <1> QED
    BY <1>2, <1>3, <1>4, <1>5

LEMMA StartActionKeeps ==
  ASSUME DownloadInv, NEW a \in PageAction, StartAction(a)
  PROVE  DownloadInv'
  <1> USE DownloadConstants
  <1>t. DownloadTyped BY DEF DownloadInv
  <1>1. /\ performing = NotPerforming /\ cursor' = PendingInvalidated(cursor)
        /\ performing' = [act |-> a, at |-> IF a \in Expecting THEN "arming" ELSE "ready"]
        /\ started' = Append(started, a) /\ ~Occurred(a)
        /\ due' = due /\ entry' = entry /\ tracked' = tracked /\ handed' = handed
        /\ waitFor' = waitFor /\ page' = page /\ cdpAttached' = cdpAttached /\ reports' = reports
        /\ downloadNow' = downloadNow /\ cuts' = cuts /\ answers' = answers /\ unarmed' = unarmed
    BY DEF StartAction, Occurred
  <1>2. /\ cursor \in [Expecting -> CursorType] /\ cursor' \in [Expecting -> CursorType]
        /\ \A b \in Expecting :
             /\ cursor'[b].state # "armed"
             /\ cursor[b].state # "armed" => cursor'[b] = cursor[b]
             /\ cursor[b].state = "armed" => /\ cursor'[b].state = "ambiguous"
                                             /\ cursor'[b].expires = downloadNow + Retention
    <2>1. cursor \in [Expecting -> CursorType]
      BY <1>t DEF DownloadTyped, DownloadTypeOK, CursorType, CursorStates
    <2>2. "armed" \in CursorStates /\ "ambiguous" \in CursorStates BY DEF CursorStates
    <2> QED
      BY <1>t, <1>1, <2>1, <2>2, MovedIs DEF PendingInvalidated
  <1>3. /\ started' \in Seq(PageAction) /\ IsLast(a)'
        /\ \A b \in PageAction : /\ Occurred(b) => Occurred(b)'
                                 /\ Overlapped(b) => Overlapped(b)'
                                 /\ IsLast(b) => Overtaken(b)'
    BY <1>t, <1>1, MoreStarted
  <1>4. performing' \in [act : PageAction \cup {NoAction}, at : {"idle", "arming", "ready"}]
    BY <1>1
  <1>5. DownloadTyped'
    BY <1>t, <1>1, <1>2, <1>3, <1>4 DEF DownloadTyped, DownloadTypeOK, CursorType, CursorStates
  <1>6. ActionsInOrder'
    <2>1. performing'.act = a BY <1>1
    <2>2. performing.act = NoAction BY <1>1 DEF NotPerforming
    <2> QED
      BY <1>1, <1>2, <1>3, <2>1, <2>2 DEF DownloadInv, ActionsInOrder
  <1>7. LossesExplained'
    <2>1. ASSUME NEW b \in Expecting
          PROVE  /\ cursor'[b].state = "ambiguous" => Overlapped(b)'
                 /\ cursor'[b].state = "detached" => cuts' > 0
      BY <1>1, <1>2, <1>3 DEF DownloadInv, LossesExplained, ActionsInOrder, Overlapped
    <2>2. OnlyOverlapsLose'
      BY <1>1, <1>3 DEF DownloadInv, LossesExplained, OnlyOverlapsLose, Overlapped
    <2> QED
      BY <1>1, <2>1, <2>2 DEF DownloadInv, LossesExplained
  <1>8. SessionReports' /\ ReportsTrue'
    BY <1>1 DEF DownloadInv, SessionReports, ReportsTrue
  <1>9. ASSUME unarmed' = {} PROVE CursorsAwait' /\ CursorsOwn'
    <2>1. CursorsAwait /\ CursorsOwn BY <1>1, <1>9 DEF DownloadInv
    <2>2. ASSUME NEW b \in Expecting, FindsItsCursor(b) PROVE FindsItsCursor(b)'
      BY <1>t, <1>1, <1>2, <2>2 DEF FindsItsCursor, DownloadTyped, DownloadTypeOK
    <2>3. ASSUME NEW b \in Expecting PROVE CanBegin(b)' => page[b] = "due"
      BY <1>1 DEF CanBegin
    <2>4. ASSUME NEW b \in Expecting, CanBegin(b)'
          PROVE  FindsItsCursor(b)' /\ due'[b] <= cursor'[b].expires /\ downloadNow' <= due'[b]
      <3>1. /\ FindsItsCursor(b) /\ due[b] <= cursor[b].expires /\ downloadNow <= due[b]
        BY <2>1, <2>3, <2>4 DEF CursorsAwait, CanBegin
      <3>2. due[b] <= downloadNow + Retention BY <1>t DEF DownloadTyped
      <3> QED
        BY <1>1, <1>2, <2>2, <3>1, <3>2
    <2>5. CursorsAwait'
      BY <1>1, <2>1, <2>2, <2>4 DEF CursorsAwait, Told
    <2>6. CursorsOwn'
      BY <1>1, <1>2, <2>1 DEF CursorsOwn
    <2> QED
      BY <2>5, <2>6
  <1> QED
    BY <1>5, <1>6, <1>7, <1>8, <1>9 DEF DownloadInv

LEMMA ArmKeeps ==
  ASSUME DownloadInv, NEW a \in Expecting, Arm(a)
  PROVE  DownloadInv'
  <1> USE DownloadConstants
  <1>t. DownloadTyped BY DEF DownloadInv
  <1> DEFINE k == PendingInvalidated(Kept(cursor))
             new == [state |-> "armed", expires |-> downloadNow + Retention, download |-> NoAction]
  <1>1. /\ performing = [act |-> a, at |-> "arming"] /\ Attached /\ cursor' = [k EXCEPT ![a] = new]
        /\ performing' = [performing EXCEPT !.at = "ready"]
        /\ due' = [due EXCEPT ![a] = downloadNow + Retention]
        /\ handed' = handed /\ waitFor' = waitFor /\ page' = page /\ reports' = reports
        /\ downloadNow' = downloadNow /\ cuts' = cuts /\ started' = started /\ answers' = answers
        /\ unarmed' = unarmed
    BY DEF Arm
  <1>2. /\ performing' = [act |-> a, at |-> "ready"] /\ performing.act = a /\ performing'.act = a
        /\ \A b \in Expecting : performing # [act |-> b, at |-> "ready"]
    BY <1>1
  <1>3. IsLast(a) /\ \A b \in Expecting : cursor[b].state = "armed" => b = a
    BY <1>2 DEF DownloadInv, ActionsInOrder, IsLast
  <1>4. /\ Kept(cursor) \in [Expecting -> CursorType]
        /\ \A b \in Expecting :
              /\ cursor[b] \in CursorType
              /\ Kept(cursor)[b] = cursor[b] \/ Kept(cursor)[b].state = "none"
              /\ downloadNow <= cursor[b].expires => Kept(cursor)[b] = cursor[b]
    BY <1>t, KeptIs
  <1>5. k \in [Expecting -> CursorType] /\ \A b \in Expecting : b # a => k[b] = Kept(cursor)[b]
    <2>1. "armed" \in CursorStates /\ "ambiguous" \in CursorStates BY DEF CursorStates
    <2>2. \A b \in Expecting : b # a => Kept(cursor)[b].state # "armed" BY <1>3, <1>4
    <2> QED
      BY <1>t, <1>4, <2>1, <2>2, MovedIs DEF PendingInvalidated
  <1>6. new \in CursorType /\ new.state = "armed" /\ new.expires = downloadNow + Retention
    BY <1>t DEF DownloadTyped, DownloadTypeOK, CursorType, CursorStates
  <1> HIDE DEF k, new
  <1>7. /\ cursor' \in [Expecting -> CursorType] /\ cursor'[a] = new
        /\ \A b \in Expecting : b # a =>
             /\ cursor'[b] = cursor[b] \/ cursor'[b].state = "none"
             /\ downloadNow <= cursor[b].expires => cursor'[b] = cursor[b]
    BY <1>1, <1>4, <1>5, <1>6
  <1>8. /\ entry' \in [Expecting -> EntryType] /\ tracked' = TRUE /\ cdpAttached' \in BOOLEAN
        /\ \A b \in Expecting : entry'[b] \in {entry[b], NoEntry}
        /\ SessionReports' /\ ReportsTrue'
    BY <1>1, AttachedIs
  <1>9. due' \in [Expecting -> Nat] /\ due'[a] = downloadNow + Retention
        /\ \A b \in Expecting : b # a => due'[b] = due[b]
    BY <1>t, <1>1 DEF DownloadTyped, DownloadTypeOK
  <1>10. DownloadTyped'
    <2>1. performing' \in [act : PageAction \cup {NoAction}, at : {"idle", "arming", "ready"}]
      BY <1>2
    <2>2. \A b \in Expecting : due'[b] <= downloadNow' + Retention
      BY <1>t, <1>1, <1>9 DEF DownloadTyped, DownloadTypeOK
    <2>3. tracked' \in BOOLEAN BY <1>8
    <2> QED
      BY <1>t, <1>1, <1>7, <1>8, <1>9, <2>1, <2>2, <2>3
         DEF DownloadTyped, DownloadTypeOK, CursorType, CursorStates, EntryType
  <1>11. ActionsInOrder'
    BY <1>1, <1>2, <1>3, <1>6, <1>7 DEF DownloadInv, ActionsInOrder, IsLast, Occurred
  <1>12. LossesExplained'
    BY <1>1, <1>6, <1>7 DEF DownloadInv, LossesExplained, OnlyOverlapsLose, Overlapped, Overtaken, Before
  <1>13. ASSUME unarmed' = {} PROVE CursorsAwait' /\ CursorsOwn'
    <2>1. CursorsAwait /\ CursorsOwn BY <1>1, <1>13 DEF DownloadInv
    <2>2. ASSUME NEW b \in Expecting, FindsItsCursor(b) PROVE FindsItsCursor(b)'
      BY <1>t, <1>1, <1>6, <1>7, <2>2 DEF FindsItsCursor, DownloadTyped, DownloadTypeOK
    <2>3. FindsItsCursor(a)' /\ due'[a] <= cursor'[a].expires /\ downloadNow' <= due'[a]
      BY <1>t, <1>1, <1>6, <1>7, <1>9 DEF FindsItsCursor, DownloadTyped, DownloadTypeOK
    <2>4. ASSUME NEW b \in Expecting, b # a, CanBegin(b)'
          PROVE  FindsItsCursor(b)' /\ due'[b] <= cursor'[b].expires /\ downloadNow' <= due'[b]
      <3>1. CanBegin(b) BY <1>1, <1>2, <2>4 DEF CanBegin
      <3>2. /\ FindsItsCursor(b) /\ due[b] <= cursor[b].expires /\ downloadNow <= due[b]
        BY <2>1, <3>1 DEF CursorsAwait
      <3>3. cursor'[b] = cursor[b] BY <1>7, <2>4, <3>2 DEF FindsItsCursor
      <3> QED
        BY <1>1, <1>9, <2>2, <2>4, <3>2, <3>3
    <2>5. CursorsAwait'
      BY <1>1, <2>1, <2>2, <2>3, <2>4 DEF CursorsAwait, Told
    <2>6. NoEntry.cursor = NoAction BY DEF NoEntry
    <2>7. CursorsOwn'
      BY <1>1, <1>6, <1>7, <1>8, <2>1, <2>6 DEF CursorsOwn
    <2> QED
      BY <2>5, <2>7
  <1> QED
    BY <1>8, <1>10, <1>11, <1>12, <1>13 DEF DownloadInv

LEMMA DispatchKeeps ==
  ASSUME DownloadInv, NEW a \in PageAction, Dispatch(a)
  PROVE  DownloadInv'
  <1> USE DownloadConstants
  <1>t. DownloadTyped BY DEF DownloadInv
  <1>1. /\ performing = [act |-> a, at |-> "ready"] /\ performing' = NotPerforming
        /\ handed' = handed \cup ({a} \cap Expecting)
        /\ (a \in Expecting /\ page' = [page EXCEPT ![a] = "due"]) \/ page' = page
        /\ due' = due /\ entry' = entry /\ tracked' = tracked /\ cursor' = cursor
        /\ waitFor' = waitFor /\ cdpAttached' = cdpAttached /\ reports' = reports
        /\ downloadNow' = downloadNow /\ cuts' = cuts /\ answers' = answers /\ unarmed' = unarmed
        /\ started' = started
    BY DEF Dispatch
  <1>2. performing.act = a /\ performing'.act = NoAction /\ performing'.at = "idle"
    BY <1>1 DEF NotPerforming
  <1>3. /\ page' \in [Expecting -> {"none", "due", "in_progress", "completed", "canceled"}]
        /\ \A b \in Expecting : b # a => page'[b] = page[b]
        /\ a \in Expecting => /\ page'[a] = "due" \/ page'[a] = page[a]
                              /\ page[a] = "none"
    BY <1>t, <1>1, <1>2 DEF DownloadInv, ActionsInOrder, DownloadTyped, DownloadTypeOK
  <1>4. Occurred(a)
    <2>1. IsLast(a) BY <1>2 DEF DownloadInv, ActionsInOrder
    <2>2. Len(started) \in DOMAIN started BY <1>t, <2>1 DEF IsLast, DownloadTyped
    <2> QED
      BY <2>1, <2>2 DEF IsLast, Occurred
  <1>5. DownloadTyped'
    <2>1. performing' \in [act : PageAction \cup {NoAction}, at : {"idle", "arming", "ready"}]
      BY <1>1 DEF NotPerforming
    <2>2. handed' \subseteq Expecting
      BY <1>t, <1>1 DEF DownloadTyped, DownloadTypeOK
    <2> QED
      BY <1>t, <1>1, <1>3, <2>1, <2>2 DEF DownloadTyped, DownloadTypeOK
  <1>6. ActionsInOrder'
    BY <1>1, <1>2, <1>3, <1>4 DEF DownloadInv, ActionsInOrder, IsLast, Occurred
  <1>7. LossesExplained'
    BY <1>1 DEF DownloadInv, LossesExplained, OnlyOverlapsLose, Overlapped, Overtaken, Before
  <1>8. SessionReports' BY <1>1 DEF DownloadInv, SessionReports
  <1>9. ReportsTrue'
    <2>1. ASSUME NEW b \in Expecting
          PROVE  /\ page[b] \notin {"none", "due"} => page'[b] = page[b]
                 /\ page[b] = "completed" => page'[b] = "completed"
                 /\ page[b] = "canceled" => page'[b] = "canceled"
      BY <1>3
    <2> QED
      BY <1>1, <2>1 DEF DownloadInv, ReportsTrue
  <1>10. ASSUME unarmed' = {} PROVE CursorsAwait' /\ CursorsOwn'
    <2>1. CursorsAwait /\ CursorsOwn BY <1>1, <1>10 DEF DownloadInv
    <2>2. ASSUME NEW b \in Expecting, CanBegin(b)' PROVE CanBegin(b)
      BY <1>1, <1>2, <1>3, <2>2 DEF CanBegin
    <2>3. CursorsAwait'
      BY <1>1, <2>1, <2>2 DEF CursorsAwait, Told, FindsItsCursor
    <2>4. CursorsOwn'
      <3>1. ASSUME NEW b \in Expecting
            PROVE  /\ cursor[b].state \in {"completed", "canceled"} => page'[b] = cursor[b].state
                   /\ answers[b] \cap {"completed", "canceled"} \subseteq {page'[b]}
        BY <1>3, <2>1 DEF CursorsOwn
      <3> QED
        BY <1>1, <2>1, <3>1 DEF CursorsOwn
    <2> QED
      BY <2>3, <2>4
  <1> QED
    BY <1>5, <1>6, <1>7, <1>8, <1>9, <1>10 DEF DownloadInv

LEMMA ActionFailsKeeps ==
  ASSUME DownloadInv, NEW a \in PageAction, ActionFails(a)
  PROVE  DownloadInv'
  <1>1. /\ performing = [act |-> a, at |-> "ready"] /\ performing' = NotPerforming
        /\ handed' = handed /\ page' = page
        /\ due' = due /\ entry' = entry /\ tracked' = tracked /\ cursor' = cursor
        /\ waitFor' = waitFor /\ cdpAttached' = cdpAttached /\ reports' = reports
        /\ downloadNow' = downloadNow /\ cuts' = cuts /\ answers' = answers /\ unarmed' = unarmed
        /\ started' = started
    BY DEF ActionFails
  <1>2. performing'.act = NoAction /\ performing'.at = "idle"
    BY <1>1 DEF NotPerforming
  <1>3. performing' \in [act : PageAction \cup {NoAction}, at : {"idle", "arming", "ready"}]
    BY <1>1 DEF NotPerforming
  <1>4. DownloadTyped'
    BY <1>1, <1>3 DEF DownloadInv, DownloadTyped, DownloadTypeOK
  <1>5. ActionsInOrder'
    BY <1>1, <1>2, DownloadConstants DEF DownloadInv, ActionsInOrder, IsLast, Occurred
  <1>6. LossesExplained'
    BY <1>1 DEF DownloadInv, LossesExplained, OnlyOverlapsLose, Overlapped, Overtaken, Before
  <1>7. SessionReports' /\ ReportsTrue' BY <1>1 DEF DownloadInv, SessionReports, ReportsTrue
  <1>8. ASSUME NEW b \in Expecting, CanBegin(b)' PROVE CanBegin(b)
    BY <1>1, <1>2, <1>8 DEF CanBegin
  <1>9. unarmed' = {} => CursorsAwait' /\ CursorsOwn'
    BY <1>1, <1>8 DEF DownloadInv, CursorsAwait, CursorsOwn, Told, FindsItsCursor
  <1> QED
    BY <1>4, <1>5, <1>6, <1>7, <1>9 DEF DownloadInv

LEMMA DownloadBeginsKeeps ==
  ASSUME DownloadInv, NEW a \in Expecting, DownloadBegins(a)
  PROVE  DownloadInv'
  <1>t. DownloadTyped BY DEF DownloadInv
  <1> DEFINE r == [what |-> "begins", of |-> a]
  <1>1. /\ page[a] = "due" /\ page' = [page EXCEPT ![a] = "in_progress"]
        /\ reports' = IF cdpAttached THEN Append(reports, r) ELSE reports
        /\ due' = due /\ cursor' = cursor /\ entry' = entry /\ tracked' = tracked
        /\ performing' = performing /\ handed' = handed /\ waitFor' = waitFor
        /\ cdpAttached' = cdpAttached /\ downloadNow' = downloadNow /\ cuts' = cuts
        /\ started' = started /\ answers' = answers /\ unarmed' = unarmed
    BY DEF DownloadBegins, DownloadReported
  <1>2. r \in ReportType /\ r.what = "begins" /\ r.of = a BY DEF ReportType
  <1> HIDE DEF r
  <1>3. cdpAttached =>
          /\ reports' \in Seq(ReportType)
          /\ Len(reports) \in Nat /\ Len(reports') = Len(reports) + 1
          /\ DOMAIN reports = 1 .. Len(reports) /\ DOMAIN reports' = 1 .. Len(reports')
          /\ reports'[Len(reports')] = r
          /\ \A i \in DOMAIN reports : reports'[i] = reports[i] /\ i \in DOMAIN reports'
          /\ \A i \in DOMAIN reports' : i \in DOMAIN reports \/ i = Len(reports')
    BY <1>t, <1>1, <1>2, MoreReports
  <1>4. /\ page' \in [Expecting -> {"none", "due", "in_progress", "completed", "canceled"}]
        /\ page'[a] = "in_progress" /\ \A b \in Expecting : b # a => page'[b] = page[b]
    BY <1>t, <1>1 DEF DownloadTyped, DownloadTypeOK
  <1>n. \A i \in DOMAIN reports' : (i \in DOMAIN reports /\ reports'[i] = reports[i])
                                   \/ reports'[i] = r
    BY <1>1, <1>3
  <1>5. DownloadTyped'
    BY <1>t, <1>1, <1>3, <1>4 DEF DownloadTyped, DownloadTypeOK
  <1>6. ActionsInOrder'
    BY <1>1, <1>4 DEF DownloadInv, ActionsInOrder, IsLast, Occurred
  <1>7. LossesExplained'
    BY <1>1, <1>2, <1>n
       DEF DownloadInv, LossesExplained, OnlyOverlapsLose, Overlapped, Overtaken, Before
  <1>8. SessionReports'
    <2>1. CASE ~cdpAttached
      BY <1>1, <2>1 DEF DownloadInv, SessionReports
    <2>2. CASE cdpAttached
      BY <1>1, <1>2, <1>n, <2>2 DEF DownloadInv, SessionReports
    <2> QED
      BY <2>1, <2>2
  <1>9. ReportsTrue'
    <2>1. \A i \in DOMAIN reports : reports[i].what = "begins" => reports[i].of # a
      BY <1>1 DEF DownloadInv, ReportsTrue
    <2>2. entry[a].status = "none"
      BY <1>1 DEF DownloadInv, ReportsTrue
    <2>3. ASSUME NEW b \in Expecting, page[b] \notin {"none", "due"} PROVE page'[b] = page[b]
      BY <1>1, <1>4, <2>3
    <2>4. ASSUME NEW i \in DOMAIN reports'
          PROVE  /\ reports'[i].what # "detached" => reports'[i].of \in Expecting
                 /\ reports'[i].what = "begins" => /\ page'[reports'[i].of] \notin {"none", "due"}
                                                   /\ entry'[reports'[i].of].status = "none"
                 /\ reports'[i].what \in {"completed", "canceled"} =>
                      page'[reports'[i].of] = reports'[i].what
      BY <1>1, <1>2, <1>4, <1>n, <2>2, <2>3 DEF DownloadInv, ReportsTrue
    <2>5. ASSUME NEW i \in DOMAIN reports', NEW j \in DOMAIN reports', reports'[i].what = "begins",
                 reports'[j].what = "begins", reports'[i].of = reports'[j].of
          PROVE  i = j
      <3>1. CASE ~cdpAttached
        BY <1>1, <2>5, <3>1 DEF DownloadInv, ReportsTrue
      <3>2. CASE cdpAttached
        <4>1. CASE i \in DOMAIN reports /\ j \in DOMAIN reports
          BY <1>3, <2>5, <3>2, <4>1 DEF DownloadInv, ReportsTrue
        <4>2. CASE i = Len(reports') /\ j \in DOMAIN reports
          BY <1>2, <1>3, <2>1, <2>5, <3>2, <4>2
        <4>3. CASE j = Len(reports') /\ i \in DOMAIN reports
          BY <1>2, <1>3, <2>1, <2>5, <3>2, <4>3
        <4> QED
          BY <1>3, <3>2, <4>1, <4>2, <4>3
      <3> QED
        BY <3>1, <3>2
    <2>6. ASSUME NEW b \in Expecting, entry'[b].status # "none"
          PROVE  page'[b] \notin {"none", "due"}
      BY <1>1, <2>2, <2>3, <2>6 DEF DownloadInv, ReportsTrue
    <2> QED
      BY <2>4, <2>5, <2>6 DEF ReportsTrue
  <1>10. ASSUME unarmed' = {} PROVE CursorsAwait' /\ CursorsOwn'
    <2>1. CursorsAwait /\ CursorsOwn BY <1>1, <1>10 DEF DownloadInv
    <2>2. FindsItsCursor(a) BY <1>1, <2>1 DEF CursorsAwait, CanBegin
    <2>3. ASSUME NEW b \in Expecting, CanBegin(b)' PROVE CanBegin(b)
      BY <1>1, <1>4, <2>3 DEF CanBegin
    <2>4. ASSUME NEW b \in Expecting, Told("begins", b)' PROVE b = a \/ Told("begins", b)
      BY <1>2, <1>n, <2>4 DEF Told
    <2>5. \A b \in Expecting : FindsItsCursor(b)' <=> FindsItsCursor(b)
      BY <1>1 DEF FindsItsCursor
    <2>6. CursorsAwait'
      BY <1>1, <2>1, <2>2, <2>3, <2>4, <2>5 DEF CursorsAwait
    <2>7. CursorsOwn'
      BY <1>1, <1>4, <2>1 DEF CursorsOwn
    <2> QED
      BY <2>6, <2>7
  <1> QED
    BY <1>5, <1>6, <1>7, <1>8, <1>9, <1>10 DEF DownloadInv

LEMMA DownloadEndsKeeps ==
  ASSUME DownloadInv, NEW a \in Expecting, NEW state \in {"completed", "canceled"},
         DownloadEnds(a, state)
  PROVE  DownloadInv'
  <1>t. DownloadTyped BY DEF DownloadInv
  <1> DEFINE r == [what |-> state, of |-> a]
  <1>1. /\ page[a] = "in_progress" /\ page' = [page EXCEPT ![a] = state]
        /\ reports' = IF cdpAttached THEN Append(reports, r) ELSE reports
        /\ due' = due /\ cursor' = cursor /\ entry' = entry /\ tracked' = tracked
        /\ performing' = performing /\ handed' = handed /\ waitFor' = waitFor
        /\ cdpAttached' = cdpAttached /\ downloadNow' = downloadNow /\ cuts' = cuts
        /\ started' = started /\ answers' = answers /\ unarmed' = unarmed
    BY DEF DownloadEnds, DownloadReported
  <1>2. r \in ReportType /\ r.what = state /\ r.of = a BY DEF ReportType
  <1> HIDE DEF r
  <1>3. cdpAttached =>
          /\ reports' \in Seq(ReportType)
          /\ Len(reports) \in Nat /\ Len(reports') = Len(reports) + 1
          /\ DOMAIN reports = 1 .. Len(reports) /\ DOMAIN reports' = 1 .. Len(reports')
          /\ reports'[Len(reports')] = r
          /\ \A i \in DOMAIN reports : reports'[i] = reports[i] /\ i \in DOMAIN reports'
          /\ \A i \in DOMAIN reports' : i \in DOMAIN reports \/ i = Len(reports')
    BY <1>t, <1>1, <1>2, MoreReports
  <1>4. /\ page' \in [Expecting -> {"none", "due", "in_progress", "completed", "canceled"}]
        /\ page'[a] = state /\ \A b \in Expecting : b # a => page'[b] = page[b]
    BY <1>t, <1>1 DEF DownloadTyped, DownloadTypeOK
  <1>n. \A i \in DOMAIN reports' : (i \in DOMAIN reports /\ reports'[i] = reports[i])
                                   \/ reports'[i] = r
    BY <1>1, <1>3
  <1>5. DownloadTyped'
    BY <1>t, <1>1, <1>3, <1>4 DEF DownloadTyped, DownloadTypeOK
  <1>6. ActionsInOrder'
    BY <1>1, <1>4 DEF DownloadInv, ActionsInOrder, IsLast, Occurred
  <1>7. LossesExplained'
    BY <1>1, <1>2, <1>n
       DEF DownloadInv, LossesExplained, OnlyOverlapsLose, Overlapped, Overtaken, Before
  <1>8. SessionReports'
    <2>1. CASE ~cdpAttached
      BY <1>1, <2>1 DEF DownloadInv, SessionReports
    <2>2. CASE cdpAttached
      BY <1>1, <1>2, <1>n, <2>2 DEF DownloadInv, SessionReports
    <2> QED
      BY <2>1, <2>2
  <1>9. ReportsTrue'
    <2>1. ASSUME NEW b \in Expecting, b # a PROVE page'[b] = page[b] BY <1>4, <2>1
    <2>2. \A i \in DOMAIN reports : reports[i].what \in {"completed", "canceled"} => reports[i].of # a
      BY <1>1 DEF DownloadInv, ReportsTrue
    <2>3. ASSUME NEW i \in DOMAIN reports'
          PROVE  /\ reports'[i].what # "detached" => reports'[i].of \in Expecting
                 /\ reports'[i].what = "begins" =>
                      /\ i \in DOMAIN reports /\ reports'[i] = reports[i]
                      /\ page'[reports'[i].of] \notin {"none", "due"}
                      /\ entry'[reports'[i].of].status = "none"
                 /\ reports'[i].what \in {"completed", "canceled"} =>
                      page'[reports'[i].of] = reports'[i].what
      BY <1>1, <1>2, <1>4, <1>n, <2>1, <2>2 DEF DownloadInv, ReportsTrue
    <2>4. ASSUME NEW i \in DOMAIN reports', NEW j \in DOMAIN reports', reports'[i].what = "begins",
                 reports'[j].what = "begins", reports'[i].of = reports'[j].of
          PROVE  i = j
      BY <2>3, <2>4 DEF DownloadInv, ReportsTrue
    <2>5. ASSUME NEW b \in Expecting, entry'[b].status # "none"
          PROVE  page'[b] \notin {"none", "due"}
      BY <1>1, <1>4, <2>1, <2>5 DEF DownloadInv, ReportsTrue
    <2> QED
      BY <2>3, <2>4, <2>5 DEF ReportsTrue
  <1>10. ASSUME unarmed' = {} PROVE CursorsAwait' /\ CursorsOwn'
    <2>1. CursorsAwait /\ CursorsOwn BY <1>1, <1>10 DEF DownloadInv
    <2>2. ASSUME NEW b \in Expecting, CanBegin(b)' PROVE CanBegin(b)
      BY <1>1, <1>4, <2>2 DEF CanBegin
    <2>3. ASSUME NEW b \in Expecting, Told("begins", b)' PROVE Told("begins", b)
      BY <1>2, <1>n, <2>3 DEF Told
    <2>4. CursorsAwait'
      BY <1>1, <2>1, <2>2, <2>3 DEF CursorsAwait, FindsItsCursor
    <2>5. CursorsOwn'
      BY <1>1, <1>4, <2>1 DEF CursorsOwn
    <2> QED
      BY <2>4, <2>5
  <1> QED
    BY <1>5, <1>6, <1>7, <1>8, <1>9, <1>10 DEF DownloadInv

LEMMA DebuggerDetachesKeeps ==
  ASSUME DownloadInv, DebuggerDetaches
  PROVE  DownloadInv'
  <1>t. DownloadTyped BY DEF DownloadInv
  <1> DEFINE r == [what |-> "detached", of |-> NoAction]
  <1>1. /\ cdpAttached /\ cuts < MaxCuts /\ cuts' = cuts + 1 /\ reports' = Append(reports, r)
        /\ due' = due /\ cursor' = cursor /\ entry' = entry /\ tracked' = tracked
        /\ performing' = performing /\ handed' = handed /\ waitFor' = waitFor /\ page' = page
        /\ downloadNow' = downloadNow /\ started' = started /\ answers' = answers
        /\ unarmed' = unarmed
    BY DEF DebuggerDetaches
  <1>2. PICK d \in BOOLEAN : ~d /\ cdpAttached' = d BY Zenon DEF DebuggerDetaches
  <1>3. r \in ReportType /\ r.what = "detached" BY DEF ReportType
  <1> HIDE DEF r
  <1>4. /\ reports' \in Seq(ReportType)
        /\ Len(reports) \in Nat /\ Len(reports') = Len(reports) + 1
        /\ DOMAIN reports = 1 .. Len(reports) /\ DOMAIN reports' = 1 .. Len(reports')
        /\ reports'[Len(reports')] = r
        /\ \A i \in DOMAIN reports : reports'[i] = reports[i] /\ i \in DOMAIN reports'
        /\ \A i \in DOMAIN reports' : i \in DOMAIN reports \/ i = Len(reports')
    BY <1>t, <1>1, <1>3, MoreReports
  <1>5. cuts \in Nat /\ cuts' \in 0 .. MaxCuts /\ cuts' > 0
    BY <1>t, <1>1, DownloadConstants DEF DownloadTyped, DownloadTypeOK
  <1>6. DownloadTyped'
    BY <1>t, <1>1, <1>2, <1>4, <1>5 DEF DownloadTyped, DownloadTypeOK
  <1>7. ActionsInOrder'
    BY <1>1 DEF DownloadInv, ActionsInOrder, IsLast, Occurred
  <1>8. LossesExplained'
    BY <1>1, <1>5 DEF DownloadInv, LossesExplained, OnlyOverlapsLose, Overlapped, Overtaken, Before
  <1>9. SessionReports'
    BY <1>1, <1>2, <1>4 DEF DownloadInv, SessionReports
  <1>10. ReportsTrue'
    BY <1>1, <1>3, <1>4 DEF DownloadInv, ReportsTrue
  <1>11. unarmed' = {} => CursorsAwait' /\ CursorsOwn'
    BY <1>1, <1>3, <1>4 DEF DownloadInv, CursorsAwait, CursorsOwn, Told, FindsItsCursor, CanBegin
  <1> QED
    BY <1>6, <1>7, <1>8, <1>9, <1>10, <1>11 DEF DownloadInv

LEMMA DownloadTickKeeps ==
  ASSUME DownloadInv, DownloadTick
  PROVE  DownloadInv'
  <1>t. DownloadTyped BY DEF DownloadInv
  <1>1. /\ downloadNow < MaxDownloadTime /\ downloadNow' = downloadNow + 1
        /\ \A a \in Expecting : CanBegin(a) => downloadNow < due[a]
        /\ reports' = reports /\ cdpAttached' = cdpAttached /\ cuts' = cuts
        /\ due' = due /\ cursor' = cursor /\ entry' = entry /\ tracked' = tracked
        /\ performing' = performing /\ handed' = handed /\ waitFor' = waitFor /\ page' = page
        /\ started' = started /\ answers' = answers /\ unarmed' = unarmed
    BY DEF DownloadTick, CanBegin
  <1>2. \A i \in DOMAIN reports : FALSE
    <2>1. reports = <<>> BY DEF DownloadTick
    <2> QED
      BY <2>1
  <1>3. downloadNow \in Nat /\ downloadNow' \in 0 .. MaxDownloadTime
    BY <1>t, <1>1, DownloadConstants DEF DownloadTyped, DownloadTypeOK
  <1>4. \A a \in Expecting : due[a] \in Nat /\ due[a] <= downloadNow' + Retention
    BY <1>t, <1>1, <1>3, DownloadConstants DEF DownloadTyped
  <1>5. DownloadTyped'
    BY <1>t, <1>1, <1>3, <1>4 DEF DownloadTyped, DownloadTypeOK
  <1>6. ActionsInOrder' /\ LossesExplained' /\ SessionReports' /\ ReportsTrue'
    BY <1>1 DEF DownloadInv, ActionsInOrder, IsLast, Occurred, LossesExplained, OnlyOverlapsLose,
                Overlapped, Overtaken, Before, SessionReports, ReportsTrue
  <1>7. ASSUME unarmed' = {} PROVE CursorsAwait' /\ CursorsOwn'
    <2>1. CursorsAwait /\ CursorsOwn BY <1>1, <1>7 DEF DownloadInv
    <2>2. \A a \in Expecting : ~Told("begins", a)' BY <1>1, <1>2 DEF Told
    <2>3. ASSUME NEW a \in Expecting, CanBegin(a)'
          PROVE  FindsItsCursor(a)' /\ due'[a] <= cursor'[a].expires /\ downloadNow' <= due'[a]
      <3>1. CanBegin(a) BY <1>1, <2>3 DEF CanBegin
      <3>2. downloadNow < due[a] BY <1>1, <3>1
      <3>3. FindsItsCursor(a) /\ due[a] <= cursor[a].expires BY <2>1, <3>1 DEF CursorsAwait
      <3>4. cursor[a].expires \in Nat BY <1>t, DownloadConstants DEF DownloadTyped, DownloadTypeOK
      <3> QED
        BY <1>1, <1>3, <1>4, <3>2, <3>3, <3>4 DEF FindsItsCursor
    <2>4. CursorsAwait' BY <2>2, <2>3 DEF CursorsAwait
    <2>5. CursorsOwn' BY <1>1, <2>1 DEF CursorsOwn
    <2> QED
      BY <2>4, <2>5
  <1> QED
    BY <1>5, <1>6, <1>7 DEF DownloadInv

--------------------------------
\* What the worker makes of a report

\* The reports that stay, when the first is handled.
LEMMA HeardOne ==
  ASSUME DownloadInv, reports # <<>>, reports' = Tail(reports), page' = page
  PROVE  /\ reports' \in Seq(ReportType) /\ Head(reports) = reports[1] /\ 1 \in DOMAIN reports
         /\ reports[1] \in ReportType /\ tracked
         /\ \A i \in DOMAIN reports' :
              /\ i + 1 \in DOMAIN reports /\ reports'[i] = reports[i + 1]
              /\ reports[1].what = "begins" /\ reports'[i].what = "begins" =>
                   reports'[i].of # reports[1].of
              /\ reports'[i].what = "detached" => i = Len(reports') /\ ~cdpAttached /\ cuts > 0
         /\ reports[1].what = "detached" => DOMAIN reports' = {} /\ ~cdpAttached /\ cuts > 0
         /\ \A a \in Expecting : Told("begins", a)' => Told("begins", a)
  <1>t. DownloadTyped BY DEF DownloadInv
  <1>1. /\ reports' \in Seq(ReportType)
        /\ Head(reports) = reports[1] /\ 1 \in DOMAIN reports /\ reports[1] \in ReportType
        /\ Len(reports) \in Nat \ {0} /\ Len(reports') = Len(reports) - 1
        /\ DOMAIN reports = 1 .. Len(reports) /\ DOMAIN reports' = 1 .. Len(reports')
        /\ \A i \in DOMAIN reports' : /\ reports'[i] = reports[i + 1] /\ i + 1 \in DOMAIN reports
    BY <1>t, TailReports
  <1>2. tracked BY <1>1 DEF DownloadInv, SessionReports
  <1>3. ASSUME NEW i \in DOMAIN reports', reports[1].what = "begins", reports'[i].what = "begins"
        PROVE  reports'[i].of # reports[1].of
    <2>1. i + 1 \in DOMAIN reports /\ i + 1 # 1 /\ reports[i + 1].what = "begins"
      BY <1>1, <1>3
    <2>2. reports[i + 1].of # reports[1].of
      BY <1>1, <1>3, <2>1 DEF DownloadInv, ReportsTrue
    <2> QED
      BY <1>1, <2>2
  <1>4. ASSUME NEW i \in DOMAIN reports', reports'[i].what = "detached"
        PROVE  i = Len(reports') /\ ~cdpAttached /\ cuts > 0
    <2>1. i + 1 \in DOMAIN reports /\ reports[i + 1].what = "detached" BY <1>1, <1>4
    <2>2. i + 1 = Len(reports) /\ ~cdpAttached BY <2>1 DEF DownloadInv, SessionReports
    <2>3. cuts > 0 BY <2>1 DEF DownloadInv, LossesExplained
    <2> QED
      BY <1>1, <2>2, <2>3
  <1>5. reports[1].what = "detached" => DOMAIN reports' = {} /\ ~cdpAttached /\ cuts > 0
    <2>1. reports[1].what = "detached" => 1 = Len(reports) /\ ~cdpAttached
      BY <1>1 DEF DownloadInv, SessionReports
    <2>2. reports[1].what = "detached" => cuts > 0
      BY <1>1 DEF DownloadInv, LossesExplained
    <2> QED
      BY <1>1, <2>1, <2>2
  <1>6. \A a \in Expecting : Told("begins", a)' => Told("begins", a)
    BY <1>1 DEF Told
  <1> QED
    BY <1>1, <1>2, <1>3, <1>4, <1>5, <1>6

\* Of the cursors at most one is armed, that of the last action.
LEMMA OneArmed ==
  ASSUME DownloadInv, NEW c \in [Expecting -> CursorType],
         \A a \in Expecting : c[a] = cursor[a] \/ c[a].state = "none"
  PROVE  /\ InState(c, "armed") = {} \/ \E a \in Expecting : InState(c, "armed") = {a}
         /\ Cardinality(InState(c, "armed")) = 1 =>
              \E a \in Expecting : /\ InState(c, "armed") = {a}
                                   /\ (CHOOSE b \in InState(c, "armed") : TRUE) = a
         /\ \A a \in Expecting : Cardinality(InState(c, "armed")) # 1 => InState(c, "armed") # {a}
  <1>1. \A a, b \in InState(c, "armed") : a = b
    BY DEF DownloadInv, ActionsInOrder, IsLast, InState
  <1>2. InState(c, "armed") \subseteq Expecting BY DEF InState
  <1>3. InState(c, "armed") = {} \/ \E a \in Expecting : InState(c, "armed") = {a}
    BY <1>1, <1>2
  <1>4. Cardinality({}) = 0 /\ \A a \in Expecting : Cardinality({a}) = 1
    BY FS_EmptySet, FS_Singleton
  <1>5. \A a \in Expecting : (CHOOSE b \in {a} : TRUE) = a
    OBVIOUS
  <1> QED
    BY <1>3, <1>4, <1>5

\* The types, when a report is handled.
LEMMA TypedAfterReport ==
  ASSUME DownloadTyped, reports' \in Seq(ReportType), cursor' \in [Expecting -> CursorType],
         entry' \in [Expecting -> EntryType], tracked' \in BOOLEAN, unarmed' \subseteq Expecting,
         UNCHANGED <<due, performing, handed, waitFor, page, cdpAttached, downloadNow, cuts,
                     started, answers>>
  PROVE  DownloadTyped'
  <1>1. DownloadTypeOK'
    BY DEF DownloadTyped, DownloadTypeOK, CursorType, CursorStates, EntryType
  <1> QED
    BY <1>1 DEF DownloadTyped

LEMMA HearBeginsKeeps ==
  ASSUME DownloadInv, reports # <<>>, reports' = Tail(reports), NEW a \in Expecting,
         reports[1].what = "begins", reports[1].of = a, HearBegins(a),
         UNCHANGED <<due, performing, handed, waitFor, page, cdpAttached, downloadNow, cuts,
                     started, answers>>
  PROVE  DownloadInv'
  <1> USE DownloadConstants
  <1>t. DownloadTyped BY DEF DownloadInv
  <1>h. /\ reports' \in Seq(ReportType) /\ 1 \in DOMAIN reports /\ tracked
        /\ \A i \in DOMAIN reports' :
             /\ i + 1 \in DOMAIN reports /\ reports'[i] = reports[i + 1]
             /\ reports'[i].what = "begins" => reports'[i].of # a
             /\ reports'[i].what = "detached" => i = Len(reports') /\ ~cdpAttached /\ cuts > 0
        /\ \A b \in Expecting : Told("begins", b)' => Told("begins", b)
    <2>1. page' = page OBVIOUS
    <2> QED
      BY <2>1, HeardOne
  <1>u. /\ due' = due /\ performing' = performing /\ handed' = handed /\ waitFor' = waitFor
        /\ page' = page /\ cdpAttached' = cdpAttached /\ downloadNow' = downloadNow /\ cuts' = cuts
        /\ started' = started /\ answers' = answers
    OBVIOUS
  <1> DEFINE c == Kept(cursor)
             armed == InState(c, "armed")
             clear == InState(c, "ambiguous") = {} /\ Cardinality(armed) = 1
             owner == IF clear THEN CHOOSE b \in armed : TRUE ELSE NoAction
  <1>1. /\ cursor' = IF clear \/ armed = {} THEN c
                     ELSE [b \in Expecting |-> IF b \in armed
                                               THEN [c[b] EXCEPT !.state = "ambiguous"] ELSE c[b]]
        /\ entry' = [KeptEntries EXCEPT ![a] = [status |-> "in_progress", since |-> downloadNow,
                                                cursor |-> owner]]
        /\ tracked' = tracked /\ unarmed' = unarmed
    BY DEF HearBegins
  <1>2. /\ c \in [Expecting -> CursorType]
        /\ \A b \in Expecting :
             /\ cursor[b] \in CursorType
             /\ c[b] = cursor[b] \/ c[b].state = "none"
             /\ downloadNow <= cursor[b].expires => c[b] = cursor[b]
    BY <1>t, KeptIs
  <1>3. /\ armed = {} \/ \E b \in Expecting : armed = {b}
        /\ Cardinality(armed) = 1 => \E b \in Expecting : /\ armed = {b}
                                                          /\ (CHOOSE d \in armed : TRUE) = b
        /\ \A b \in Expecting : Cardinality(armed) # 1 => armed # {b}
    BY <1>2, OneArmed
  <1> HIDE DEF c
  <1>4. owner \in Expecting \cup {NoAction} /\ (owner # NoAction => clear /\ armed = {owner})
    BY <1>3
  <1>5. /\ cursor' \in [Expecting -> CursorType]
        /\ \A b \in Expecting :
             \/ cursor'[b] = c[b]
             \/ /\ ~clear /\ armed = {b} /\ c[b].state = "armed"
                /\ cursor'[b].state = "ambiguous" /\ cursor'[b].expires = c[b].expires
    <2>1. CASE clear \/ armed = {}
      BY <1>1, <1>2, <2>1
    <2>2. CASE ~(clear \/ armed = {})
      <3> DEFINE M(b) == [c[b] EXCEPT !.state = "ambiguous"]
      <3>1. cursor' = [b \in Expecting |-> IF b \in armed THEN M(b) ELSE c[b]]
        BY <1>1, <2>2
      <3>2. \A b \in Expecting : /\ M(b) \in CursorType /\ M(b).state = "ambiguous"
                                 /\ M(b).expires = c[b].expires
        BY <1>2 DEF CursorType, CursorStates
      <3> HIDE DEF M
      <3>3. \A b \in armed : armed = {b} /\ c[b].state = "armed"
        BY <1>3 DEF InState
      <3> QED
        BY <1>2, <2>2, <3>1, <3>2, <3>3
    <2> QED
      BY <2>1, <2>2
  <1>6. ASSUME NEW x \in Expecting, ~clear, armed = {x} PROVE Overlapped(x)
    <2>1. InState(c, "ambiguous") # {} BY <1>3, <1>6
    <2>2. PICK y \in Expecting : c[y].state = "ambiguous" BY <2>1 DEF InState
    <2>3. c[x].state = "armed" BY <1>6 DEF InState
    <2>4. cursor[x].state = "armed" /\ cursor[y].state = "ambiguous" /\ x # y
      BY <1>2, <2>2, <2>3
    <2>5. IsLast(x) /\ Occurred(y) BY <2>4 DEF DownloadInv, ActionsInOrder
    <2>6. PICK i \in DOMAIN started : started[i] = y BY <2>5 DEF Occurred
    <2>7. /\ Len(started) \in DOMAIN started /\ started[Len(started)] = x /\ i < Len(started)
      BY <1>t, <2>4, <2>5, <2>6 DEF IsLast, DownloadTyped
    <2>8. Before(y, x) BY <2>6, <2>7 DEF Before
    <2> QED
      BY <2>8 DEF Overlapped
  <1>7. /\ entry' \in [Expecting -> EntryType]
        /\ entry'[a].status = "in_progress" /\ entry'[a].cursor = owner
        /\ \A b \in Expecting : b # a => entry'[b] \in {entry[b], NoEntry}
    <2>1. /\ entry \in [Expecting -> EntryType] /\ NoEntry \in EntryType
          /\ KeptEntries \in [Expecting -> EntryType]
          /\ \A b \in Expecting : KeptEntries[b] \in {entry[b], NoEntry}
      BY <1>t, EntriesAre
    <2>2. [status |-> "in_progress", since |-> downloadNow, cursor |-> owner] \in EntryType
      BY <1>t, <1>4 DEF DownloadTyped, DownloadTypeOK, EntryType
    <2> HIDE DEF owner
    <2> QED
      BY <1>1, <2>1, <2>2
  <1> HIDE DEF owner
  <1>n. NoEntry.status = "none" /\ NoEntry.cursor = NoAction BY DEF NoEntry
  <1>8. DownloadTyped'
    <2>1. unarmed' \subseteq Expecting /\ tracked' \in BOOLEAN
      BY <1>t, <1>1 DEF DownloadTyped, DownloadTypeOK
    <2>2. reports' \in Seq(ReportType) BY <1>h
    <2> QED
      BY <1>t, <1>5, <1>7, <2>1, <2>2, TypedAfterReport
  <1>9. ActionsInOrder'
    <2>1. ASSUME NEW b \in Expecting
          PROVE  /\ cursor'[b].state = "armed" => cursor[b].state = "armed"
                 /\ cursor'[b].state # "none" => cursor[b].state # "none"
      BY <1>2, <1>5
    <2> QED
      BY <1>u, <2>1 DEF DownloadInv, ActionsInOrder, IsLast, Occurred
  <1>10. LossesExplained'
    <2>1. ASSUME NEW b \in Expecting
          PROVE  /\ cursor'[b].state = "ambiguous" => Overlapped(b)
                 /\ cursor'[b].state = "detached" => cuts > 0
      BY <1>2, <1>5, <1>6 DEF DownloadInv, LossesExplained
    <2>2. Overlapped(a)' <=> Overlapped(a) BY <1>u DEF Overlapped, Overtaken, Before
    <2>3. \A b \in Expecting : Overlapped(b)' <=> Overlapped(b)
      BY <1>u DEF Overlapped, Overtaken, Before
    <2>4. OnlyOverlapsLose'
      BY <1>u DEF DownloadInv, LossesExplained, OnlyOverlapsLose, Overtaken, Before
    <2> QED
      BY <1>h, <1>u, <2>1, <2>3, <2>4 DEF LossesExplained
  <1>11. SessionReports'
    BY <1>h, <1>u, <1>1 DEF DownloadInv, SessionReports
  <1>12. ReportsTrue'
    <2>1. page[a] \notin {"none", "due"} BY <1>h DEF DownloadInv, ReportsTrue
    <2>2. ASSUME NEW b \in Expecting, b # a
          PROVE  entry[b].status = "none" => entry'[b].status = "none"
      BY <1>7, <1>n, <2>2
    <2>3. ASSUME NEW i \in DOMAIN reports'
          PROVE  /\ reports'[i].what # "detached" => reports'[i].of \in Expecting
                 /\ reports'[i].what = "begins" => /\ page'[reports'[i].of] \notin {"none", "due"}
                                                   /\ entry'[reports'[i].of].status = "none"
                 /\ reports'[i].what \in {"completed", "canceled"} =>
                      page'[reports'[i].of] = reports'[i].what
      <3>1. i + 1 \in DOMAIN reports /\ reports'[i] = reports[i + 1] BY <1>h
      <3> QED
        BY <1>h, <1>u, <2>2, <3>1 DEF DownloadInv, ReportsTrue
    <2>4. ASSUME NEW i \in DOMAIN reports', NEW j \in DOMAIN reports', reports'[i].what = "begins",
                 reports'[j].what = "begins", reports'[i].of = reports'[j].of
          PROVE  i = j
      <3>1. i + 1 = j + 1 BY <1>h, <2>4 DEF DownloadInv, ReportsTrue
      <3>2. i \in Nat /\ j \in Nat BY <1>h
      <3> QED
        BY <3>1, <3>2
    <2>5. ASSUME NEW b \in Expecting, entry'[b].status # "none"
          PROVE  page'[b] \notin {"none", "due"}
      BY <1>u, <1>7, <1>n, <2>1, <2>5 DEF DownloadInv, ReportsTrue
    <2> QED
      BY <2>3, <2>4, <2>5 DEF ReportsTrue
  <1>13. ASSUME unarmed' = {} PROVE CursorsAwait' /\ CursorsOwn'
    <2>1. CursorsAwait /\ CursorsOwn BY <1>1, <1>13 DEF DownloadInv
    <2>2. ASSUME NEW b \in Expecting, FindsItsCursor(b)
          PROVE  FindsItsCursor(b)' /\ cursor'[b].expires = cursor[b].expires
      BY <1>u, <1>2, <1>5, <2>2 DEF FindsItsCursor
    <2>3. ASSUME NEW b \in Expecting PROVE CanBegin(b)' <=> CanBegin(b)
      BY <1>u DEF CanBegin
    <2>4. CursorsAwait'
      BY <1>h, <1>u, <2>1, <2>2, <2>3 DEF CursorsAwait
    <2>5. FindsItsCursor(a)
      <3>1. Told("begins", a) BY <1>h DEF Told
      <3> QED
        BY <2>1, <3>1 DEF CursorsAwait
    <2>6. owner \in {a, NoAction}
      <3>1. ASSUME owner # NoAction PROVE owner = a
        <4>1. clear /\ armed = {owner} BY <1>4, <3>1
        <4>2. c[a].state \in {"armed", "ambiguous"} BY <1>2, <2>5 DEF FindsItsCursor
        <4>3. c[a].state # "ambiguous" BY <4>1 DEF InState
        <4> QED
          BY <4>1, <4>2, <4>3 DEF InState
      <3> QED
        BY <3>1
    <2>7. CursorsOwn'
      <3>1. ASSUME NEW b \in Expecting PROVE entry'[b].cursor \in {b, NoAction}
        BY <1>7, <1>n, <2>1, <2>6 DEF CursorsOwn
      <3>2. ASSUME NEW b \in Expecting, cursor'[b].state \in {"completed", "canceled"}
            PROVE  cursor'[b] = cursor[b]
        BY <1>2, <1>5, <3>2
      <3> QED
        BY <1>u, <2>1, <3>1, <3>2 DEF CursorsOwn
    <2> QED
      BY <2>4, <2>7
  <1> QED
    BY <1>8, <1>9, <1>10, <1>11, <1>12, <1>13 DEF DownloadInv

LEMMA HearEndsKeeps ==
  ASSUME DownloadInv, reports # <<>>, reports' = Tail(reports), NEW a \in Expecting,
         NEW state \in {"completed", "canceled"}, reports[1].what = state, reports[1].of = a,
         HearEnds(a, state),
         UNCHANGED <<due, performing, handed, waitFor, page, cdpAttached, downloadNow, cuts,
                     started, answers>>
  PROVE  DownloadInv'
  <1> USE DownloadConstants
  <1>t. DownloadTyped BY DEF DownloadInv
  <1>h. /\ reports' \in Seq(ReportType) /\ 1 \in DOMAIN reports
        /\ \A i \in DOMAIN reports' :
             /\ i + 1 \in DOMAIN reports /\ reports'[i] = reports[i + 1]
             /\ reports'[i].what = "detached" => i = Len(reports') /\ ~cdpAttached /\ cuts > 0
        /\ \A b \in Expecting : Told("begins", b)' => Told("begins", b)
    <2>1. page' = page OBVIOUS
    <2> QED
      BY <2>1, HeardOne
  <1>u. /\ due' = due /\ performing' = performing /\ handed' = handed /\ waitFor' = waitFor
        /\ page' = page /\ cdpAttached' = cdpAttached /\ downloadNow' = downloadNow /\ cuts' = cuts
        /\ started' = started /\ answers' = answers
    OBVIOUS
  <1>1. tracked' = tracked /\ unarmed' = unarmed /\ page[a] = state
    BY <1>h, Zenon DEF HearEnds, DownloadInv, ReportsTrue
  <1> DEFINE ended(b) == [state |-> state, expires |-> downloadNow + Retention,
                          download |-> IF state = "completed" THEN a ELSE cursor[b].download]
  <1>2. /\ entry \in [Expecting -> EntryType] /\ cursor \in [Expecting -> CursorType]
        /\ \A b \in Expecting : cursor[b] \in CursorType
    BY <1>t, EntriesAre, KeptIs DEF DownloadTyped, DownloadTypeOK, CursorType, CursorStates
  <1>3. ASSUME NEW b \in Expecting
        PROVE  /\ ended(b) \in CursorType /\ ended(b).state = state
               /\ state = "completed" => ended(b).download = a
    <2>1. downloadNow + Retention \in 0 .. (MaxDownloadTime + Retention)
      BY <1>t DEF DownloadTyped, DownloadTypeOK
    <2>2. cursor[b].download \in Expecting \cup {NoAction} BY <1>2 DEF CursorType
    <2> QED
      BY <2>1, <2>2 DEF CursorType, CursorStates
  <1>4. /\ entry' \in [Expecting -> EntryType]
        /\ \A b \in Expecting : /\ entry'[b].cursor = entry[b].cursor
                                /\ entry'[b].status = "none" <=> entry[b].status = "none"
    <2> DEFINE e == [entry[a] EXCEPT !.status = state]
    <2>1. entry' = entry \/ (entry[a].status # "none" /\ entry' = [entry EXCEPT ![a] = e])
      BY DEF HearEnds
    <2>2. e \in EntryType /\ e.cursor = entry[a].cursor /\ e.status # "none"
      BY <1>2 DEF EntryType
    <2> HIDE DEF e
    <2> QED
      BY <1>2, <2>1, <2>2
  <1>5. \/ cursor' = cursor
        \/ \E b \in Expecting : /\ entry[a].status # "none" /\ entry[a].cursor = b
                                /\ cursor[b].state # "none"
                                /\ cursor' = [cursor EXCEPT ![b] = ended(b)]
    <2>1. entry[a].cursor \in Expecting \cup {NoAction} BY <1>2 DEF EntryType
    <2> QED
      BY <2>1 DEF HearEnds
  <1> HIDE DEF ended
  <1>6. /\ cursor' \in [Expecting -> CursorType]
        /\ \A b \in Expecting :
             \/ cursor'[b] = cursor[b]
             \/ /\ entry[a].status # "none" /\ entry[a].cursor = b /\ cursor[b].state # "none"
                /\ cursor'[b].state = state
                /\ state = "completed" => cursor'[b].download = a
    BY <1>2, <1>3, <1>5
  <1>7. DownloadTyped'
    <2>1. unarmed' \subseteq Expecting /\ tracked' \in BOOLEAN
      BY <1>t, <1>1 DEF DownloadTyped, DownloadTypeOK
    <2>2. reports' \in Seq(ReportType) BY <1>h
    <2> QED
      BY <1>t, <1>4, <1>6, <2>1, <2>2, TypedAfterReport
  <1>8. ActionsInOrder'
    <2>1. ASSUME NEW b \in Expecting
          PROVE  /\ cursor'[b].state = "armed" => cursor[b].state = "armed"
                 /\ cursor'[b].state # "none" => cursor[b].state # "none"
      BY <1>6
    <2> QED
      BY <1>u, <2>1 DEF DownloadInv, ActionsInOrder, IsLast, Occurred
  <1>9. LossesExplained'
    <2>1. ASSUME NEW b \in Expecting
          PROVE  /\ cursor'[b].state = "ambiguous" => cursor[b].state = "ambiguous"
                 /\ cursor'[b].state = "detached" => cursor[b].state = "detached"
      BY <1>6
    <2>2. \A b \in Expecting : Overlapped(b)' <=> Overlapped(b)
      BY <1>u DEF Overlapped, Overtaken, Before
    <2>3. OnlyOverlapsLose'
      BY <1>u DEF DownloadInv, LossesExplained, OnlyOverlapsLose, Overtaken, Before
    <2> QED
      BY <1>h, <1>u, <2>1, <2>2, <2>3 DEF DownloadInv, LossesExplained
  <1>10. SessionReports'
    BY <1>h, <1>u, <1>1, HeardOne DEF DownloadInv, SessionReports
  <1>11. ReportsTrue'
    <2>1. ASSUME NEW i \in DOMAIN reports'
          PROVE  /\ reports'[i].what # "detached" => reports'[i].of \in Expecting
                 /\ reports'[i].what = "begins" => /\ page'[reports'[i].of] \notin {"none", "due"}
                                                   /\ entry'[reports'[i].of].status = "none"
                 /\ reports'[i].what \in {"completed", "canceled"} =>
                      page'[reports'[i].of] = reports'[i].what
      <3>1. i + 1 \in DOMAIN reports /\ reports'[i] = reports[i + 1] BY <1>h
      <3> QED
        BY <1>u, <1>4, <3>1 DEF DownloadInv, ReportsTrue
    <2>2. ASSUME NEW i \in DOMAIN reports', NEW j \in DOMAIN reports', reports'[i].what = "begins",
                 reports'[j].what = "begins", reports'[i].of = reports'[j].of
          PROVE  i = j
      <3>1. i + 1 = j + 1 BY <1>h, <2>2 DEF DownloadInv, ReportsTrue
      <3>2. i \in Nat /\ j \in Nat BY <1>h
      <3> QED
        BY <3>1, <3>2
    <2>3. ASSUME NEW b \in Expecting, entry'[b].status # "none"
          PROVE  page'[b] \notin {"none", "due"}
      BY <1>u, <1>4, <2>3 DEF DownloadInv, ReportsTrue
    <2> QED
      BY <2>1, <2>2, <2>3 DEF ReportsTrue
  <1>12. ASSUME unarmed' = {} PROVE CursorsAwait' /\ CursorsOwn'
    <2>1. CursorsAwait /\ CursorsOwn BY <1>1, <1>12 DEF DownloadInv
    <2>2. ASSUME NEW b \in Expecting, cursor'[b] # cursor[b]
          PROVE  b = a /\ ~CanBegin(a) /\ ~Told("begins", a)
      <3>1. entry[a].status # "none" /\ entry[a].cursor = b BY <1>6, <2>2
      <3>2. b = a BY <2>1, <3>1 DEF CursorsOwn
      <3>3. ~Told("begins", a) BY <3>1 DEF Told, DownloadInv, ReportsTrue
      <3>4. performing.act # a /\ page[a] # "due" BY <1>1 DEF DownloadInv, ActionsInOrder
      <3>5. ~CanBegin(a) BY <3>4 DEF CanBegin
      <3> QED
        BY <3>2, <3>3, <3>5
    <2>3. ASSUME NEW b \in Expecting PROVE CanBegin(b)' <=> CanBegin(b)
      BY <1>u DEF CanBegin
    <2>4. CursorsAwait'
      BY <1>h, <1>u, <2>1, <2>2, <2>3 DEF CursorsAwait, FindsItsCursor
    <2>5. CursorsOwn'
      <3>1. ASSUME NEW b \in Expecting
            PROVE  /\ cursor'[b].state \in {"completed", "canceled"} => page[b] = cursor'[b].state
                   /\ cursor'[b].state = "completed" => cursor'[b].download = b
        BY <1>1, <1>6, <2>1, <2>2 DEF CursorsOwn
      <3> QED
        BY <1>u, <1>4, <2>1, <3>1 DEF CursorsOwn
    <2> QED
      BY <2>4, <2>5
  <1> QED
    BY <1>7, <1>8, <1>9, <1>10, <1>11, <1>12 DEF DownloadInv

LEMMA HearDetachedKeeps ==
  ASSUME DownloadInv, reports # <<>>, reports' = Tail(reports),
         reports[1].what = "detached", HearDetached,
         UNCHANGED <<due, performing, handed, waitFor, page, cdpAttached, downloadNow, cuts,
                     started, answers>>
  PROVE  DownloadInv'
  <1> USE DownloadConstants
  <1>t. DownloadTyped BY DEF DownloadInv
  <1>h. reports' \in Seq(ReportType) /\ DOMAIN reports' = {} /\ ~cdpAttached /\ cuts > 0
    <2>1. page' = page OBVIOUS
    <2> QED
      BY <2>1, HeardOne
  <1>u. /\ due' = due /\ performing' = performing /\ handed' = handed /\ waitFor' = waitFor
        /\ page' = page /\ cdpAttached' = cdpAttached /\ downloadNow' = downloadNow /\ cuts' = cuts
        /\ started' = started /\ answers' = answers
    OBVIOUS
  <1>1. PICK d \in BOOLEAN : ~d /\ tracked' = d BY Zenon DEF HearDetached
  <1>2. /\ entry' \in [Expecting -> EntryType]
        /\ \A a \in Expecting : entry'[a].status = "none" /\ entry'[a].cursor = NoAction
    <2>1. NoEntry \in EntryType /\ NoEntry.status = "none" /\ NoEntry.cursor = NoAction
      BY <1>t, EntriesAre DEF NoEntry
    <2> QED
      BY <2>1 DEF HearDetached
  <1>3. /\ cursor \in [Expecting -> CursorType] /\ cursor' \in [Expecting -> CursorType]
        /\ \A a \in Expecting :
             /\ cursor'[a].state # "armed"
             /\ cursor[a].state # "armed" => cursor'[a] = cursor[a]
             /\ cursor[a].state = "armed" => cursor'[a].state = "detached"
    <2>1. cursor \in [Expecting -> CursorType]
      BY <1>t DEF DownloadTyped, DownloadTypeOK, CursorType, CursorStates
    <2>2. "armed" \in CursorStates /\ "detached" \in CursorStates BY DEF CursorStates
    <2> QED
      BY <1>t, <2>1, <2>2, MovedIs DEF HearDetached, TrackingInvalidated
  <1>4. /\ unarmed \subseteq unarmed' /\ unarmed' \subseteq Expecting
        /\ \A a \in Expecting : page[a] \in {"none", "due"} /\ cursor[a].state # "none" =>
             a \in unarmed'
    BY <1>t DEF HearDetached, DownloadTyped, DownloadTypeOK
  <1>5. DownloadTyped'
    <2>1. reports' \in Seq(ReportType) /\ tracked' \in BOOLEAN BY <1>h, <1>1
    <2> QED
      BY <1>t, <1>2, <1>3, <1>4, <2>1, TypedAfterReport
  <1>6. ActionsInOrder'
    <2>1. ASSUME NEW b \in Expecting
          PROVE  /\ cursor'[b].state # "armed"
                 /\ cursor'[b].state # "none" => cursor[b].state # "none"
      BY <1>3
    <2> QED
      BY <1>u, <2>1 DEF DownloadInv, ActionsInOrder, IsLast, Occurred
  <1>7. LossesExplained'
    <2>1. ASSUME NEW b \in Expecting
          PROVE  cursor'[b].state = "ambiguous" => cursor[b].state = "ambiguous"
      BY <1>3
    <2>2. \A b \in Expecting : Overlapped(b)' <=> Overlapped(b)
      BY <1>u DEF Overlapped, Overtaken, Before
    <2>3. OnlyOverlapsLose'
      BY <1>u DEF DownloadInv, LossesExplained, OnlyOverlapsLose, Overtaken, Before
    <2> QED
      BY <1>h, <1>u, <2>1, <2>2, <2>3 DEF DownloadInv, LossesExplained
  <1>8. SessionReports'
    BY <1>h, <1>u, <1>1 DEF SessionReports
  <1>9. ReportsTrue'
    BY <1>h, <1>u, <1>2 DEF ReportsTrue
  <1>10. ASSUME unarmed' = {} PROVE CursorsAwait' /\ CursorsOwn'
    <2>1. CursorsAwait /\ CursorsOwn BY <1>4, <1>10 DEF DownloadInv
    <2>2. \A a \in Expecting : ~Told("begins", a)' BY <1>h DEF Told
    <2>3. ASSUME NEW a \in Expecting PROVE ~CanBegin(a)'
      <3>1. CanBegin(a)' => CanBegin(a) BY <1>u DEF CanBegin
      <3>2. CanBegin(a) => page[a] \in {"none", "due"}
        BY <1>t DEF CanBegin, DownloadInv, ActionsInOrder
      <3>3. CanBegin(a) => cursor[a].state # "none"
        BY <2>1 DEF CursorsAwait, FindsItsCursor
      <3> QED
        BY <1>4, <1>10, <3>1, <3>2, <3>3
    <2>4. CursorsAwait' BY <2>2, <2>3 DEF CursorsAwait
    <2>5. CursorsOwn'
      <3>1. ASSUME NEW b \in Expecting, cursor'[b].state \in {"completed", "canceled"}
            PROVE  cursor'[b] = cursor[b]
        BY <1>3, <3>1
      <3> QED
        BY <1>u, <1>2, <2>1, <3>1 DEF CursorsOwn
    <2> QED
      BY <2>4, <2>5
  <1> QED
    BY <1>5, <1>6, <1>7, <1>8, <1>9, <1>10 DEF DownloadInv

LEMMA HearKeeps ==
  ASSUME DownloadInv, Hear
  PROVE  DownloadInv'
  <1>1. /\ reports # <<>> /\ reports' = Tail(reports) /\ page' = page
        /\ UNCHANGED <<due, performing, handed, waitFor, page, cdpAttached, downloadNow, cuts,
                       started, answers>>
    BY DEF Hear
  <1>2. Head(reports) = reports[1] /\ 1 \in DOMAIN reports /\ reports[1] \in ReportType /\ tracked
    BY <1>1, HeardOne
  <1>3. reports[1].what # "detached" => reports[1].of \in Expecting
    BY <1>2 DEF DownloadInv, ReportsTrue
  <1>4. reports[1].what \in {"begins", "completed", "canceled", "detached"}
    BY <1>2 DEF ReportType
  <1>5. CASE reports[1].what = "begins"
    <2>1. HearBegins(reports[1].of) BY <1>2, <1>5 DEF Hear
    <2> QED
      BY <1>1, <1>3, <1>5, <2>1, HearBeginsKeeps
  <1>6. CASE reports[1].what \in {"completed", "canceled"}
    <2>1. HearEnds(reports[1].of, reports[1].what) BY <1>2, <1>6 DEF Hear
    <2> QED
      BY <1>1, <1>3, <1>6, <2>1, HearEndsKeeps
  <1>7. CASE reports[1].what = "detached"
    <2>1. HearDetached BY <1>2, <1>7 DEF Hear
    <2> QED
      BY <1>1, <1>7, <2>1, HearDetachedKeeps
  <1> QED
    BY <1>4, <1>5, <1>6, <1>7

--------------------------------
\* Waits

\* An answer is one of those of its cursor.
LEMMA AnswerIs ==
  ASSUME DownloadTyped, NEW a \in Expecting, NEW answer, Answer(a, answer)
  PROVE  /\ waitFor' = NoAction /\ answers' \in [Expecting -> SUBSET Answers]
         /\ \A b \in Expecting, x \in Answers :
              x \in answers'[b] => x \in answers[b] \/ (b = a /\ x = answer)
  BY DEF Answer, DownloadTyped, DownloadTypeOK

\* What a poll says of a cursor is what became of it.
LEMMA MatchIs ==
  ASSUME DownloadTyped, NEW a \in Expecting
  PROVE  /\ Match(a) = "lost" => cursor[a].state \in {"ambiguous", "detached"}
         /\ Match(a) \in {"completed", "canceled"} => cursor[a].state = Match(a)
  <1>1. /\ Kept(cursor)[a] \in CursorType /\ cursor[a] \in CursorType
        /\ Kept(cursor)[a] = cursor[a] \/ Kept(cursor)[a].state = "none"
    BY KeptIs
  <1> QED
    BY <1>1 DEF Match, CursorType, CursorStates

\* A wait forgets what is past its time and answers what it finds.
LEMMA LookKeeps ==
  ASSUME DownloadInv, cursor' \in [Expecting -> CursorType], entry' \in [Expecting -> EntryType],
         \A a \in Expecting : /\ cursor'[a] = cursor[a] \/ cursor'[a].state = "none"
                              /\ downloadNow <= cursor[a].expires => cursor'[a] = cursor[a]
                              /\ entry'[a] \in {entry[a], NoEntry},
         tracked' \in BOOLEAN, cdpAttached' \in BOOLEAN, waitFor' \in Expecting \cup {NoAction},
         answers' \in [Expecting -> SUBSET Answers],
         \A a \in Expecting : \A x \in {"lost", "completed", "canceled"} : x \in answers'[a] =>
           \/ x \in answers[a]
           \/ x = "lost" /\ cursor[a].state \in {"ambiguous", "detached"}
           \/ x \in {"completed", "canceled"} /\ cursor[a].state = x,
         SessionReports', ReportsTrue',
         UNCHANGED <<due, performing, handed, page, reports, downloadNow, cuts, started, unarmed>>
  PROVE  DownloadInv'
  <1> USE DownloadConstants
  <1>t. DownloadTyped BY DEF DownloadInv
  <1>u. /\ due' = due /\ performing' = performing /\ handed' = handed /\ page' = page
        /\ reports' = reports /\ downloadNow' = downloadNow /\ cuts' = cuts /\ started' = started
        /\ unarmed' = unarmed
    OBVIOUS
  <1>1. DownloadTyped'
    BY <1>t, <1>u DEF DownloadTyped, DownloadTypeOK, CursorType, CursorStates, EntryType
  <1>2. ActionsInOrder'
    <2>1. ASSUME NEW b \in Expecting
          PROVE  /\ cursor'[b].state = "armed" => cursor[b].state = "armed"
                 /\ cursor'[b].state # "none" => cursor[b].state # "none"
      OBVIOUS
    <2> QED
      BY <1>u, <2>1 DEF DownloadInv, ActionsInOrder, IsLast, Occurred
  <1>3. LossesExplained'
    <2>1. ASSUME NEW b \in Expecting
          PROVE  /\ cursor'[b].state = "ambiguous" => cursor[b].state = "ambiguous"
                 /\ cursor'[b].state = "detached" => cursor[b].state = "detached"
      OBVIOUS
    <2>2. \A b \in Expecting : Overlapped(b)' <=> Overlapped(b)
      BY <1>u DEF Overlapped, Overtaken, Before
    <2>3. ASSUME NEW b \in Expecting, "lost" \in answers'[b] PROVE cuts > 0 \/ Overlapped(b)
      <3>1. CASE "lost" \in answers[b]
        BY <3>1 DEF DownloadInv, LossesExplained, OnlyOverlapsLose, Overlapped
      <3>2. CASE cursor[b].state \in {"ambiguous", "detached"}
        BY <3>2 DEF DownloadInv, LossesExplained
      <3> QED
        BY <2>3, <3>1, <3>2
    <2>4. OnlyOverlapsLose'
      <3>1. \A b \in Expecting : "lost" \in answers'[b] => cuts' > 0 \/ Overlapped(b)'
        BY <1>u, <2>2, <2>3
      <3> QED
        BY <3>1 DEF OnlyOverlapsLose, Overlapped
    <2> QED
      BY <1>u, <2>1, <2>2, <2>4 DEF DownloadInv, LossesExplained
  <1>4. ASSUME unarmed' = {} PROVE CursorsAwait' /\ CursorsOwn'
    <2>1. CursorsAwait /\ CursorsOwn BY <1>u, <1>4 DEF DownloadInv
    <2>2. ASSUME NEW b \in Expecting, FindsItsCursor(b)
          PROVE  FindsItsCursor(b)' /\ cursor'[b] = cursor[b]
      BY <1>u, <2>2 DEF FindsItsCursor
    <2>3. CursorsAwait'
      BY <1>u, <2>1, <2>2 DEF CursorsAwait, CanBegin, Told
    <2>4. CursorsOwn'
      <3>1. ASSUME NEW b \in Expecting PROVE entry'[b].cursor \in {b, NoAction}
        <4>1. NoEntry.cursor = NoAction BY DEF NoEntry
        <4> QED
          BY <2>1, <4>1 DEF CursorsOwn
      <3>2. ASSUME NEW b \in Expecting, cursor'[b].state \in {"completed", "canceled"}
            PROVE  cursor'[b] = cursor[b]
        BY <3>2
      <3>3. ASSUME NEW b \in Expecting, NEW x \in answers'[b] \cap {"completed", "canceled"}
            PROVE  x = page[b]
        <4>1. x \in answers[b] \/ cursor[b].state = x BY <3>3
        <4> QED
          BY <2>1, <3>3, <4>1 DEF CursorsOwn
      <3> QED
        BY <1>u, <2>1, <3>1, <3>2, <3>3 DEF CursorsOwn
    <2> QED
      BY <2>3, <2>4
  <1> QED
    BY <1>1, <1>2, <1>3, <1>4 DEF DownloadInv

LEMMA StartDownloadWaitKeeps ==
  ASSUME DownloadInv, NEW a \in Expecting, StartDownloadWait(a)
  PROVE  DownloadInv'
  <1>t. DownloadTyped BY DEF DownloadInv
  <1>1. /\ cursor' = Kept(cursor)
        /\ UNCHANGED <<due, performing, handed, page, reports, downloadNow, cuts, started, unarmed>>
        /\ page' = page /\ reports' = reports
    BY DEF StartDownloadWait
  <1>2. /\ cursor' \in [Expecting -> CursorType]
        /\ \A b \in Expecting : /\ cursor'[b] = cursor[b] \/ cursor'[b].state = "none"
                                /\ downloadNow <= cursor[b].expires => cursor'[b] = cursor[b]
    BY <1>t, <1>1, KeptIs
  <1>3. CASE Answer(a, Match(a)) /\ entry' = KeptEntries /\ UNCHANGED <<tracked, cdpAttached>>
    <2>1. /\ waitFor' = NoAction /\ answers' \in [Expecting -> SUBSET Answers]
          /\ \A b \in Expecting, x \in Answers :
               x \in answers'[b] => x \in answers[b] \/ (b = a /\ x = Match(a))
      BY <1>t, <1>3, AnswerIs
    <2>2. \A b \in Expecting : \A x \in {"lost", "completed", "canceled"} : x \in answers'[b] =>
           \/ x \in answers[b]
           \/ x = "lost" /\ cursor[b].state \in {"ambiguous", "detached"}
           \/ x \in {"completed", "canceled"} /\ cursor[b].state = x
      <3>1. {"lost", "completed", "canceled"} \subseteq Answers BY DEF Answers
      <3>2. /\ Match(a) = "lost" => cursor[a].state \in {"ambiguous", "detached"}
            /\ Match(a) \in {"completed", "canceled"} => cursor[a].state = Match(a)
        BY <1>t, MatchIs
      <3> QED
        BY <2>1, <3>1, <3>2
    <2>3. /\ entry' \in [Expecting -> EntryType]
          /\ \A b \in Expecting : entry'[b] \in {entry[b], NoEntry}
      BY <1>t, <1>3, EntriesAre
    <2>4. SessionReports' BY <1>1, <1>3 DEF DownloadInv, SessionReports
    <2>5. ReportsTrue'
      <3>1. NoEntry.status = "none" BY DEF NoEntry
      <3> QED
        BY <1>1, <2>3, <3>1 DEF DownloadInv, ReportsTrue
    <2>6. tracked' \in BOOLEAN /\ cdpAttached' \in BOOLEAN
      BY <1>t, <1>3 DEF DownloadTyped, DownloadTypeOK
    <2> QED
      BY <1>1, <1>2, <2>1, <2>2, <2>3, <2>4, <2>5, <2>6, LookKeeps
  <1>4. CASE waitFor' = a /\ Attached /\ UNCHANGED answers
    <2>1. /\ entry' \in [Expecting -> EntryType] /\ tracked' = TRUE /\ cdpAttached' \in BOOLEAN
          /\ \A b \in Expecting : entry'[b] \in {entry[b], NoEntry}
          /\ SessionReports' /\ ReportsTrue'
      BY <1>1, <1>4, AttachedIs
    <2>2. answers' \in [Expecting -> SUBSET Answers] /\ tracked' \in BOOLEAN
      BY <1>t, <1>4, <2>1 DEF DownloadTyped, DownloadTypeOK
    <2>3. answers' = answers BY <1>4
    <2> QED
      BY <1>1, <1>2, <1>4, <2>1, <2>2, <2>3, LookKeeps
  <1> QED
    BY <1>3, <1>4 DEF StartDownloadWait

LEMMA PollKeeps ==
  ASSUME DownloadInv, NEW a \in Expecting, Poll(a)
  PROVE  DownloadInv'
  <1>t. DownloadTyped BY DEF DownloadInv
  <1>1. /\ cursor' = Kept(cursor) /\ Attached /\ Answer(a, Match(a))
        /\ UNCHANGED <<due, performing, handed, page, reports, downloadNow, cuts, started, unarmed>>
        /\ page' = page /\ reports' = reports
    BY DEF Poll
  <1>2. /\ cursor' \in [Expecting -> CursorType]
        /\ \A b \in Expecting : /\ cursor'[b] = cursor[b] \/ cursor'[b].state = "none"
                                /\ downloadNow <= cursor[b].expires => cursor'[b] = cursor[b]
    BY <1>t, <1>1, KeptIs
  <1>3. /\ entry' \in [Expecting -> EntryType] /\ tracked' = TRUE /\ cdpAttached' \in BOOLEAN
        /\ \A b \in Expecting : entry'[b] \in {entry[b], NoEntry}
        /\ SessionReports' /\ ReportsTrue'
    BY <1>1, AttachedIs
  <1>4. /\ waitFor' = NoAction /\ answers' \in [Expecting -> SUBSET Answers]
        /\ \A b \in Expecting, x \in Answers :
             x \in answers'[b] => x \in answers[b] \/ (b = a /\ x = Match(a))
    BY <1>t, <1>1, AnswerIs
  <1>5. \A b \in Expecting : \A x \in {"lost", "completed", "canceled"} : x \in answers'[b] =>
         \/ x \in answers[b]
         \/ x = "lost" /\ cursor[b].state \in {"ambiguous", "detached"}
         \/ x \in {"completed", "canceled"} /\ cursor[b].state = x
    <2>1. {"lost", "completed", "canceled"} \subseteq Answers BY DEF Answers
    <2>2. /\ Match(a) = "lost" => cursor[a].state \in {"ambiguous", "detached"}
          /\ Match(a) \in {"completed", "canceled"} => cursor[a].state = Match(a)
      BY <1>t, MatchIs
    <2> QED
      BY <1>4, <2>1, <2>2
  <1>6. tracked' \in BOOLEAN BY <1>3
  <1> QED
    BY <1>1, <1>2, <1>3, <1>4, <1>5, <1>6, LookKeeps

LEMMA WaitTimesOutKeeps ==
  ASSUME DownloadInv, NEW a \in Expecting, WaitTimesOut(a)
  PROVE  DownloadInv'
  <1>t. DownloadTyped BY DEF DownloadInv
  <1>1. /\ UNCHANGED <<due, performing, handed, page, reports, downloadNow, cuts, started, unarmed>>
        /\ cursor' = cursor /\ entry' = entry /\ tracked' = tracked /\ cdpAttached' = cdpAttached
        /\ reports' = reports /\ page' = page
    BY DEF WaitTimesOut
  <1>2. PICK answer \in {"throttled", "timed_out"} : Answer(a, answer)
    BY DEF WaitTimesOut
  <1>3. /\ waitFor' = NoAction /\ answers' \in [Expecting -> SUBSET Answers]
        /\ \A b \in Expecting, x \in Answers :
             x \in answers'[b] => x \in answers[b] \/ (b = a /\ x = answer)
    BY <1>t, <1>2, AnswerIs
  <1>4. \A b \in Expecting : \A x \in {"lost", "completed", "canceled"} :
          x \in answers'[b] => x \in answers[b]
    <2>1. {"lost", "completed", "canceled"} \subseteq Answers BY DEF Answers
    <2>2. \A x \in {"lost", "completed", "canceled"} : x # answer BY <1>2
    <2> QED
      BY <1>3, <2>1, <2>2
  <1>5. /\ cursor' \in [Expecting -> CursorType] /\ entry' \in [Expecting -> EntryType]
        /\ tracked' \in BOOLEAN /\ cdpAttached' \in BOOLEAN
    BY <1>t, <1>1, EntriesAre DEF DownloadTyped, DownloadTypeOK, CursorType, CursorStates
  <1>6. SessionReports' /\ ReportsTrue' BY <1>1 DEF DownloadInv, SessionReports, ReportsTrue
  <1>7. \A b \in Expecting : /\ cursor'[b] = cursor[b] \/ cursor'[b].state = "none"
                             /\ downloadNow <= cursor[b].expires => cursor'[b] = cursor[b]
                             /\ entry'[b] \in {entry[b], NoEntry}
    BY <1>1
  <1> QED
    BY <1>1, <1>3, <1>4, <1>5, <1>6, <1>7, LookKeeps

--------------------------------
\* The theorem

LEMMA DownloadInvInit ==
  ASSUME DownloadInit
  PROVE  DownloadInv
  <1> USE DownloadConstants
  <1>1. NoCursor \in CursorType /\ NoEntry \in EntryType /\ NoCursor.state = "none"
        /\ NoEntry.status = "none" /\ NoEntry.cursor = NoAction
    BY DEF NoCursor, NoEntry, CursorType, CursorStates, EntryType
  <1>2. /\ reports = <<>> /\ started = <<>> /\ reports \in Seq(ReportType)
        /\ started \in Seq(PageAction) /\ DOMAIN reports = {} /\ Len(started) = 0
        /\ cuts \in 0 .. MaxCuts /\ downloadNow = 0 /\ downloadNow \in 0 .. MaxDownloadTime
    BY DEF DownloadInit
  <1>3. /\ cursor \in [Expecting -> CursorType] /\ entry \in [Expecting -> EntryType]
        /\ \A a \in Expecting : cursor[a] = NoCursor /\ entry[a] = NoEntry
    BY <1>1 DEF DownloadInit
  <1>4. /\ performing \in [act : PageAction \cup {NoAction}, at : {"idle", "arming", "ready"}]
        /\ performing.act = NoAction /\ performing.at = "idle"
    BY DEF DownloadInit, NotPerforming
  <1>5. /\ page = [a \in Expecting |-> "none"] /\ answers = [a \in Expecting |-> {}]
        /\ due = [a \in Expecting |-> 0] /\ handed = {} /\ unarmed = {} /\ waitFor = NoAction
    BY DEF DownloadInit
  <1>6. /\ page \in [Expecting -> {"none", "due", "in_progress", "completed", "canceled"}]
        /\ answers \in [Expecting -> SUBSET Answers] /\ due \in [Expecting -> Nat]
        /\ \A a \in Expecting : page[a] = "none" /\ answers[a] = {} /\ due[a] = 0
    BY <1>5
  <1>7. tracked \in BOOLEAN /\ cdpAttached \in BOOLEAN /\ ~cdpAttached
    BY DEF DownloadInit
  <1>8. DownloadTyped
    <2>1. \A a \in Expecting : due[a] <= downloadNow + Retention BY <1>2, <1>6
    <2>2. handed \subseteq Expecting /\ unarmed \subseteq Expecting
          /\ waitFor \in Expecting \cup {NoAction}
      BY <1>5
    <2> QED
      BY <1>2, <1>3, <1>4, <1>6, <1>7, <2>1, <2>2
         DEF DownloadTyped, DownloadTypeOK, CursorType, CursorStates, EntryType
  <1>9. ActionsInOrder BY <1>1, <1>3, <1>4, <1>6 DEF ActionsInOrder
  <1>10. LossesExplained
    BY <1>1, <1>2, <1>3, <1>6 DEF LossesExplained, OnlyOverlapsLose
  <1>11. SessionReports BY <1>2, <1>7 DEF SessionReports
  <1>12. ReportsTrue BY <1>1, <1>2, <1>3 DEF ReportsTrue
  <1>13. CursorsAwait BY <1>2, <1>4, <1>6 DEF CursorsAwait, CanBegin, Told
  <1>14. CursorsOwn BY <1>1, <1>3, <1>6 DEF CursorsOwn
  <1> QED
    BY <1>8, <1>9, <1>10, <1>11, <1>12, <1>13, <1>14 DEF DownloadInv

LEMMA DownloadInvNext ==
  ASSUME DownloadInv, [DownloadNext]_downloadVars
  PROVE  DownloadInv'
  <1>1. CASE UNCHANGED downloadVars
    BY <1>1 DEF downloadVars, DownloadInv, DownloadTyped, DownloadTypeOK, ActionsInOrder, IsLast,
       Occurred, LossesExplained, OnlyOverlapsLose, Overlapped, Overtaken, Before, SessionReports,
       ReportsTrue, CursorsAwait, CursorsOwn, CanBegin, FindsItsCursor, Told
  <1>2. CASE \E a \in PageAction : StartAction(a) \/ Dispatch(a) \/ ActionFails(a)
    BY <1>2, StartActionKeeps, DispatchKeeps, ActionFailsKeeps
  <1>3. CASE \E a \in Expecting :
               \/ Arm(a) \/ DownloadBegins(a) \/ StartDownloadWait(a) \/ Poll(a) \/ WaitTimesOut(a)
               \/ \E state \in {"completed", "canceled"} : DownloadEnds(a, state)
    BY <1>3, ArmKeeps, DownloadBeginsKeeps, StartDownloadWaitKeeps, PollKeeps, WaitTimesOutKeeps,
       DownloadEndsKeeps
  <1>4. CASE DebuggerDetaches \/ DownloadTick \/ Hear
    BY <1>4, DebuggerDetachesKeeps, DownloadTickKeeps, HearKeeps
  <1> QED
    BY <1>1, <1>2, <1>3, <1>4 DEF DownloadNext

\* A wait reports of a download only what became of that of its own action, whatever else begins,
\* ends or is armed meanwhile and in whatever order the worker hears of it, as long as no session
\* ended under a cursor whose download was still to begin; and only an action that another one
\* overtook or preceded, or a session that ended, loses its download (trackDownloadWillBegin,
\* invalidatePendingDownloadAttribution, downloadCursorMatch in browser.ts).
THEOREM DownloadsAreAttributedOrWithheld == DownloadSpec => []AttributedOrWithheld
  <1>1. DownloadInv => AttributedOrWithheld
    BY DEF DownloadInv, DownloadTyped, LossesExplained, CursorsOwn, AttributedToItsAction,
           AttributedOrWithheld
  <1> QED
    BY <1>1, DownloadInvInit, DownloadInvNext, PTL DEF DownloadSpec

--------------------------------
(* TargetRefs: what was stored before it was handed out is in every later copy *)

Minted == DOMAIN minted
TabOf(r) == minted[r].tab
MintType == [tab : RefTab, revision : Nat]
LoaderType == [at : {"off", "index", "rows", "merge"}, tabs : SUBSET RefTab, refs : SUBSET Nat,
               live : SUBSET RefTab]
WriteType == [kind : {"persist", "clear"}, ref : Nat, at : {"start", "load", "set", "remove"},
            tabs : SUBSET RefTab, rows : SUBSET Nat, index : SUBSET RefTab]

SetAt == Doing("persist", "set")
Taken == IF SetAt THEN Head(writes).rows ELSE {}
Stored(r) == TabOf(r) \in indexed /\ r \in rows[TabOf(r)]
Known == memory \cup loader.refs \cup Taken \cup UNION {rows[t] : t \in RefTab}

\* No later snapshot of the tab.
Newest(r) == \A s \in Minted : TabOf(s) = TabOf(r) => minted[s].revision <= minted[r].revision
NewestIn(tab, refs) == \E s \in refs : TabOf(s) = tab /\ Newest(s)

\* The refs whose write is still to end.
Asked == {writes[i].ref : i \in DOMAIN writes} \ {0}

RefsTyped ==
  /\ RefsTypeOK
  /\ minted \in Seq(MintType) /\ Len(minted) <= MaxRefs
  /\ loader \in LoaderType /\ loader.refs \subseteq Minted
  /\ writes \in Seq(WriteType) /\ Asked \subseteq Minted
  /\ \A i \in DOMAIN writes : writes[i].rows \subseteq Minted
  /\ \A t \in RefTab : \A r \in rows[t] : TabOf(r) = t
  /\ open \cap closing = {}

LoadsInOrder ==
  /\ loaded = "no" => loader.at = "off"
  /\ loaded = "pending" => loader.at # "off"
  /\ loaded = "done" /\ loader.at # "off" => cleared = "in_a_load"
  /\ loader.at # "merge" => loader.refs = {}

\* clear() comes first in the queue, before anything of this browser is stored.
ClearFirst ==
  /\ \A i \in DOMAIN writes : writes[i].kind = "clear" =>
       /\ i = 1 /\ writes[i].at \in {"start", "remove"} /\ promised = {} /\ writes[i].ref = 0
       /\ loader.refs \cup UNION {rows[t] : t \in RefTab} \subseteq earlier
  /\ Asked \cap earlier = {}

\* Of the refs whose write is asked for, memory has those of the latest snapshot.
AskedAreLatest ==
  /\ \A tab \in RefTab : (\E r \in Minted : TabOf(r) = tab) => NewestIn(tab, Minted)
  /\ \A r \in Asked : TabOf(r) \in open /\ r \in Known =>
        NewestIn(TabOf(r), memory) /\ (r \in memory <=> Newest(r))

\* What a write under way leaves of a ref.
Survives(r) == SetAt => LET write == Head(writes)
                        IN TabOf(r) \in write.index /\ (TabOf(r) \in write.tabs => r \in write.rows)
WillBeStored(r) == /\ Survives(r)
                   /\ ~(SetAt /\ TabOf(r) \in Head(writes).tabs) => Stored(r)

WritesCover ==
  /\ Doing("persist", "remove") => indexed = Head(writes).index
  /\ \A r \in Asked \cap memory : TabOf(r) \in open => TabOf(r) \in dirty \/ WillBeStored(r)
  /\ SetAt \/ Doing("persist", "remove") =>
       \A r \in {Head(writes).ref} \cap memory : TabOf(r) \in open => WillBeStored(r)

PromisesKept ==
  \A r \in promised :
    /\ TabOf(r) \in open /\ Newest(r) /\ Stored(r) /\ Survives(r)
    /\ \/ r \in memory
       \/ /\ loaded # "done"
          /\ loader.at = "rows" => TabOf(r) \in loader.tabs
          /\ loader.at = "merge" => r \in loader.refs

ClosedAreForgotten ==
  cleared = "in_a_load" \/ TabsOf(memory \cup loader.refs) \subseteq open \cup closing \cup unforgotten

RefsInv ==
  /\ RefsTyped /\ LoadsInOrder /\ ClearFirst /\ AskedAreLatest /\ WritesCover /\ PromisesKept
  /\ ClosedAreForgotten

--------------------------------
\* The queue of writes

LEMMA HeadIs ==
  ASSUME RefsTyped, writes # <<>>
  PROVE  /\ Head(writes) = writes[1] /\ 1 \in DOMAIN writes /\ writes[1] \in WriteType
         /\ DOMAIN writes = 1 .. Len(writes) /\ Len(writes) \in Nat \ {0}
  <1>1. writes \in Seq(WriteType) BY DEF RefsTyped
  <1> QED
    BY <1>1

\* The first write goes on.
LEMMA HeadBecomesIs ==
  ASSUME RefsTyped, writes # <<>>, NEW write \in WriteType, write.ref = writes[1].ref, HeadBecomes(write)
  PROVE  /\ writes' \in Seq(WriteType) /\ writes' # <<>> /\ DOMAIN writes' = DOMAIN writes
         /\ Head(writes)' = write /\ writes'[1] = write /\ 1 \in DOMAIN writes
         /\ \A i \in DOMAIN writes : i # 1 => writes'[i] = writes[i] /\ writes[i].at = "start"
         /\ Asked' = Asked
  <1>1. /\ writes \in Seq(WriteType) /\ Len(writes) \in Nat \ {0}
        /\ DOMAIN writes = 1 .. Len(writes) /\ 1 \in DOMAIN writes
    BY HeadIs DEF RefsTyped
  <1>2. /\ Tail(writes) \in Seq(WriteType) /\ Len(Tail(writes)) = Len(writes) - 1
        /\ \A i \in 1 .. Len(Tail(writes)) : Tail(writes)[i] = writes[i + 1]
    BY <1>1
  <1>3. <<write>> \in Seq(WriteType) /\ Len(<<write>>) = 1 /\ <<write>>[1] = write
    OBVIOUS
  <1>4. /\ writes' \in Seq(WriteType) /\ Len(writes') = Len(writes)
        /\ \A i \in 1 .. Len(writes') :
             writes'[i] = IF i <= 1 THEN <<write>>[i] ELSE Tail(writes)[i - 1]
    <2>1. writes' = <<write>> \o Tail(writes) BY DEF HeadBecomes
    <2> QED
      BY <1>1, <1>2, <1>3, <2>1, ConcatProperties
  <1>5. /\ DOMAIN writes' = DOMAIN writes /\ writes' # <<>> /\ writes'[1] = write
        /\ Head(writes)' = write
    BY <1>1, <1>3, <1>4
  <1>6. ASSUME NEW i \in DOMAIN writes, i # 1 PROVE writes'[i] = writes[i] /\ writes[i].at = "start"
    <2>1. i \in 2 .. Len(writes) /\ i - 1 \in 1 .. Len(Tail(writes)) /\ i > 1
      BY <1>1, <1>2, <1>6
    <2>2. writes'[i] = Tail(writes)[i - 1] BY <1>4, <2>1
    <2>3. Tail(writes)[i - 1] = writes[i] BY <1>2, <2>1
    <2>4. writes[i].at = "start" BY <2>1 DEF RefsTyped, RefsTypeOK
    <2> QED
      BY <2>2, <2>3, <2>4
  <1>7. Asked' = Asked
    BY <1>5, <1>6 DEF Asked
  <1> QED
    BY <1>1, <1>4, <1>5, <1>6, <1>7

\* The first write ends: the next one has not begun.
LEMMA JobEndsIs ==
  ASSUME RefsTyped, writes # <<>>, writes' = Tail(writes)
  PROVE  /\ writes' \in Seq(WriteType)
         /\ \A i \in DOMAIN writes' : /\ i + 1 \in DOMAIN writes /\ writes'[i] = writes[i + 1]
                                      /\ writes'[i].at = "start" /\ i + 1 # 1
         /\ Asked' \subseteq Asked
         /\ writes' # <<>> => Head(writes)'.at = "start"
  <1>1. /\ writes \in Seq(WriteType) /\ Len(writes) \in Nat \ {0}
        /\ DOMAIN writes = 1 .. Len(writes)
    BY HeadIs DEF RefsTyped
  <1>2. /\ writes' \in Seq(WriteType) /\ Len(writes') = Len(writes) - 1
        /\ DOMAIN writes' = 1 .. Len(writes')
        /\ \A i \in DOMAIN writes' : writes'[i] = writes[i + 1]
    BY <1>1
  <1>3. ASSUME NEW i \in DOMAIN writes'
        PROVE  /\ i + 1 \in DOMAIN writes /\ writes'[i] = writes[i + 1]
               /\ writes'[i].at = "start" /\ i + 1 # 1
    <2>1. i + 1 \in DOMAIN writes /\ i + 1 > 1 BY <1>1, <1>2
    <2> QED
      BY <1>2, <2>1 DEF RefsTyped, RefsTypeOK
  <1>4. Asked' \subseteq Asked BY <1>3 DEF Asked
  <1>5. writes' # <<>> => 1 \in DOMAIN writes' /\ Head(writes)' = writes'[1] BY <1>2
  <1> QED
    BY <1>2, <1>3, <1>4, <1>5

\* A write joins the others.
LEMMA JobJoinsIs ==
  ASSUME RefsTyped, NEW ref \in Nat, NEW kind \in {"persist"}, writes' = Append(writes, Job(kind, ref))
  PROVE  /\ writes' \in Seq(WriteType) /\ writes' # <<>>
         /\ \A i \in DOMAIN writes : i \in DOMAIN writes' /\ writes'[i] = writes[i]
         /\ \A i \in DOMAIN writes' : \/ i \in DOMAIN writes
                                      \/ writes'[i] = Job(kind, ref)
         /\ \A i \in DOMAIN writes' : i > 1 => writes'[i].at = "start"
         /\ Asked' = Asked \cup ({ref} \ {0})
         /\ writes # <<>> => Head(writes)' = Head(writes)
         /\ writes = <<>> => Head(writes)'.at = "start"
  <1>1. /\ writes \in Seq(WriteType) /\ Len(writes) \in Nat /\ DOMAIN writes = 1 .. Len(writes)
        /\ writes # <<>> => Len(writes) > 0
    BY DEF RefsTyped
  <1>2. /\ Job(kind, ref) \in WriteType /\ Job(kind, ref).at = "start" /\ Job(kind, ref).ref = ref
        /\ Job(kind, ref).rows = {}
    BY DEF Job, WriteType
  <1>3. /\ writes' \in Seq(WriteType) /\ Len(writes') = Len(writes) + 1
        /\ DOMAIN writes' = 1 .. Len(writes') /\ writes'[Len(writes')] = Job(kind, ref)
        /\ \A i \in DOMAIN writes : i \in DOMAIN writes' /\ writes'[i] = writes[i]
        /\ \A i \in DOMAIN writes' : i \in DOMAIN writes \/ i = Len(writes')
    BY <1>1, <1>2
  <1>4. Asked' = Asked \cup ({ref} \ {0})
    <2>1. Len(writes') \in DOMAIN writes' BY <1>1, <1>3
    <2> QED
      BY <1>2, <1>3, <2>1 DEF Asked
  <1>5. \A i \in DOMAIN writes' : i > 1 => writes'[i].at = "start"
    BY <1>2, <1>3 DEF RefsTyped, RefsTypeOK
  <1>6. /\ writes' # <<>> /\ Head(writes)' = writes'[1]
        /\ writes # <<>> => Head(writes)' = Head(writes)
        /\ writes = <<>> => Head(writes)' = Job(kind, ref)
    BY <1>1, <1>3
  <1> QED
    BY <1>2, <1>3, <1>4, <1>5, <1>6

\* What asks for a load begins one if there has been none.
LEMMA LoadBegins ==
  ASSUME RefsTyped, LoadsInOrder, loaded' = Begun, loader' = BegunLoader, cleared' = cleared
  PROVE  /\ loader' \in LoaderType /\ loader'.refs = loader.refs /\ LoadsInOrder'
         /\ loaded' \in {"pending", "done"}
         /\ loaded' = "done" <=> loaded = "done"
         /\ loader'.at \in {"rows", "merge"} => loader' = loader
  <1>1. loader \in LoaderType /\ loaded \in {"no", "pending", "done"}
    BY DEF RefsTyped, RefsTypeOK
  <1>2. CASE loaded = "no"
    <2>1. loader' = [at |-> "index", tabs |-> {}, refs |-> {}, live |-> {}] /\ loaded' = "pending"
      BY <1>2 DEF BegunLoader, Begun, NoLoader
    <2>2. loader.refs = {} BY <1>2 DEF LoadsInOrder
    <2> QED
      BY <1>2, <2>1, <2>2 DEF LoaderType, LoadsInOrder
  <1>3. CASE loaded # "no"
    BY <1>1, <1>3 DEF BegunLoader, Begun, LoadsInOrder
  <1> QED
    BY <1>2, <1>3

--------------------------------
\* What each step leaves as it is

\* No ref becomes known, or asked for, and memory stays.
LEMMA AskedStay ==
  ASSUME AskedAreLatest, minted' = minted, memory' = memory, open' \subseteq open,
         Asked' \subseteq Asked, Known' \subseteq Known
  PROVE  AskedAreLatest'
  <1>1. \A r, t : NewestIn(t, Minted)' <=> NewestIn(t, Minted) BY DEF NewestIn, Newest, TabOf, Minted
  <1>2. \A r : Newest(r)' <=> Newest(r) BY DEF Newest, TabOf, Minted
  <1>3. \A t : NewestIn(t, memory)' <=> NewestIn(t, memory) BY <1>2 DEF NewestIn, TabOf
  <1>4. \A r : TabOf(r)' = TabOf(r) /\ Minted' = Minted BY DEF TabOf, Minted
  <1> QED
    BY <1>1, <1>2, <1>3, <1>4 DEF AskedAreLatest

\* The queue, the storage and what is in memory stay.
LEMMA WritesStay ==
  ASSUME RefsTyped, ClearFirst, AskedAreLatest, WritesCover, minted' = minted, writes' = writes,
         memory' = memory, dirty' = dirty, open' \subseteq open, loader'.refs \subseteq loader.refs,
         rows' = rows, indexed' = indexed, promised' \subseteq promised, earlier' = earlier
  PROVE  ClearFirst' /\ AskedAreLatest' /\ WritesCover'
  <1>1. Asked' = Asked /\ Taken' = Taken BY DEF Asked, Taken, SetAt, Doing
  <1>2. Known' \subseteq Known BY <1>1 DEF Known
  <1>3. ClearFirst' BY <1>1 DEF ClearFirst
  <1>4. AskedAreLatest' BY <1>1, <1>2, AskedStay
  <1>5. WritesCover'
    <2>1. \A r : WillBeStored(r)' <=> WillBeStored(r)
      BY DEF WillBeStored, Survives, SetAt, Doing, Stored, TabOf
    <2> QED
      BY <1>1, <2>1 DEF WritesCover, SetAt, Doing, TabOf
  <1> QED
    BY <1>3, <1>4, <1>5

\* Of what was promised the storage and the write under way stay.
LEMMA PromisesStay ==
  ASSUME PromisesKept, minted' = minted, promised' \subseteq promised,
         \A r \in promised' : TabOf(r) \in open',
         \A r \in promised' : Stored(r)' /\ Survives(r)',
         \A r \in promised' :
           \/ r \in memory'
           \/ /\ loaded' # "done"
              /\ loader'.at = "rows" => TabOf(r) \in loader'.tabs
              /\ loader'.at = "merge" => r \in loader'.refs
  PROVE  PromisesKept'
  <1>1. \A r : Newest(r)' <=> Newest(r) BY DEF Newest, TabOf, Minted
  <1>2. \A r : TabOf(r)' = TabOf(r) BY DEF TabOf
  <1> QED
    BY <1>1, <1>2 DEF PromisesKept

--------------------------------
\* Loads

LEMMA LookupMissesKeeps ==
  ASSUME RefsInv, LookupMisses
  PROVE  RefsInv'
  <1>1. /\ loaded' = Begun /\ loader' = BegunLoader /\ minted' = minted /\ earlier' = earlier
        /\ refKills' = refKills /\ browserStarts' = browserStarts /\ memory' = memory
        /\ dirty' = dirty /\ writes' = writes /\ rows' = rows /\ indexed' = indexed /\ open' = open
        /\ closing' = closing /\ unforgotten' = unforgotten /\ promised' = promised
        /\ cleared' = cleared /\ refFailures' = refFailures
    BY DEF LookupMisses, history, storage, tabs
  <1>2. /\ loader' \in LoaderType /\ loader'.refs = loader.refs /\ LoadsInOrder'
        /\ loaded' \in {"pending", "done"}
        /\ loaded' = "done" <=> loaded = "done"
        /\ loader'.at \in {"rows", "merge"} => loader' = loader
    BY <1>1, LoadBegins DEF RefsInv
  <1>3. loader'.at \in {"off", "index", "rows", "merge"} BY <1>2 DEF LoaderType
  <1>4. RefsTyped'
    BY <1>1, <1>2, <1>3 DEF RefsInv, RefsTyped, RefsTypeOK, Minted, Asked, TabOf
  <1>5. ClearFirst' /\ AskedAreLatest' /\ WritesCover'
    BY <1>1, <1>2, WritesStay DEF RefsInv
  <1>6. PromisesKept'
    <2>1. \A r \in promised : Stored(r)' /\ Survives(r)'
      BY <1>1 DEF RefsInv, PromisesKept, Stored, Survives, SetAt, Doing, TabOf
    <2> QED
      BY <1>1, <1>2, <2>1, PromisesStay DEF RefsInv, PromisesKept
  <1>7. ClosedAreForgotten'
    BY <1>1, <1>2 DEF RefsInv, ClosedAreForgotten, TabsOf
  <1> QED
    BY <1>2, <1>4, <1>5, <1>6, <1>7 DEF RefsInv

LEMMA LoadReadsIndexKeeps ==
  ASSUME RefsInv, LoadReadsIndex
  PROVE  RefsInv'
  <1>1. /\ loader.at = "index" /\ minted' = minted /\ earlier' = earlier
        /\ refKills' = refKills /\ browserStarts' = browserStarts /\ memory' = memory
        /\ dirty' = dirty /\ writes' = writes /\ rows' = rows /\ indexed' = indexed /\ open' = open
        /\ closing' = closing /\ unforgotten' = unforgotten /\ promised' = promised
        /\ cleared' = cleared /\ refFailures' = refFailures
    BY DEF LoadReadsIndex, history, storage, tabs
  <1>t. loader \in LoaderType /\ indexed \in SUBSET RefTab /\ loader.refs = {}
    BY <1>1 DEF RefsInv, RefsTyped, RefsTypeOK, LoadsInOrder
  <1>2. CASE indexed = {}
    <2>1. loaded' = "done" /\ loader' = NoLoader BY <1>2 DEF LoadReadsIndex
    <2>2. loader' \in LoaderType /\ loader'.at = "off" /\ loader'.refs = {}
      BY <2>1 DEF NoLoader, LoaderType
    <2>3. \A r \in promised : FALSE BY <1>2 DEF RefsInv, PromisesKept, Stored
    <2>4. loaded' \in {"no", "pending", "done"} BY <2>1
    <2>5. RefsTyped'
      BY <1>1, <2>2, <2>4 DEF RefsInv, RefsTyped, RefsTypeOK, Minted, Asked, TabOf
    <2>6. LoadsInOrder' BY <2>1, <2>2 DEF LoadsInOrder
    <2>7. ClearFirst' /\ AskedAreLatest' /\ WritesCover'
      BY <1>1, <2>2, WritesStay DEF RefsInv
    <2>8. PromisesKept' BY <1>1, <2>3 DEF PromisesKept
    <2>9. ClosedAreForgotten'
      BY <1>1, <1>t, <2>2 DEF RefsInv, ClosedAreForgotten, TabsOf
    <2> QED
      BY <2>5, <2>6, <2>7, <2>8, <2>9 DEF RefsInv
  <1>3. CASE indexed # {}
    <2>1. loaded' = loaded /\ loader' = [loader EXCEPT !.at = "rows", !.tabs = indexed]
      BY <1>3 DEF LoadReadsIndex
    <2>2. /\ loader' \in LoaderType /\ loader'.at = "rows" /\ loader'.refs = {}
          /\ loader'.tabs = indexed
      BY <1>t, <2>1 DEF LoaderType
    <2>3. RefsTyped'
      BY <1>1, <2>1, <2>2 DEF RefsInv, RefsTyped, RefsTypeOK, Minted, Asked, TabOf
    <2>4. LoadsInOrder' BY <1>1, <2>1, <2>2 DEF RefsInv, LoadsInOrder
    <2>5. ClearFirst' /\ AskedAreLatest' /\ WritesCover'
      BY <1>1, <2>2, WritesStay DEF RefsInv
    <2>6. PromisesKept'
      <3>1. \A r \in promised : Stored(r)' /\ Survives(r)'
        BY <1>1 DEF RefsInv, PromisesKept, Stored, Survives, SetAt, Doing, TabOf
      <3>2. \A r \in promised : TabOf(r) \in indexed
        BY DEF RefsInv, PromisesKept, Stored
      <3> QED
        BY <1>1, <2>1, <2>2, <3>1, <3>2, PromisesStay DEF RefsInv, PromisesKept
    <2>7. ClosedAreForgotten'
      BY <1>1, <1>t, <2>2 DEF RefsInv, ClosedAreForgotten, TabsOf
    <2> QED
      BY <2>3, <2>4, <2>5, <2>6, <2>7 DEF RefsInv
  <1> QED
    BY <1>2, <1>3

LEMMA LoadReadsRowsKeeps ==
  ASSUME RefsInv, LoadReadsRows
  PROVE  RefsInv'
  <1>1. /\ loader.at = "rows" /\ minted' = minted /\ earlier' = earlier
        /\ loader' = [loader EXCEPT !.at = "merge", !.live = open,
                              !.refs = UNION {rows[t] : t \in loader.tabs \cap open}]
        /\ refKills' = refKills /\ browserStarts' = browserStarts /\ memory' = memory
        /\ dirty' = dirty /\ writes' = writes /\ rows' = rows /\ indexed' = indexed /\ open' = open
        /\ closing' = closing /\ unforgotten' = unforgotten /\ promised' = promised
        /\ cleared' = cleared /\ refFailures' = refFailures /\ loaded' = loaded
    BY DEF LoadReadsRows, history, storage, tabs
  <1> DEFINE found == UNION {rows[t] : t \in loader.tabs \cap open}
  <1>t. /\ loader \in LoaderType /\ open \in SUBSET RefTab /\ loader.refs = {}
        /\ rows \in [RefTab -> SUBSET Minted] /\ Minted \subseteq Nat
    BY <1>1 DEF RefsInv, RefsTyped, RefsTypeOK, LoadsInOrder, Refs, Minted
  <1>2. /\ found \subseteq Minted /\ found \subseteq UNION {rows[t] : t \in RefTab}
        /\ \A r \in found : TabOf(r) \in open
    <2>1. ASSUME NEW r \in found
          PROVE  r \in Minted /\ r \in UNION {rows[t] : t \in RefTab} /\ TabOf(r) \in open
      <3>1. PICK t \in loader.tabs \cap open : r \in rows[t] OBVIOUS
      <3>2. t \in RefTab BY <1>t
      <3> QED
        BY <1>t, <3>1, <3>2 DEF RefsInv, RefsTyped
    <2> QED
      BY <2>1
  <1>n. loader' = [loader EXCEPT !.at = "merge", !.live = open, !.refs = found]
    BY <1>1
  <1>3. \A t \in loader.tabs \cap open : rows[t] \subseteq found OBVIOUS
  <1> HIDE DEF found
  <1>4. found \in SUBSET Nat BY <1>t, <1>2
  <1>5. loader' \in LoaderType /\ loader'.at = "merge" /\ loader'.refs = found
    BY <1>n, <1>t, <1>4 DEF LoaderType
  <1>6. RefsTyped'
    BY <1>1, <1>2, <1>5 DEF RefsInv, RefsTyped, RefsTypeOK, Minted, Asked, TabOf
  <1>7. LoadsInOrder' BY <1>1, <1>5 DEF RefsInv, LoadsInOrder
  <1>8. Asked' = Asked /\ Taken' = Taken BY <1>1 DEF Asked, Taken, SetAt, Doing
  <1>9. ClearFirst'
    BY <1>1, <1>2, <1>5, <1>8 DEF RefsInv, ClearFirst
  <1>10. AskedAreLatest'
    <2>1. Known' \subseteq Known BY <1>1, <1>2, <1>5, <1>8 DEF Known
    <2> QED
      BY <1>1, <1>8, <2>1, AskedStay DEF RefsInv
  <1>11. WritesCover'
    <2>1. \A r : WillBeStored(r)' <=> WillBeStored(r)
      BY <1>1 DEF WillBeStored, Survives, SetAt, Doing, Stored, TabOf
    <2> QED
      BY <1>1, <1>8, <2>1 DEF RefsInv, WritesCover, SetAt, Doing, TabOf
  <1>12. PromisesKept'
    <2>1. \A r \in promised : Stored(r)' /\ Survives(r)'
      BY <1>1 DEF RefsInv, PromisesKept, Stored, Survives, SetAt, Doing, TabOf
    <2>2. ASSUME NEW r \in promised, r \notin memory PROVE loaded # "done" /\ r \in found
      BY <1>1, <1>3, <2>2 DEF RefsInv, PromisesKept, Stored
    <2> QED
      BY <1>1, <1>5, <2>1, <2>2, PromisesStay DEF RefsInv, PromisesKept
  <1>13. ClosedAreForgotten'
    <2>1. \A r \in found : TabOf(r) \in open BY <1>2
    <2> QED
      BY <1>1, <1>5, <2>1 DEF RefsInv, ClosedAreForgotten, TabsOf, TabOf
  <1> QED
    BY <1>6, <1>7, <1>9, <1>10, <1>11, <1>12, <1>13 DEF RefsInv

LEMMA LoadMergesKeeps ==
  ASSUME RefsInv, LoadMerges
  PROVE  RefsInv'
  <1> DEFINE all == memory \cup loader.refs
  <1>1. /\ loader.at = "merge" /\ minted' = minted /\ earlier' = earlier
        /\ memory' = all \ Outdated(all)
        /\ dirty' = dirty \cup (loader.tabs \ loader.live) \cup TabsOf(Outdated(all))
        /\ loaded' = "done" /\ loader' = NoLoader
        /\ refKills' = refKills /\ browserStarts' = browserStarts
        /\ writes' = writes /\ rows' = rows /\ indexed' = indexed /\ open' = open
        /\ closing' = closing /\ unforgotten' = unforgotten /\ promised' = promised
        /\ cleared' = cleared /\ refFailures' = refFailures
    BY DEF LoadMerges, history, storage, tabs
  <1>t. /\ loader \in LoaderType /\ all \subseteq Minted
        /\ \A r \in Minted : TabOf(r) \in RefTab /\ minted[r].revision \in Nat /\ r # 0
    BY DEF RefsInv, RefsTyped, RefsTypeOK, Minted, TabOf, Refs
  <1>2. loader' \in LoaderType /\ loader'.at = "off" /\ loader'.refs = {}
    BY <1>1 DEF NoLoader, LoaderType
  <1>3. \A r \in Minted : Newest(r) /\ r \in all => r \in memory'
    BY <1>1, <1>t DEF Newest, Outdated, TabOf
  <1>4. \A r \in memory' : /\ r \in all
                           /\ \A s \in all : TabOf(s) = TabOf(r) =>
                                ~(minted[s].revision > minted[r].revision)
    BY <1>1 DEF Outdated, TabOf
  <1>5. memory' \subseteq all BY <1>1
  <1> HIDE DEF all
  <1>6. \A r, s \in Minted : ~(minted[s].revision > minted[r].revision) =>
           minted[s].revision <= minted[r].revision
    BY <1>t
  <1>7. /\ Asked' = Asked /\ Taken' = Taken /\ Minted' = Minted
        /\ \A r : TabOf(r)' = TabOf(r) /\ (Newest(r)' <=> Newest(r))
    BY <1>1 DEF Asked, Taken, SetAt, Doing, Minted, TabOf, Newest
  <1>8. RefsTyped'
    <2>1. loaded' \in {"no", "pending", "done"} BY <1>1
    <2>2. dirty' \subseteq RefTab
      <3>1. TabsOf(Outdated(all)) \subseteq RefTab BY <1>t DEF TabsOf, Outdated, TabOf
      <3> QED
        BY <1>1, <1>t, <3>1 DEF RefsInv, RefsTyped, RefsTypeOK, LoaderType
    <2>3. memory' \subseteq Minted BY <1>5, <1>t
    <2> QED
      BY <1>1, <1>2, <1>7, <2>1, <2>2, <2>3 DEF RefsInv, RefsTyped, RefsTypeOK, Minted, TabOf
  <1>9. LoadsInOrder' BY <1>1, <1>2 DEF LoadsInOrder
  <1>10. ClearFirst'
    BY <1>1, <1>2, <1>7 DEF RefsInv, ClearFirst
  <1>11. all \subseteq Known /\ Known' \subseteq Known BY <1>1, <1>2, <1>5, <1>7 DEF Known, all
  <1>12. ASSUME NEW r \in Asked, TabOf(r) \in open, r \in Known
         PROVE  NewestIn(TabOf(r), memory)' /\ (r \in memory' <=> Newest(r))
                /\ (r \in memory' => r \in memory)
    <2>1. PICK s \in memory : TabOf(s) = TabOf(r) /\ Newest(s)
      BY <1>12 DEF RefsInv, AskedAreLatest, NewestIn
    <2>2. s \in all /\ s \in Minted /\ r \in Minted
      BY <1>t, <1>12 DEF all, RefsInv, RefsTyped
    <2>3. s \in memory' BY <1>3, <2>1, <2>2
    <2>4. NewestIn(TabOf(r), memory)' BY <1>7, <2>1, <2>3 DEF NewestIn
    <2>5. Newest(r) => r \in memory BY <1>12 DEF RefsInv, AskedAreLatest
    <2>6. ASSUME r \in memory' PROVE Newest(r)
      <3>1. minted[s].revision <= minted[r].revision BY <1>4, <1>6, <2>1, <2>2, <2>6
      <3>2. \A u \in Minted : TabOf(u) = TabOf(r) => minted[u].revision <= minted[s].revision
        BY <2>1 DEF Newest
      <3> QED
        BY <1>t, <2>2, <3>1, <3>2 DEF Newest
    <2>7. Newest(r) => r \in memory' BY <1>3, <2>2, <2>5 DEF all
    <2> QED
      BY <2>4, <2>5, <2>6, <2>7
  <1>13. AskedAreLatest'
    <2>1. \A t : NewestIn(t, Minted)' <=> NewestIn(t, Minted) BY <1>7 DEF NewestIn
    <2> QED
      BY <1>1, <1>7, <1>11, <1>12, <2>1 DEF RefsInv, AskedAreLatest
  <1>14. WritesCover'
    <2>1. \A r : WillBeStored(r)' <=> WillBeStored(r)
      BY <1>1 DEF WillBeStored, Survives, SetAt, Doing, Stored, TabOf
    <2>2. \A r \in Asked : r \in memory' /\ TabOf(r) \in open => r \in memory
      BY <1>5, <1>11, <1>12
    <2>3. ASSUME writes # <<>>, Head(writes).ref \in memory' PROVE Head(writes).ref \in Asked
      <3>1. Head(writes).ref \in Minted BY <1>5, <1>t, <2>3
      <3> QED
        BY <1>t, <2>3, <3>1, HeadIs DEF Asked, RefsInv
    <2> QED
      BY <1>1, <1>7, <2>1, <2>2, <2>3 DEF RefsInv, WritesCover, SetAt, Doing
  <1>15. PromisesKept'
    <2>1. \A r \in promised : Stored(r)' /\ Survives(r)'
      BY <1>1 DEF RefsInv, PromisesKept, Stored, Survives, SetAt, Doing, TabOf
    <2>2. ASSUME NEW r \in promised PROVE r \in memory'
      <3>1. r \in all /\ Newest(r) BY <1>1, <2>2 DEF all, RefsInv, PromisesKept
      <3> QED
        BY <1>3, <1>t, <3>1
    <2> QED
      BY <1>1, <2>1, <2>2, PromisesStay DEF RefsInv, PromisesKept
  <1>16. ClosedAreForgotten'
    BY <1>1, <1>2, <1>5 DEF RefsInv, ClosedAreForgotten, TabsOf, all
  <1> QED
    BY <1>8, <1>9, <1>10, <1>13, <1>14, <1>15, <1>16 DEF RefsInv

LEMMA RefLoadFailsKeeps ==
  ASSUME RefsInv, RefLoadFails
  PROVE  RefsInv'
  <1>1. /\ loader.at \in {"index", "rows"} /\ refFailures < MaxRefFailures
        /\ refFailures' = refFailures + 1 /\ loaded' = "no" /\ loader' = NoLoader
        /\ closing' = {} /\ unforgotten' = unforgotten \cup closing
        /\ writes' = (IF writes # <<>> /\ Head(writes).at = "load" THEN Tail(writes) ELSE writes)
        /\ minted' = minted /\ earlier' = earlier
        /\ refKills' = refKills /\ browserStarts' = browserStarts /\ memory' = memory
        /\ dirty' = dirty /\ rows' = rows /\ indexed' = indexed /\ open' = open
        /\ promised' = promised /\ cleared' = cleared
    BY DEF RefLoadFails, history, storage
  <1>2. loader' \in LoaderType /\ loader'.at = "off" /\ loader'.refs = {}
    BY <1>1 DEF NoLoader, LoaderType
  <1>3. refFailures' \in 0 .. MaxRefFailures
    BY <1>1, RefsConstants DEF RefsInv, RefsTyped, RefsTypeOK
  <1>4. /\ writes' \in Seq(WriteType) /\ Asked' \subseteq Asked
        /\ \A i \in DOMAIN writes' : i > 1 => writes'[i].at = "start"
        /\ \A i \in DOMAIN writes' :
             \E j \in DOMAIN writes : writes'[i] = writes[j] /\ (i = j \/ j # 1)
        /\ (writes # <<>> /\ Head(writes).at # "load" /\ writes' = writes) \/ writes' = <<>>
           \/ Head(writes').at = "start"
    <2>1. CASE writes # <<>> /\ Head(writes).at = "load"
      <3>1. writes' = Tail(writes) BY <1>1, <2>1
      <3> QED
        BY <2>1, <3>1, JobEndsIs DEF RefsInv
    <2>2. CASE ~(writes # <<>> /\ Head(writes).at = "load")
      <3>1. writes' = writes BY <1>1, <2>2
      <3> QED
        BY <2>2, <3>1 DEF RefsInv, RefsTyped, RefsTypeOK, Asked
    <2> QED
      BY <2>1, <2>2
  <1>5. \A i \in DOMAIN writes' : writes'[i].kind \in {"persist", "clear"} /\ writes'[i].rows \subseteq Minted
    BY <1>4 DEF RefsInv, RefsTyped, RefsTypeOK
  <1>6. /\ Minted' = Minted /\ \A r : TabOf(r)' = TabOf(r)
        /\ \A k : \A at \in {"set", "remove"} : /\ Doing(k, at)' <=> Doing(k, at)
                                                /\ Doing(k, at) => writes' = writes
        /\ Taken' \subseteq Taken
    BY <1>1, <1>4 DEF Minted, TabOf, Doing, Taken, SetAt
  <1>7. RefsTyped'
    <2>1. closing' \subseteq RefTab /\ unforgotten' \subseteq RefTab /\ open' \cap closing' = {}
      BY <1>1 DEF RefsInv, RefsTyped, RefsTypeOK
    <2>2. loaded' \in {"no", "pending", "done"} BY <1>1
    <2> QED
      BY <1>1, <1>2, <1>3, <1>4, <1>5, <1>6, <2>1, <2>2 DEF RefsInv, RefsTyped, RefsTypeOK, Minted, TabOf
  <1>8. LoadsInOrder' BY <1>1, <1>2 DEF LoadsInOrder
  <1>9. ClearFirst'
    BY <1>1, <1>2, <1>4 DEF RefsInv, ClearFirst
  <1>10. AskedAreLatest'
    <2>1. Known' \subseteq Known BY <1>1, <1>2, <1>6 DEF Known
    <2> QED
      BY <1>1, <1>4, <2>1, AskedStay DEF RefsInv
  <1>11. ASSUME NEW r, WillBeStored(r) PROVE WillBeStored(r)'
    BY <1>1, <1>6, <1>11 DEF WillBeStored, Survives, SetAt, Stored
  <1>12. WritesCover'
    BY <1>1, <1>4, <1>6, <1>11 DEF RefsInv, WritesCover, SetAt
  <1>13. PromisesKept'
    <2>1. \A r \in promised : Stored(r)' /\ Survives(r)'
      BY <1>1, <1>6 DEF RefsInv, PromisesKept, Stored, Survives, SetAt
    <2> QED
      BY <1>1, <1>2, <2>1, PromisesStay DEF RefsInv, PromisesKept
  <1>14. ClosedAreForgotten'
    BY <1>1, <1>2 DEF RefsInv, ClosedAreForgotten, TabsOf
  <1> QED
    BY <1>7, <1>8, <1>9, <1>10, <1>12, <1>13, <1>14 DEF RefsInv

--------------------------------
\* Writes

\* A write that is not a write to the storage yet, nor any more.
LEMMA QueueStays ==
  ASSUME AskedAreLatest, WritesCover, ~SetAt, ~SetAt', ~Doing("persist", "remove")',
         minted' = minted, memory' = memory, dirty' = dirty, open' \subseteq open,
         loader'.refs \subseteq loader.refs, rows' = rows, indexed' = indexed, Asked' \subseteq Asked
  PROVE  AskedAreLatest' /\ WritesCover'
  <1>1. Taken = {} /\ Taken' = {} BY DEF Taken
  <1>2. Known' \subseteq Known BY <1>1 DEF Known
  <1>3. AskedAreLatest' BY <1>2, AskedStay
  <1>4. ASSUME NEW r, WillBeStored(r) PROVE WillBeStored(r)'
    BY <1>4 DEF WillBeStored, Survives, Stored, TabOf
  <1>5. WritesCover'
    BY <1>4 DEF WritesCover, TabOf
  <1> QED
    BY <1>3, <1>5

\* An asked ref is none but a minted one.
LEMMA AskedAre ==
  ASSUME RefsTyped, writes # <<>>, Head(writes).ref \in memory
  PROVE  Head(writes).ref \in Asked /\ Head(writes).ref \in Minted /\ Head(writes).ref \in Known
  <1>1. Head(writes).ref \in Minted /\ Head(writes).ref # 0
    BY DEF RefsTyped, RefsTypeOK, Refs, Minted
  <1> QED
    BY <1>1, HeadIs DEF Asked, Known

LEMMA PersistStartsKeeps ==
  ASSUME RefsInv, PersistStarts
  PROVE  RefsInv'
  <1> DEFINE write == [Head(writes) EXCEPT !.at = "load"]
  <1>1. /\ writes # <<>> /\ Head(writes).kind = "persist" /\ Head(writes).at = "start"
        /\ HeadBecomes(write)
        /\ loaded' = Begun /\ loader' = BegunLoader /\ minted' = minted /\ earlier' = earlier
        /\ refKills' = refKills /\ browserStarts' = browserStarts /\ memory' = memory
        /\ dirty' = dirty /\ rows' = rows /\ indexed' = indexed /\ open' = open
        /\ closing' = closing /\ unforgotten' = unforgotten /\ promised' = promised
        /\ cleared' = cleared /\ refFailures' = refFailures
    BY DEF PersistStarts, Doing, history, storage, tabs
  <1>2. /\ Head(writes) = writes[1] /\ 1 \in DOMAIN writes /\ writes[1] \in WriteType
    BY <1>1, HeadIs DEF RefsInv
  <1>3. /\ write \in WriteType /\ write.ref = writes[1].ref /\ write.at = "load" /\ write.kind = "persist"
        /\ write.rows = writes[1].rows
    BY <1>1, <1>2 DEF WriteType
  <1> HIDE DEF write
  <1>4. /\ writes' \in Seq(WriteType) /\ writes' # <<>> /\ DOMAIN writes' = DOMAIN writes
        /\ Head(writes)' = write /\ writes'[1] = write /\ 1 \in DOMAIN writes
        /\ \A i \in DOMAIN writes : i # 1 => writes'[i] = writes[i] /\ writes[i].at = "start"
        /\ Asked' = Asked
    BY <1>1, <1>3, HeadBecomesIs DEF RefsInv
  <1>5. /\ loader' \in LoaderType /\ loader'.refs = loader.refs /\ LoadsInOrder'
        /\ loaded' \in {"pending", "done"}
        /\ loaded' = "done" <=> loaded = "done"
        /\ loader'.at \in {"rows", "merge"} => loader' = loader
    BY <1>1, LoadBegins DEF RefsInv
  <1>6. loader'.at \in {"off", "index", "rows", "merge"} BY <1>5 DEF LoaderType
  <1>7. /\ ~SetAt /\ ~SetAt' /\ ~Doing("persist", "remove")'
    BY <1>1, <1>3, <1>4 DEF SetAt, Doing
  <1>8. RefsTyped'
    <2>1. \A i \in DOMAIN writes' : /\ i > 1 => writes'[i].at = "start"
                                    /\ writes'[i].kind \in {"persist", "clear"}
                                    /\ writes'[i].rows \subseteq Minted
      BY <1>2, <1>3, <1>4 DEF RefsInv, RefsTyped, RefsTypeOK
    <2> QED
      BY <1>1, <1>4, <1>5, <1>6, <2>1 DEF RefsInv, RefsTyped, RefsTypeOK, Minted, TabOf
  <1>9. ClearFirst'
    <2>1. \A i \in DOMAIN writes' : writes'[i].kind = "clear" => FALSE
      BY <1>1, <1>2, <1>3, <1>4 DEF RefsInv, ClearFirst
    <2> QED
      BY <1>1, <1>4, <2>1 DEF RefsInv, ClearFirst
  <1>10. AskedAreLatest' /\ WritesCover'
    BY <1>1, <1>4, <1>5, <1>7, QueueStays DEF RefsInv
  <1>11. PromisesKept'
    <2>1. \A r \in promised : Stored(r)' /\ Survives(r)'
      BY <1>1, <1>7 DEF RefsInv, PromisesKept, Stored, Survives, TabOf
    <2> QED
      BY <1>1, <1>5, <2>1, PromisesStay DEF RefsInv, PromisesKept
  <1>12. ClosedAreForgotten'
    BY <1>1, <1>5 DEF RefsInv, ClosedAreForgotten, TabsOf
  <1> QED
    BY <1>5, <1>8, <1>9, <1>10, <1>11, <1>12 DEF RefsInv

LEMMA PersistTakesKeeps ==
  ASSUME RefsInv, PersistTakes
  PROVE  RefsInv'
  <1> DEFINE taken == {r \in memory : minted[r].tab \in dirty}
             write == [Head(writes) EXCEPT !.at = "set", !.tabs = dirty, !.index = TabsOf(memory),
                                         !.rows = taken]
  <1>1. /\ writes # <<>> /\ Head(writes).kind = "persist" /\ Head(writes).at = "load"
        /\ HeadBecomes(write) /\ loaded = "done" /\ dirty' = {}
        /\ loaded' = loaded /\ loader' = loader /\ minted' = minted /\ earlier' = earlier
        /\ refKills' = refKills /\ browserStarts' = browserStarts /\ memory' = memory
        /\ rows' = rows /\ indexed' = indexed /\ open' = open
        /\ closing' = closing /\ unforgotten' = unforgotten /\ promised' = promised
        /\ cleared' = cleared /\ refFailures' = refFailures
    BY DEF PersistTakes, Doing, history, storage, tabs
  <1>t. /\ memory \subseteq Minted /\ Minted \subseteq Nat /\ dirty \subseteq RefTab
        /\ \A r \in Minted : TabOf(r) \in RefTab
    BY DEF RefsInv, RefsTyped, RefsTypeOK, Minted, TabOf, Refs
  <1>m. /\ taken \subseteq memory /\ \A r \in memory : TabOf(r) \in dirty => r \in taken
        /\ taken \in SUBSET Nat
    BY <1>t DEF TabOf
  <1> HIDE DEF taken
  <1>i. TabsOf(memory) \in SUBSET RefTab /\ \A r \in memory : TabOf(r) \in TabsOf(memory)
    BY <1>t DEF TabsOf, TabOf
  <1>2. /\ Head(writes) = writes[1] /\ 1 \in DOMAIN writes /\ writes[1] \in WriteType
    BY <1>1, HeadIs DEF RefsInv
  <1>3. /\ write \in WriteType /\ write.ref = writes[1].ref /\ write.at = "set" /\ write.kind = "persist"
        /\ write.rows = taken /\ write.tabs = dirty /\ write.index = TabsOf(memory)
    BY <1>1, <1>2, <1>t, <1>m, <1>i DEF WriteType
  <1> HIDE DEF write
  <1>4. /\ writes' \in Seq(WriteType) /\ writes' # <<>> /\ DOMAIN writes' = DOMAIN writes
        /\ Head(writes)' = write /\ writes'[1] = write /\ 1 \in DOMAIN writes
        /\ \A i \in DOMAIN writes : i # 1 => writes'[i] = writes[i] /\ writes[i].at = "start"
        /\ Asked' = Asked
    BY <1>1, <1>3, HeadBecomesIs DEF RefsInv
  <1>5. /\ ~SetAt /\ SetAt' /\ ~Doing("persist", "remove")' /\ Taken' = taken
    BY <1>1, <1>3, <1>4 DEF SetAt, Doing, Taken
  <1>6. RefsTyped'
    <2>1. \A i \in DOMAIN writes' : /\ i > 1 => writes'[i].at = "start"
                                    /\ writes'[i].kind \in {"persist", "clear"}
                                    /\ writes'[i].rows \subseteq Minted
      <3>1. taken \subseteq Minted BY <1>t, <1>m
      <3>2. ASSUME NEW i \in DOMAIN writes, i # 1
            PROVE  /\ writes'[i].at = "start" /\ writes'[i].kind \in {"persist", "clear"}
                   /\ writes'[i].rows \subseteq Minted
        BY <1>4, <3>2 DEF RefsInv, RefsTyped, RefsTypeOK
      <3> QED
        BY <1>3, <1>4, <3>1, <3>2
    <2> QED
      BY <1>1, <1>4, <2>1 DEF RefsInv, RefsTyped, RefsTypeOK, Minted, TabOf
  <1>7. ClearFirst'
    <2>1. \A i \in DOMAIN writes' : writes'[i].kind = "clear" => FALSE
      BY <1>1, <1>2, <1>3, <1>4 DEF RefsInv, ClearFirst
    <2> QED
      BY <1>1, <1>4, <2>1 DEF RefsInv, ClearFirst
  <1>8. LoadsInOrder' BY <1>1 DEF RefsInv, LoadsInOrder
  <1>9. AskedAreLatest'
    <2>1. Known' \subseteq Known BY <1>1, <1>5, <1>m DEF Known
    <2> QED
      BY <1>1, <1>4, <2>1, AskedStay DEF RefsInv
  <1>10. ASSUME NEW r \in memory, TabOf(r) \in dirty \/ Stored(r)
         PROVE  WillBeStored(r)'
    <2>1. TabOf(r)' = TabOf(r) /\ (Stored(r)' <=> Stored(r)) BY <1>1 DEF TabOf, Stored
    <2>2. Survives(r)' BY <1>3, <1>4, <1>i, <1>m, <2>1 DEF Survives
    <2>3. SetAt' /\ Head(writes)'.tabs = dirty BY <1>3, <1>4, <1>5
    <2> QED
      BY <1>10, <2>1, <2>2, <2>3 DEF WillBeStored
  <1>11. ASSUME NEW r \in Asked \cap memory, TabOf(r) \in open
         PROVE  WillBeStored(r)'
    <2>1. TabOf(r) \in dirty \/ WillBeStored(r) BY <1>11 DEF RefsInv, WritesCover
    <2>2. WillBeStored(r) => Stored(r) BY <1>5 DEF WillBeStored
    <2> QED
      BY <1>10, <2>1, <2>2
  <1>12. WritesCover'
    <2>1. Head(writes)'.ref = Head(writes).ref BY <1>2, <1>3, <1>4
    <2>2. Head(writes).ref \in memory => Head(writes).ref \in Asked
      BY <1>1, AskedAre DEF RefsInv
    <2> QED
      BY <1>1, <1>4, <1>5, <1>11, <2>1, <2>2 DEF WritesCover, TabOf
  <1>13. PromisesKept'
    <2>1. \A r \in promised : r \in memory /\ Stored(r) BY <1>1 DEF RefsInv, PromisesKept
    <2>2. \A r \in promised : Stored(r)' /\ Survives(r)'
      BY <1>1, <1>10, <2>1 DEF WillBeStored, Stored, TabOf
    <2> QED
      BY <1>1, <2>1, <2>2, PromisesStay DEF RefsInv, PromisesKept
  <1>14. ClosedAreForgotten'
    BY <1>1 DEF RefsInv, ClosedAreForgotten, TabsOf
  <1> QED
    BY <1>6, <1>7, <1>8, <1>9, <1>12, <1>13, <1>14 DEF RefsInv

\* What is handed out is of the latest snapshot of an open tab.
LEMMA HandedOutIs ==
  ASSUME RefsTyped, AskedAreLatest, writes # <<>>, HandedOut
  PROVE  /\ promised' \subseteq Minted
         /\ \A r \in promised' :
              \/ r \in promised
              \/ /\ r = Head(writes).ref /\ r \in memory /\ r \in Asked /\ TabOf(r) \in open
                 /\ Newest(r)
  <1>1. memory \subseteq Minted /\ promised \subseteq Minted
    BY DEF RefsTyped, RefsTypeOK, Minted
  <1>2. ASSUME NEW r \in promised', r \notin promised
        PROVE  r = Head(writes).ref /\ r \in memory /\ TabOf(r) \in open
    BY <1>2 DEF HandedOut, TabOf
  <1>3. ASSUME NEW r \in promised', r \notin promised
        PROVE  r \in Asked /\ Newest(r)
    <2>1. r \in Asked /\ r \in Known BY <1>2, <1>3, AskedAre
    <2> QED
      BY <1>2, <1>3, <2>1 DEF AskedAreLatest
  <1> QED
    BY <1>1, <1>2, <1>3

\* When a write ends, no write is under way.
LEMMA NoneUnderWay ==
  ASSUME RefsTyped, ClearFirst, writes # <<>>, JobEnds, earlier' = earlier
  PROVE  /\ writes' \in Seq(WriteType) /\ Asked' \subseteq Asked
         /\ ~SetAt' /\ ~Doing("persist", "remove")' /\ Taken' = {} /\ ClearFirst'
         /\ \A i \in DOMAIN writes' : /\ i > 1 => writes'[i].at = "start"
                                      /\ writes'[i].kind = "persist"
                                      /\ writes'[i].rows \subseteq Minted
  <1>1. /\ writes' \in Seq(WriteType)
        /\ \A i \in DOMAIN writes' : /\ i + 1 \in DOMAIN writes /\ writes'[i] = writes[i + 1]
                                     /\ writes'[i].at = "start" /\ i + 1 # 1
        /\ Asked' \subseteq Asked
        /\ writes' # <<>> => Head(writes)'.at = "start"
    BY JobEndsIs DEF JobEnds
  <1>2. ~SetAt' /\ ~Doing("persist", "remove")' /\ Taken' = {}
    BY <1>1 DEF SetAt, Doing, Taken
  <1>3. ASSUME NEW i \in DOMAIN writes'
        PROVE  writes'[i].kind = "persist" /\ writes'[i].rows \subseteq Minted
    <2>1. /\ writes[i + 1].kind \in {"persist", "clear"} /\ writes[i + 1].rows \subseteq Minted
      BY <1>1 DEF RefsTyped, RefsTypeOK
    <2>2. writes[i + 1].kind # "clear" BY <1>1 DEF ClearFirst
    <2> QED
      BY <1>1, <2>1, <2>2
  <1>4. ClearFirst' BY <1>1, <1>3 DEF ClearFirst
  <1> QED
    BY <1>1, <1>2, <1>3, <1>4

LEMMA NothingToPersistKeeps ==
  ASSUME RefsInv, NothingToPersist
  PROVE  RefsInv'
  <1>1. /\ writes # <<>> /\ Head(writes).kind = "persist" /\ Head(writes).at = "load"
        /\ JobEnds /\ HandedOut /\ loaded = "done"
        /\ loaded' = loaded /\ loader' = loader /\ minted' = minted /\ earlier' = earlier
        /\ refKills' = refKills /\ browserStarts' = browserStarts /\ memory' = memory
        /\ rows' = rows /\ indexed' = indexed /\ open' = open /\ dirty' = dirty
        /\ closing' = closing /\ unforgotten' = unforgotten
        /\ cleared' = cleared /\ refFailures' = refFailures
    BY DEF NothingToPersist, Doing, history, storage, tabs
  <1>d. \A r \in Minted : TabOf(r) \notin dirty BY DEF NothingToPersist
  <1>2. /\ writes' \in Seq(WriteType) /\ Asked' \subseteq Asked
        /\ ~SetAt' /\ ~Doing("persist", "remove")' /\ Taken' = {} /\ ClearFirst'
        /\ \A i \in DOMAIN writes' : /\ i > 1 => writes'[i].at = "start"
                                     /\ writes'[i].kind = "persist"
                                     /\ writes'[i].rows \subseteq Minted
    BY <1>1, NoneUnderWay DEF RefsInv
  <1>3. /\ promised' \subseteq Minted
        /\ \A r \in promised' :
             \/ r \in promised
             \/ /\ r = Head(writes).ref /\ r \in memory /\ r \in Asked /\ TabOf(r) \in open
                /\ Newest(r)
    BY <1>1, HandedOutIs DEF RefsInv
  <1>4. ~SetAt BY <1>1 DEF SetAt, Doing
  <1>5. RefsTyped'
    BY <1>1, <1>2, <1>3 DEF RefsInv, RefsTyped, RefsTypeOK, Minted, TabOf
  <1>6. LoadsInOrder' BY <1>1 DEF RefsInv, LoadsInOrder
  <1>7. AskedAreLatest' /\ WritesCover'
    BY <1>1, <1>2, <1>4, QueueStays DEF RefsInv
  <1>8. PromisesKept'
    <2>1. ASSUME NEW r \in promised', r \notin promised PROVE Stored(r)
      <3>1. r \in Minted BY <1>3
      <3>2. WillBeStored(r) BY <1>3, <1>d, <2>1, <3>1 DEF RefsInv, WritesCover
      <3> QED
        BY <1>4, <3>2 DEF WillBeStored
    <2>2. ASSUME NEW r \in promised'
          PROVE  /\ TabOf(r) \in open /\ Newest(r) /\ Stored(r) /\ r \in memory
      BY <1>1, <1>3, <2>1 DEF RefsInv, PromisesKept
    <2>3. \A r : /\ TabOf(r)' = TabOf(r) /\ (Newest(r)' <=> Newest(r)) /\ (Stored(r)' <=> Stored(r))
                 /\ Survives(r)'
      BY <1>1, <1>2 DEF TabOf, Newest, Stored, Survives, Minted
    <2> QED
      BY <1>1, <2>2, <2>3 DEF PromisesKept
  <1>9. ClosedAreForgotten'
    BY <1>1 DEF RefsInv, ClosedAreForgotten, TabsOf
  <1> QED
    BY <1>2, <1>5, <1>6, <1>7, <1>8, <1>9 DEF RefsInv

LEMMA PersistSetsKeeps ==
  ASSUME RefsInv, PersistSets
  PROVE  RefsInv'
  <1> DEFINE write == Head(writes)
             after == [write EXCEPT !.at = "remove"]
  <1>1. /\ writes # <<>> /\ write.kind = "persist" /\ write.at = "set" /\ SetAt
        /\ rows' = [t \in RefTab |-> IF t \in write.tabs \cap write.index
                                     THEN {r \in write.rows : minted[r].tab = t} ELSE rows[t]]
        /\ indexed' = write.index
        /\ \/ JobEnds /\ HandedOut
           \/ HeadBecomes(after) /\ promised' = promised
        /\ loaded' = loaded /\ loader' = loader /\ minted' = minted /\ earlier' = earlier
        /\ refKills' = refKills /\ browserStarts' = browserStarts /\ memory' = memory
        /\ open' = open /\ dirty' = dirty
        /\ closing' = closing /\ unforgotten' = unforgotten
        /\ cleared' = cleared /\ refFailures' = refFailures
    BY DEF PersistSets, Doing, SetAt, history, tabs
  <1>2. /\ write = writes[1] /\ 1 \in DOMAIN writes /\ write \in WriteType /\ write.rows \subseteq Minted
        /\ write.index \subseteq RefTab /\ Taken = write.rows
    BY <1>1, HeadIs DEF RefsInv, RefsTyped, WriteType, Taken
  <1> HIDE DEF write
  <1>3. /\ rows \in [RefTab -> SUBSET Minted] /\ rows' \in [RefTab -> SUBSET Minted]
        /\ \A t \in RefTab : \A r \in rows'[t] : /\ TabOf(r) = t
                                                 /\ r \in rows[t] \/ r \in write.rows
        /\ \A r \in Minted : TabOf(r) \in RefTab
    <2>1. /\ rows \in [RefTab -> SUBSET Minted] /\ \A r \in Minted : TabOf(r) \in RefTab
          /\ \A t \in RefTab : \A r \in rows[t] : TabOf(r) = t
      BY DEF RefsInv, RefsTyped, RefsTypeOK, Minted, TabOf
    <2> QED
      BY <1>1, <1>2, <2>1 DEF TabOf
  <1>4. ASSUME NEW r \in Minted, WillBeStored(r) PROVE Stored(r)'
    <2>1. TabOf(r) \in write.index /\ (TabOf(r) \in write.tabs => r \in write.rows)
          /\ (TabOf(r) \notin write.tabs => r \in rows[TabOf(r)])
      BY <1>1, <1>4 DEF WillBeStored, Survives, Stored, write
    <2>2. r \in rows'[TabOf(r)]
      BY <1>1, <1>3, <2>1 DEF TabOf
    <2>3. TabOf(r)' = TabOf(r) BY <1>1 DEF TabOf
    <2> QED
      BY <1>1, <2>1, <2>2, <2>3 DEF Stored
  <1>5. /\ writes' \in Seq(WriteType) /\ Asked' \subseteq Asked /\ ClearFirst'
        /\ ~SetAt' /\ Taken' = {}
        /\ Doing("persist", "remove")' => /\ Head(writes)'.index = write.index
                                          /\ Head(writes)'.ref = write.ref
        /\ \A i \in DOMAIN writes' : /\ i > 1 => writes'[i].at = "start"
                                     /\ writes'[i].kind = "persist"
                                     /\ writes'[i].rows \subseteq Minted
    <2>1. CASE JobEnds
      BY <1>1, <2>1, NoneUnderWay DEF RefsInv
    <2>2. CASE HeadBecomes(after) /\ promised' = promised
      <3>1. /\ after \in WriteType /\ after.ref = write.ref /\ after.at = "remove"
            /\ after.kind = "persist" /\ after.rows = write.rows /\ after.index = write.index
        BY <1>1, <1>2 DEF WriteType
      <3> HIDE DEF after
      <3>2. /\ writes' \in Seq(WriteType) /\ writes' # <<>> /\ DOMAIN writes' = DOMAIN writes
            /\ Head(writes)' = after /\ writes'[1] = after /\ 1 \in DOMAIN writes
            /\ \A i \in DOMAIN writes : i # 1 => writes'[i] = writes[i] /\ writes[i].at = "start"
            /\ Asked' = Asked
        BY <1>1, <1>2, <2>2, <3>1, HeadBecomesIs DEF RefsInv
      <3>3. \A i \in DOMAIN writes' : /\ i > 1 => writes'[i].at = "start"
                                      /\ writes'[i].kind = "persist"
                                      /\ writes'[i].rows \subseteq Minted
        <4>1. ASSUME NEW i \in DOMAIN writes, i # 1
              PROVE  /\ writes'[i].at = "start" /\ writes'[i].kind = "persist"
                     /\ writes'[i].rows \subseteq Minted
          BY <3>2, <4>1 DEF RefsInv, RefsTyped, RefsTypeOK, ClearFirst
        <4> QED
          BY <1>2, <3>1, <3>2, <4>1
      <3>4. ~SetAt' /\ Taken' = {} BY <3>1, <3>2 DEF SetAt, Doing, Taken
      <3>5. ClearFirst' BY <1>1, <3>2, <3>3 DEF RefsInv, ClearFirst
      <3> QED
        BY <3>1, <3>2, <3>3, <3>4, <3>5
    <2> QED
      BY <1>1, <2>1, <2>2
  <1>6. /\ promised' \subseteq Minted
        /\ \A r \in promised' :
             \/ r \in promised
             \/ /\ r = write.ref /\ r \in memory /\ r \in Asked /\ TabOf(r) \in open
                /\ Newest(r)
    <2>1. promised \subseteq Minted BY DEF RefsInv, RefsTyped, RefsTypeOK, Minted
    <2> QED
      BY <1>1, <2>1, HandedOutIs DEF RefsInv, write
  <1>7. RefsTyped'
    <2>1. indexed' \subseteq RefTab BY <1>1, <1>2
    <2>2. \A t \in RefTab : \A r \in rows'[t] : TabOf(r)' = t BY <1>1, <1>3 DEF TabOf
    <2>3. Asked' \subseteq Minted' BY <1>1, <1>5 DEF RefsInv, RefsTyped, Minted
    <2> QED
      BY <1>1, <1>3, <1>5, <1>6, <2>1, <2>2, <2>3 DEF RefsInv, RefsTyped, RefsTypeOK, Minted
  <1>8. LoadsInOrder' BY <1>1 DEF RefsInv, LoadsInOrder
  <1>9. AskedAreLatest'
    <2>1. Known' \subseteq Known BY <1>1, <1>2, <1>3, <1>5 DEF Known
    <2> QED
      BY <1>1, <1>5, <2>1, AskedStay DEF RefsInv
  <1>10. WritesCover'
    <2>1. memory \subseteq Minted BY DEF RefsInv, RefsTyped, RefsTypeOK, Minted
    <2>2. \A r : Stored(r)' => WillBeStored(r)'
      BY <1>5 DEF WillBeStored, Survives
    <2>3. ASSUME NEW r \in Asked \cap memory, TabOf(r) \in open
          PROVE  TabOf(r) \in dirty \/ WillBeStored(r)'
      BY <1>4, <2>1, <2>2, <2>3 DEF RefsInv, WritesCover
    <2>4. ASSUME NEW r \in {write.ref} \cap memory, TabOf(r) \in open
          PROVE  WillBeStored(r)'
      BY <1>1, <1>4, <2>1, <2>2, <2>4 DEF RefsInv, WritesCover, write
    <2>5. \A r : TabOf(r)' = TabOf(r) BY <1>1 DEF TabOf
    <2> QED
      BY <1>1, <1>5, <2>3, <2>4, <2>5 DEF WritesCover
  <1>11. PromisesKept'
    <2>1. ASSUME NEW r \in promised' PROVE Stored(r)'
      <3>1. r \in Minted BY <1>6
      <3>2. CASE r \in promised
        <4>1. WillBeStored(r) BY <3>2 DEF RefsInv, PromisesKept, WillBeStored
        <4> QED
          BY <1>4, <3>1, <4>1
      <3>3. CASE r \notin promised
        <4>1. WillBeStored(r) BY <1>1, <1>6, <3>3 DEF RefsInv, WritesCover, write
        <4> QED
          BY <1>4, <3>1, <4>1
      <3> QED
        BY <3>2, <3>3
    <2>2. \A r : /\ TabOf(r)' = TabOf(r) /\ (Newest(r)' <=> Newest(r)) /\ Survives(r)'
      BY <1>1, <1>5 DEF TabOf, Newest, Survives, Minted
    <2> QED
      BY <1>1, <1>6, <2>1, <2>2 DEF RefsInv, PromisesKept
  <1>12. ClosedAreForgotten'
    BY <1>1 DEF RefsInv, ClosedAreForgotten, TabsOf
  <1> QED
    BY <1>5, <1>7, <1>8, <1>9, <1>10, <1>11, <1>12 DEF RefsInv

LEMMA PersistRemovesKeeps ==
  ASSUME RefsInv, PersistRemoves
  PROVE  RefsInv'
  <1> DEFINE write == Head(writes)
  <1>1. /\ writes # <<>> /\ Doing("persist", "remove") /\ ~SetAt
        /\ rows' = [t \in RefTab |-> IF t \in Gone(write) THEN {} ELSE rows[t]]
        /\ JobEnds /\ HandedOut /\ indexed' = indexed
        /\ loaded' = loaded /\ loader' = loader /\ minted' = minted /\ earlier' = earlier
        /\ refKills' = refKills /\ browserStarts' = browserStarts /\ memory' = memory
        /\ open' = open /\ dirty' = dirty
        /\ closing' = closing /\ unforgotten' = unforgotten
        /\ cleared' = cleared /\ refFailures' = refFailures
    BY DEF PersistRemoves, Doing, SetAt, history, tabs
  <1>2. /\ writes' \in Seq(WriteType) /\ Asked' \subseteq Asked
        /\ ~SetAt' /\ ~Doing("persist", "remove")' /\ Taken' = {}
        /\ \A i \in DOMAIN writes' : /\ i > 1 => writes'[i].at = "start"
                                     /\ writes'[i].kind = "persist"
                                     /\ writes'[i].rows \subseteq Minted
        /\ ClearFirst'
    BY <1>1, NoneUnderWay DEF RefsInv
  <1>3. /\ promised' \subseteq Minted
        /\ \A r \in promised' :
             \/ r \in promised
             \/ /\ r = Head(writes).ref /\ r \in memory /\ r \in Asked /\ TabOf(r) \in open
                /\ Newest(r)
    BY <1>1, HandedOutIs DEF RefsInv
  <1>4. /\ rows \in [RefTab -> SUBSET Minted] /\ rows' \in [RefTab -> SUBSET Minted]
        /\ \A t \in RefTab : rows'[t] \subseteq rows[t]
        /\ \A r \in Minted : TabOf(r) \in RefTab
    <2>1. /\ rows \in [RefTab -> SUBSET Minted] /\ \A r \in Minted : TabOf(r) \in RefTab
      BY DEF RefsInv, RefsTyped, RefsTypeOK, Minted, TabOf
    <2> HIDE DEF write
    <2> QED
      BY <1>1, <2>1
  <1>5. indexed = write.index BY <1>1 DEF RefsInv, WritesCover
  <1>6. ASSUME NEW r \in Minted, Stored(r) PROVE Stored(r)'
    <2>1. TabOf(r) \notin Gone(write) BY <1>5, <1>6 DEF Stored, Gone
    <2>2. rows'[TabOf(r)] = rows[TabOf(r)] BY <1>1, <1>4, <2>1
    <2>3. TabOf(r)' = TabOf(r) BY <1>1 DEF TabOf
    <2> QED
      BY <1>1, <1>6, <2>2, <2>3 DEF Stored
  <1> HIDE DEF write
  <1>7. RefsTyped'
    <2>1. \A t \in RefTab : \A r \in rows'[t] : TabOf(r)' = t
      BY <1>1, <1>4 DEF RefsInv, RefsTyped, TabOf
    <2> QED
      BY <1>1, <1>2, <1>3, <1>4, <2>1 DEF RefsInv, RefsTyped, RefsTypeOK, Minted
  <1>8. LoadsInOrder' BY <1>1 DEF RefsInv, LoadsInOrder
  <1>9. AskedAreLatest'
    <2>1. Known' \subseteq Known BY <1>1, <1>2, <1>4 DEF Known
    <2> QED
      BY <1>1, <1>2, <2>1, AskedStay DEF RefsInv
  <1>10. \A r \in Minted : WillBeStored(r) => Stored(r)' /\ WillBeStored(r)'
    BY <1>1, <1>2, <1>6 DEF WillBeStored, Survives
  <1>11. WritesCover'
    <2>1. memory \subseteq Minted BY DEF RefsInv, RefsTyped, RefsTypeOK, Minted
    <2>2. ASSUME NEW r \in Asked \cap memory, TabOf(r) \in open
          PROVE  TabOf(r) \in dirty \/ WillBeStored(r)'
      BY <1>10, <2>1, <2>2 DEF RefsInv, WritesCover
    <2>3. \A r : TabOf(r)' = TabOf(r) BY <1>1 DEF TabOf
    <2> QED
      BY <1>1, <1>2, <2>2, <2>3 DEF WritesCover
  <1>12. PromisesKept'
    <2>1. ASSUME NEW r \in promised' PROVE Stored(r)'
      <3>1. r \in Minted BY <1>3
      <3>2. CASE r \in promised
        BY <1>6, <3>1, <3>2 DEF RefsInv, PromisesKept
      <3>3. CASE r \notin promised
        <4>1. WillBeStored(r) BY <1>1, <1>3, <3>3 DEF RefsInv, WritesCover
        <4> QED
          BY <1>10, <3>1, <4>1
      <3> QED
        BY <3>2, <3>3
    <2>2. \A r : /\ TabOf(r)' = TabOf(r) /\ (Newest(r)' <=> Newest(r)) /\ Survives(r)'
      BY <1>1, <1>2 DEF TabOf, Newest, Survives, Minted
    <2> QED
      BY <1>1, <1>3, <2>1, <2>2 DEF RefsInv, PromisesKept
  <1>13. ClosedAreForgotten'
    BY <1>1 DEF RefsInv, ClosedAreForgotten, TabsOf
  <1> QED
    BY <1>2, <1>7, <1>8, <1>9, <1>11, <1>12, <1>13 DEF RefsInv

LEMMA PersistFailsKeeps ==
  ASSUME RefsInv, PersistFails
  PROVE  RefsInv'
  <1>1. /\ writes # <<>> /\ (SetAt \/ Doing("persist", "remove"))
        /\ refFailures < MaxRefFailures /\ refFailures' = refFailures + 1
        /\ dirty' = dirty \cup Head(writes).tabs /\ JobEnds
        /\ loaded' = loaded /\ loader' = loader /\ minted' = minted /\ earlier' = earlier
        /\ refKills' = refKills /\ browserStarts' = browserStarts /\ memory' = memory
        /\ rows' = rows /\ indexed' = indexed /\ open' = open
        /\ closing' = closing /\ unforgotten' = unforgotten
        /\ cleared' = cleared /\ promised' = promised
    BY DEF PersistFails, Doing, SetAt, history, storage, tabs
  <1>2. /\ writes' \in Seq(WriteType) /\ Asked' \subseteq Asked
        /\ ~SetAt' /\ ~Doing("persist", "remove")' /\ Taken' = {} /\ ClearFirst'
        /\ \A i \in DOMAIN writes' : /\ i > 1 => writes'[i].at = "start"
                                     /\ writes'[i].kind = "persist"
                                     /\ writes'[i].rows \subseteq Minted
    BY <1>1, NoneUnderWay DEF RefsInv
  <1>3. Head(writes).tabs \subseteq RefTab BY <1>1, HeadIs DEF RefsInv, WriteType
  <1>4. refFailures' \in 0 .. MaxRefFailures
    BY <1>1, RefsConstants DEF RefsInv, RefsTyped, RefsTypeOK
  <1>5. RefsTyped'
    <2>1. dirty' \subseteq RefTab BY <1>1, <1>3 DEF RefsInv, RefsTyped, RefsTypeOK
    <2> QED
      BY <1>1, <1>2, <1>4, <2>1 DEF RefsInv, RefsTyped, RefsTypeOK, Minted, TabOf
  <1>6. LoadsInOrder' BY <1>1 DEF RefsInv, LoadsInOrder
  <1>7. AskedAreLatest'
    <2>1. Known' \subseteq Known BY <1>1, <1>2 DEF Known
    <2> QED
      BY <1>1, <1>2, <2>1, AskedStay DEF RefsInv
  <1>8. \A r : /\ TabOf(r)' = TabOf(r) /\ (Newest(r)' <=> Newest(r)) /\ Survives(r)'
               /\ (Stored(r)' <=> Stored(r))
    BY <1>1, <1>2 DEF TabOf, Newest, Survives, Minted, Stored
  <1>9. WritesCover'
    <2>1. ASSUME NEW r, WillBeStored(r) PROVE TabOf(r) \in dirty' \/ WillBeStored(r)'
      BY <1>1, <1>2, <1>8, <2>1 DEF WillBeStored
    <2> QED
      BY <1>1, <1>2, <1>8, <2>1 DEF RefsInv, WritesCover
  <1>10. PromisesKept'
    BY <1>1, <1>8, PromisesStay DEF RefsInv, PromisesKept
  <1>11. ClosedAreForgotten'
    BY <1>1 DEF RefsInv, ClosedAreForgotten, TabsOf
  <1> QED
    BY <1>2, <1>5, <1>6, <1>7, <1>9, <1>10, <1>11 DEF RefsInv

--------------------------------
\* Closed tabs, dead workers, a new browser

LEMMA CloseTabKeeps ==
  ASSUME RefsInv, CloseTab
  PROVE  RefsInv'
  <1>1. PICK tab \in open : /\ open' = open \ {tab} /\ closing' = closing \cup {tab}
                            /\ promised' = promised \ Of(promised, tab)
    BY DEF CloseTab
  <1>2. /\ loaded' = Begun /\ loader' = BegunLoader /\ minted' = minted /\ earlier' = earlier
        /\ refKills' = refKills /\ browserStarts' = browserStarts /\ memory' = memory
        /\ dirty' = dirty /\ writes' = writes /\ rows' = rows /\ indexed' = indexed
        /\ unforgotten' = unforgotten /\ cleared' = cleared /\ refFailures' = refFailures
    BY DEF CloseTab, history, storage
  <1>3. /\ loader' \in LoaderType /\ loader'.refs = loader.refs /\ LoadsInOrder'
        /\ loaded' \in {"pending", "done"}
        /\ loaded' = "done" <=> loaded = "done"
        /\ loader'.at \in {"rows", "merge"} => loader' = loader
    BY <1>2, LoadBegins DEF RefsInv
  <1>4. loader'.at \in {"off", "index", "rows", "merge"} BY <1>3 DEF LoaderType
  <1>5. RefsTyped'
    <2>1. /\ open' \subseteq RefTab /\ closing' \subseteq RefTab /\ open' \cap closing' = {}
          /\ promised' \subseteq DOMAIN minted
      BY <1>1 DEF RefsInv, RefsTyped, RefsTypeOK
    <2> QED
      BY <1>2, <1>3, <1>4, <2>1 DEF RefsInv, RefsTyped, RefsTypeOK, Minted, Asked, TabOf
  <1>6. ClearFirst' /\ AskedAreLatest' /\ WritesCover'
    <2>1. open' \subseteq open /\ promised' \subseteq promised BY <1>1
    <2> QED
      BY <1>2, <1>3, <2>1, WritesStay DEF RefsInv
  <1>7. PromisesKept'
    <2>1. \A r \in promised : Stored(r)' /\ Survives(r)'
      BY <1>2 DEF RefsInv, PromisesKept, Stored, Survives, SetAt, Doing, TabOf
    <2>2. \A r \in promised' : r \in promised /\ TabOf(r) \in open'
      BY <1>1 DEF RefsInv, PromisesKept, Of, TabOf
    <2>3. promised' \subseteq promised BY <2>2
    <2> QED
      BY <1>2, <1>3, <2>1, <2>2, <2>3, PromisesStay DEF RefsInv, PromisesKept
  <1>8. ClosedAreForgotten'
    BY <1>1, <1>2, <1>3 DEF RefsInv, ClosedAreForgotten, TabsOf
  <1> QED
    BY <1>3, <1>5, <1>6, <1>7, <1>8 DEF RefsInv

LEMMA WorkerDiesKeeps ==
  ASSUME RefsInv, WorkerDies
  PROVE  RefsInv'
  <1>1. /\ refKills < MaxRefKills /\ refKills' = refKills + 1
        /\ memory' = {} /\ dirty' = {} /\ loaded' = "no" /\ loader' = NoLoader
        /\ closing' = {} /\ unforgotten' = {} /\ writes' = <<>> /\ open' = open
        /\ cleared' = (IF cleared = "no" THEN "no" ELSE "clean")
        /\ minted' = minted /\ earlier' = earlier /\ rows' = rows /\ indexed' = indexed
        /\ promised' = promised /\ refFailures' = refFailures /\ browserStarts' = browserStarts
    BY DEF WorkerDies, DiesWith, storage
  <1>2. loader' \in LoaderType /\ loader'.at = "off" /\ loader'.refs = {}
    BY <1>1 DEF NoLoader, LoaderType
  <1>3. /\ writes' \in Seq(WriteType) /\ DOMAIN writes' = {} /\ Asked' = {}
        /\ ~SetAt' /\ ~Doing("persist", "remove")'
    BY <1>1 DEF Asked, SetAt, Doing
  <1>4. refKills' \in 0 .. MaxRefKills
    BY <1>1, RefsConstants DEF RefsInv, RefsTyped, RefsTypeOK
  <1>5. RefsTyped'
    <2>1. /\ loaded' \in {"no", "pending", "done"} /\ cleared' \in {"no", "clean", "in_a_load"}
      BY <1>1
    <2>2. memory' \subseteq DOMAIN minted' /\ dirty' \cup closing' \cup unforgotten' \subseteq RefTab
          /\ open' \cap closing' = {}
      BY <1>1
    <2> QED
      BY <1>1, <1>2, <1>3, <1>4, <2>1, <2>2 DEF RefsInv, RefsTyped, RefsTypeOK, Minted, TabOf
  <1>6. LoadsInOrder' BY <1>1, <1>2 DEF LoadsInOrder
  <1>7. ClearFirst' BY <1>3 DEF ClearFirst
  <1>8. \A r, t : /\ TabOf(r)' = TabOf(r) /\ (Newest(r)' <=> Newest(r)) /\ Survives(r)'
                  /\ (Stored(r)' <=> Stored(r)) /\ (NewestIn(t, Minted)' <=> NewestIn(t, Minted))
    BY <1>1, <1>3 DEF TabOf, Newest, Survives, Minted, Stored, NewestIn
  <1>9. AskedAreLatest'
    <2>1. Minted' = Minted BY <1>1 DEF Minted
    <2> QED
      BY <1>3, <1>8, <2>1 DEF RefsInv, AskedAreLatest
  <1>10. WritesCover' BY <1>3 DEF WritesCover
  <1>11. PromisesKept'
    BY <1>1, <1>2, <1>8 DEF RefsInv, PromisesKept
  <1>12. ClosedAreForgotten'
    BY <1>1, <1>2 DEF ClosedAreForgotten, TabsOf
  <1> QED
    BY <1>5, <1>6, <1>7, <1>9, <1>10, <1>11, <1>12 DEF RefsInv

LEMMA BrowserStartsKeeps ==
  ASSUME RefsInv, BrowserStarts
  PROVE  RefsInv'
  <1>1. /\ browserStarts < MaxBrowserStarts /\ browserStarts' = browserStarts + 1
        /\ memory' = {} /\ dirty' = {} /\ loaded' = "no" /\ loader' = NoLoader
        /\ closing' = {} /\ unforgotten' = {} /\ writes' = <<Job("clear", 0)>> /\ open' = RefTab
        /\ earlier' = DOMAIN minted /\ promised' = {} /\ cleared' = "no"
        /\ minted' = minted /\ rows' = rows /\ indexed' = indexed
        /\ refKills' = refKills /\ refFailures' = refFailures
    BY DEF BrowserStarts, DiesWith, storage
  <1>2. loader' \in LoaderType /\ loader'.at = "off" /\ loader'.refs = {}
    BY <1>1 DEF NoLoader, LoaderType
  <1>3. /\ Job("clear", 0) \in WriteType /\ Job("clear", 0).ref = 0 /\ Job("clear", 0).at = "start"
        /\ Job("clear", 0).kind = "clear" /\ Job("clear", 0).rows = {}
    BY DEF Job, WriteType
  <1>4. /\ writes' \in Seq(WriteType) /\ DOMAIN writes' = {1} /\ writes'[1] = Job("clear", 0)
        /\ Head(writes') = Job("clear", 0) /\ writes' # <<>>
    BY <1>1, <1>3
  <1>5. /\ Asked' = {} /\ ~SetAt' /\ ~Doing("persist", "remove")'
    BY <1>3, <1>4 DEF Asked, SetAt, Doing
  <1>6. browserStarts' \in 0 .. MaxBrowserStarts
    BY <1>1, RefsConstants DEF RefsInv, RefsTyped, RefsTypeOK
  <1>7. RefsTyped'
    <2>1. /\ loaded' \in {"no", "pending", "done"} /\ cleared' \in {"no", "clean", "in_a_load"}
      BY <1>1
    <2>2. /\ memory' \cup promised' \cup earlier' \subseteq DOMAIN minted'
          /\ dirty' \cup closing' \cup unforgotten' \cup open' \subseteq RefTab
          /\ open' \cap closing' = {}
      BY <1>1
    <2>3. \A i \in DOMAIN writes' : /\ i > 1 => writes'[i].at = "start"
                                    /\ writes'[i].kind \in {"persist", "clear"}
                                    /\ writes'[i].rows \subseteq Minted
      BY <1>3, <1>4
    <2> QED
      BY <1>1, <1>2, <1>4, <1>5, <1>6, <2>1, <2>2, <2>3
         DEF RefsInv, RefsTyped, RefsTypeOK, Minted, TabOf
  <1>8. LoadsInOrder' BY <1>1, <1>2 DEF LoadsInOrder
  <1>9. ClearFirst'
    <2>1. UNION {rows'[t] : t \in RefTab} \subseteq earlier'
      BY <1>1 DEF RefsInv, RefsTyped, RefsTypeOK
    <2> QED
      BY <1>1, <1>2, <1>3, <1>4, <1>5, <2>1 DEF ClearFirst
  <1>10. AskedAreLatest'
    <2>1. \A r, t : TabOf(r)' = TabOf(r) /\ (NewestIn(t, Minted)' <=> NewestIn(t, Minted))
                    /\ Minted' = Minted
      BY <1>1 DEF TabOf, Newest, Minted, NewestIn
    <2> QED
      BY <1>5, <2>1 DEF RefsInv, AskedAreLatest
  <1>11. WritesCover' BY <1>5 DEF WritesCover
  <1>12. PromisesKept' BY <1>1 DEF PromisesKept
  <1>13. ClosedAreForgotten'
    BY <1>1, <1>2 DEF ClosedAreForgotten, TabsOf
  <1> QED
    BY <1>7, <1>8, <1>9, <1>10, <1>11, <1>12, <1>13 DEF RefsInv

\* A write that joins is not begun.
LEMMA HeadStays ==
  ASSUME RefsTyped, NEW ref \in Nat, writes' = Append(writes, Job("persist", ref))
  PROVE  /\ SetAt' <=> SetAt
         /\ Doing("persist", "remove")' <=> Doing("persist", "remove")
         /\ SetAt \/ Doing("persist", "remove") => Head(writes)' = Head(writes) /\ writes # <<>>
         /\ Taken' = Taken
         /\ \A i \in DOMAIN writes' : writes'[i].kind \in {"persist", "clear"}
         /\ \A i \in DOMAIN writes' : \/ i \in DOMAIN writes /\ writes'[i] = writes[i]
                                      \/ writes'[i].kind = "persist" /\ writes'[i].rows = {}
  <1>1. /\ writes' \in Seq(WriteType) /\ writes' # <<>>
        /\ \A i \in DOMAIN writes : i \in DOMAIN writes' /\ writes'[i] = writes[i]
        /\ \A i \in DOMAIN writes' : i \in DOMAIN writes \/ writes'[i] = Job("persist", ref)
        /\ writes # <<>> => Head(writes)' = Head(writes)
        /\ writes = <<>> => Head(writes)'.at = "start"
    BY JobJoinsIs
  <1>2. Job("persist", ref).kind = "persist" /\ Job("persist", ref).rows = {}
    BY DEF Job
  <1>3. /\ SetAt' <=> SetAt
        /\ Doing("persist", "remove")' <=> Doing("persist", "remove")
        /\ SetAt \/ Doing("persist", "remove") => Head(writes)' = Head(writes) /\ writes # <<>>
    BY <1>1 DEF SetAt, Doing
  <1>4. Taken' = Taken BY <1>3 DEF Taken
  <1>5. \A i \in DOMAIN writes' : writes'[i].kind \in {"persist", "clear"}
    BY <1>1, <1>2 DEF RefsTyped, RefsTypeOK
  <1> QED
    BY <1>1, <1>2, <1>3, <1>4, <1>5

LEMMA ForgetTabKeeps ==
  ASSUME RefsInv, ForgetTab
  PROVE  RefsInv'
  <1>1. PICK tab \in closing :
          /\ closing' = closing \ {tab} /\ memory' = memory \ Of(memory, tab)
          /\ \/ dirty' = dirty /\ writes' = writes
             \/ dirty' = dirty \cup {tab} /\ writes' = Append(writes, Job("persist", 0))
    BY DEF ForgetTab
  <1>2. /\ loaded = "done" /\ loaded' = loaded /\ loader' = loader
        /\ minted' = minted /\ earlier' = earlier
        /\ refKills' = refKills /\ browserStarts' = browserStarts
        /\ rows' = rows /\ indexed' = indexed /\ open' = open
        /\ unforgotten' = unforgotten /\ promised' = promised
        /\ cleared' = cleared /\ refFailures' = refFailures
    BY DEF ForgetTab, history, storage
  <1>3. /\ writes' \in Seq(WriteType) /\ Asked' = Asked
        /\ \A i \in DOMAIN writes' : i > 1 => writes'[i].at = "start"
        /\ SetAt' <=> SetAt
        /\ Doing("persist", "remove")' <=> Doing("persist", "remove")
        /\ SetAt \/ Doing("persist", "remove") => Head(writes)' = Head(writes)
        /\ Taken' = Taken
        /\ \A i \in DOMAIN writes' : writes'[i].kind \in {"persist", "clear"}
        /\ \A i \in DOMAIN writes' : \/ i \in DOMAIN writes /\ writes'[i] = writes[i]
                                     \/ writes'[i].kind = "persist" /\ writes'[i].rows = {}
    <2>1. CASE writes' = writes
      BY <2>1 DEF RefsInv, RefsTyped, RefsTypeOK, Asked, SetAt, Doing, Taken
    <2>2. CASE writes' = Append(writes, Job("persist", 0))
      <3>1. /\ writes' \in Seq(WriteType) /\ Asked' = Asked
            /\ \A i \in DOMAIN writes' : i > 1 => writes'[i].at = "start"
        BY <2>2, JobJoinsIs DEF RefsInv
      <3> QED
        BY <2>2, <3>1, HeadStays DEF RefsInv
    <2> QED
      BY <1>1, <2>1, <2>2
  <1>4. /\ dirty \subseteq dirty' /\ dirty' \subseteq RefTab /\ memory' \subseteq memory
        /\ \A r \in memory : TabOf(r) # tab => r \in memory'
        /\ \A r \in memory' : TabOf(r) # tab
        /\ tab \notin open
    BY <1>1 DEF RefsInv, RefsTyped, RefsTypeOK, Of, TabOf
  <1>5. RefsTyped'
    <2>1. \A i \in DOMAIN writes' : writes'[i].rows \subseteq Minted
      BY <1>3 DEF RefsInv, RefsTyped
    <2>2. closing' \subseteq RefTab /\ open' \cap closing' = {} /\ memory' \subseteq DOMAIN minted
      BY <1>1, <1>2, <1>4 DEF RefsInv, RefsTyped, RefsTypeOK
    <2> QED
      BY <1>2, <1>3, <1>4, <2>1, <2>2 DEF RefsInv, RefsTyped, RefsTypeOK, Minted, TabOf
  <1>6. LoadsInOrder' BY <1>2 DEF RefsInv, LoadsInOrder
  <1>7. ClearFirst'
    <2>1. \A i \in DOMAIN writes' : writes'[i].kind = "clear" => i \in DOMAIN writes /\ writes'[i] = writes[i]
      BY <1>3
    <2> QED
      BY <1>2, <1>3, <2>1 DEF RefsInv, ClearFirst
  <1>8. \A r : /\ TabOf(r)' = TabOf(r) /\ (Newest(r)' <=> Newest(r)) /\ (Survives(r)' <=> Survives(r))
               /\ (Stored(r)' <=> Stored(r)) /\ (WillBeStored(r)' <=> WillBeStored(r))
    BY <1>2, <1>3 DEF TabOf, Newest, Survives, Minted, Stored, WillBeStored
  <1>9. AskedAreLatest'
    <2>1. Known' \subseteq Known /\ Minted' = Minted BY <1>2, <1>3, <1>4 DEF Known, Minted
    <2>2. \A t \in RefTab : NewestIn(t, Minted)' <=> NewestIn(t, Minted)
      BY <1>8, <2>1 DEF NewestIn
    <2>3. ASSUME NEW r \in Asked, TabOf(r) \in open, r \in Known
          PROVE  NewestIn(TabOf(r), memory)' /\ (r \in memory' <=> Newest(r))
      <3>1. PICK s \in memory : TabOf(s) = TabOf(r) /\ Newest(s)
        BY <2>3 DEF RefsInv, AskedAreLatest, NewestIn
      <3>2. s \in memory' BY <1>4, <2>3, <3>1
      <3>3. r \in memory <=> Newest(r) BY <2>3 DEF RefsInv, AskedAreLatest
      <3>4. r \in memory' <=> r \in memory BY <1>4, <2>3
      <3>5. NewestIn(TabOf(r), memory)' BY <1>8, <3>1, <3>2 DEF NewestIn
      <3> QED
        BY <3>3, <3>4, <3>5
    <2> QED
      BY <1>2, <1>3, <1>8, <2>1, <2>2, <2>3 DEF RefsInv, AskedAreLatest
  <1>10. WritesCover'
    BY <1>2, <1>3, <1>4, <1>8 DEF RefsInv, WritesCover
  <1>11. PromisesKept'
    <2>1. \A r \in promised : r \in memory'
      BY <1>2, <1>4 DEF RefsInv, PromisesKept
    <2> QED
      BY <1>2, <1>8, <2>1 DEF RefsInv, PromisesKept
  <1>12. ClosedAreForgotten'
    <2>1. cleared # "in_a_load" => loader.refs = {}
      BY <1>2 DEF RefsInv, LoadsInOrder
    <2>2. \A r \in memory' : r \in memory /\ minted[r].tab # tab BY <1>4 DEF TabOf
    <2> QED
      BY <1>1, <1>2, <2>1, <2>2 DEF RefsInv, ClosedAreForgotten, TabsOf
  <1> QED
    BY <1>5, <1>6, <1>7, <1>9, <1>10, <1>11, <1>12 DEF RefsInv

LEMMA ClearStartsKeeps ==
  ASSUME RefsInv, ClearStarts
  PROVE  RefsInv'
  <1> DEFINE write == [Head(writes) EXCEPT !.at = "remove", !.tabs = indexed]
  <1>1. /\ writes # <<>> /\ Head(writes).kind = "clear" /\ Head(writes).at = "start"
        /\ HeadBecomes(write)
        /\ loaded' = loaded /\ loader' = loader /\ minted' = minted /\ earlier' = earlier
        /\ refKills' = refKills /\ browserStarts' = browserStarts /\ memory' = memory
        /\ dirty' = dirty /\ rows' = rows /\ indexed' = indexed /\ open' = open
        /\ closing' = closing /\ unforgotten' = unforgotten /\ promised' = promised
        /\ cleared' = cleared /\ refFailures' = refFailures
    BY DEF ClearStarts, Doing, history, storage, tabs
  <1>2. /\ Head(writes) = writes[1] /\ 1 \in DOMAIN writes /\ writes[1] \in WriteType
        /\ indexed \in SUBSET RefTab
    BY <1>1, HeadIs DEF RefsInv, RefsTyped, RefsTypeOK
  <1>3. /\ write \in WriteType /\ write.ref = writes[1].ref /\ write.at = "remove" /\ write.kind = "clear"
        /\ write.rows = writes[1].rows
    BY <1>1, <1>2 DEF WriteType
  <1> HIDE DEF write
  <1>4. /\ writes' \in Seq(WriteType) /\ writes' # <<>> /\ DOMAIN writes' = DOMAIN writes
        /\ Head(writes)' = write /\ writes'[1] = write /\ 1 \in DOMAIN writes
        /\ \A i \in DOMAIN writes : i # 1 => writes'[i] = writes[i] /\ writes[i].at = "start"
        /\ Asked' = Asked
    BY <1>1, <1>3, HeadBecomesIs DEF RefsInv
  <1>5. /\ ~SetAt /\ ~SetAt' /\ ~Doing("persist", "remove")'
    BY <1>1, <1>3, <1>4 DEF SetAt, Doing
  <1>6. RefsTyped'
    <2>1. \A i \in DOMAIN writes' : /\ i > 1 => writes'[i].at = "start"
                                    /\ writes'[i].kind \in {"persist", "clear"}
                                    /\ writes'[i].rows \subseteq Minted
      BY <1>2, <1>3, <1>4 DEF RefsInv, RefsTyped, RefsTypeOK
    <2> QED
      BY <1>1, <1>4, <2>1 DEF RefsInv, RefsTyped, RefsTypeOK, Minted, TabOf
  <1>7. ClearFirst'
    <2>1. /\ promised = {} /\ writes[1].ref = 0
          /\ loader.refs \cup UNION {rows[t] : t \in RefTab} \subseteq earlier
      BY <1>1, <1>2 DEF RefsInv, ClearFirst
    <2>2. \A i \in DOMAIN writes' : writes'[i].kind = "clear" => i = 1
      BY <1>4 DEF RefsInv, ClearFirst
    <2> QED
      BY <1>1, <1>3, <1>4, <2>1, <2>2 DEF RefsInv, ClearFirst
  <1>8. AskedAreLatest' /\ WritesCover'
    BY <1>1, <1>4, <1>5, QueueStays DEF RefsInv
  <1>9. PromisesKept'
    <2>1. \A r \in promised : FALSE BY <1>1, <1>2 DEF RefsInv, ClearFirst
    <2> QED
      BY <1>1, <2>1 DEF PromisesKept
  <1>10. LoadsInOrder' /\ ClosedAreForgotten'
    BY <1>1 DEF RefsInv, LoadsInOrder, ClosedAreForgotten, TabsOf
  <1> QED
    BY <1>6, <1>7, <1>8, <1>9, <1>10 DEF RefsInv

LEMMA ClearRemovesKeeps ==
  ASSUME RefsInv, ClearRemoves
  PROVE  RefsInv'
  <1>1. /\ writes # <<>> /\ Head(writes).kind = "clear"
        /\ rows' = [t \in RefTab |-> IF t \in Head(writes).tabs THEN {} ELSE rows[t]]
        /\ indexed' = {} /\ memory' = {} /\ dirty' = {} /\ loaded' = "done" /\ JobEnds
        /\ promised' = {} /\ cleared' = (IF loader.at = "off" THEN "clean" ELSE "in_a_load")
        /\ loader' = loader /\ minted' = minted /\ earlier' = earlier
        /\ refKills' = refKills /\ browserStarts' = browserStarts /\ open' = open
        /\ closing' = closing /\ unforgotten' = unforgotten /\ refFailures' = refFailures
    BY DEF ClearRemoves, Doing, history, tabs
  <1>2. /\ writes' \in Seq(WriteType) /\ Asked' \subseteq Asked
        /\ ~SetAt' /\ ~Doing("persist", "remove")' /\ Taken' = {} /\ ClearFirst'
        /\ \A i \in DOMAIN writes' : /\ i > 1 => writes'[i].at = "start"
                                     /\ writes'[i].kind = "persist"
                                     /\ writes'[i].rows \subseteq Minted
    BY <1>1, NoneUnderWay DEF RefsInv
  <1>3. /\ loader.refs \cup UNION {rows[t] : t \in RefTab} \subseteq earlier
        /\ Asked \cap earlier = {}
    BY <1>1, HeadIs DEF RefsInv, ClearFirst
  <1>4. /\ rows \in [RefTab -> SUBSET Minted] /\ rows' \in [RefTab -> SUBSET Minted]
        /\ \A t \in RefTab : rows'[t] \subseteq rows[t]
    <2>1. rows \in [RefTab -> SUBSET Minted] BY DEF RefsInv, RefsTyped, RefsTypeOK, Minted
    <2> QED
      BY <1>1, <2>1
  <1>5. RefsTyped'
    <2>1. /\ loaded' \in {"no", "pending", "done"} /\ cleared' \in {"no", "clean", "in_a_load"}
      BY <1>1
    <2>2. memory' \cup promised' \subseteq DOMAIN minted' /\ dirty' \cup indexed' \subseteq RefTab
      BY <1>1
    <2>3. \A t \in RefTab : \A r \in rows'[t] : TabOf(r)' = t
      BY <1>1, <1>4 DEF RefsInv, RefsTyped, TabOf
    <2> QED
      BY <1>1, <1>2, <1>4, <2>1, <2>2, <2>3 DEF RefsInv, RefsTyped, RefsTypeOK, Minted
  <1>6. LoadsInOrder' BY <1>1 DEF RefsInv, LoadsInOrder
  <1>7. AskedAreLatest'
    <2>1. \A r, t : TabOf(r)' = TabOf(r) /\ (NewestIn(t, Minted)' <=> NewestIn(t, Minted))
                    /\ Minted' = Minted
      BY <1>1 DEF TabOf, Newest, Minted, NewestIn
    <2>2. Known' \subseteq earlier BY <1>1, <1>2, <1>3, <1>4 DEF Known
    <2>3. \A r \in Asked' : r \notin Known' BY <1>2, <1>3, <2>2
    <2> QED
      BY <2>1, <2>3 DEF RefsInv, AskedAreLatest
  <1>8. WritesCover' BY <1>1, <1>2 DEF WritesCover
  <1>9. PromisesKept' BY <1>1 DEF PromisesKept
  <1>10. ClosedAreForgotten'
    BY <1>1 DEF RefsInv, LoadsInOrder, ClosedAreForgotten, TabsOf
  <1> QED
    BY <1>2, <1>5, <1>6, <1>7, <1>8, <1>9, <1>10 DEF RefsInv

--------------------------------
\* Snapshots

\* The latest page revision of a tab that a ref was minted for.
LatestOf(tab) ==
  LET revisions == {minted[r].revision : r \in Of(Minted, tab)}
  IN  IF revisions = {} THEN 1 ELSE CHOOSE m \in revisions : \A k \in revisions : m >= k

\* A new ref is of the latest revision of its tab.
Mints(tab, n, ref) ==
  /\ n \in Nat /\ \A r \in Minted : TabOf(r) = tab => minted[r].revision <= n
  /\ ref \in Nat \ {0} /\ ref \notin Minted /\ Minted' = Minted \cup {ref}
  /\ Minted' \subseteq Refs
  /\ minted' \in Seq(MintType) /\ Len(minted') <= MaxRefs
  /\ \A r \in Minted : minted'[r] = minted[r] /\ minted[r] \in MintType
  /\ minted'[ref] = [tab |-> tab, revision |-> n] /\ tab \in RefTab
  /\ Newest(ref)'
  /\ \A r \in Minted : Newest(r)' <=> (Newest(r) /\ (TabOf(r) = tab => minted[r].revision >= n))

LEMMA LatestIs ==
  ASSUME RefsTyped, AskedAreLatest, NEW tab \in RefTab, NEW newer \in {0, 1}, NEW n,
         n = LatestOf(tab) + newer
  PROVE  n \in Nat /\ \A r \in Minted : TabOf(r) = tab => minted[r].revision <= n
  <1> DEFINE revisions == {minted[r].revision : r \in Of(Minted, tab)}
             Latest(m) == m \in revisions /\ \A k \in revisions : m >= k
  <1>1. \A r \in Minted : minted[r].revision \in Nat
    BY DEF RefsTyped, RefsTypeOK, Minted
  <1>2. CASE revisions = {}
    <2>1. n = 1 + newer BY <1>2 DEF LatestOf
    <2>2. \A r \in Minted : TabOf(r) # tab BY <1>2 DEF Of, TabOf
    <2> QED
      BY <2>1, <2>2
  <1>3. CASE revisions # {}
    <2>1. PICK s \in Minted : TabOf(s) = tab BY <1>3 DEF Of, TabOf
    <2>2. PICK t \in Minted : TabOf(t) = tab /\ Newest(t)
      BY <2>1 DEF AskedAreLatest, NewestIn
    <2>3. Latest(minted[t].revision)
      <3>1. minted[t].revision \in revisions BY <2>2 DEF Of, TabOf
      <3>2. ASSUME NEW k \in revisions PROVE minted[t].revision >= k
        <4>1. PICK r \in Minted : TabOf(r) = tab /\ k = minted[r].revision BY DEF Of, TabOf
        <4> QED
          BY <1>1, <2>2, <4>1 DEF Newest
      <3> QED
        BY <3>1, <3>2
    <2>4. LatestOf(tab) = CHOOSE m \in revisions : \A k \in revisions : m >= k
      BY <1>3 DEF LatestOf
    <2>5. LatestOf(tab) \in revisions /\ \A k \in revisions : LatestOf(tab) >= k
      BY <2>3, <2>4
    <2>6. LatestOf(tab) \in Nat BY <1>1, <2>5 DEF Of
    <2>7. ASSUME NEW r \in Minted, TabOf(r) = tab PROVE minted[r].revision <= n
      <3>1. minted[r].revision \in revisions BY <2>7 DEF Of, TabOf
      <3>2. LatestOf(tab) >= minted[r].revision BY <2>5, <3>1
      <3> QED
        BY <1>1, <2>6, <3>2
    <2> QED
      BY <2>6, <2>7
  <1> QED
    BY <1>2, <1>3

LEMMA MintIs ==
  ASSUME RefsTyped, AskedAreLatest, Len(minted) < MaxRefs, NEW tab \in open, NEW newer \in {0, 1},
         NEW n, NEW ref, ref = Len(minted) + 1,
         n = LatestOf(tab) + newer,
         minted' = Append(minted, [tab |-> tab, revision |-> n])
  PROVE  Mints(tab, n, ref)
  <1>1. /\ minted \in Seq(MintType) /\ Len(minted) \in Nat /\ Minted = 1 .. Len(minted)
        /\ tab \in RefTab /\ MaxRefs \in Nat
        /\ \A r \in Minted : minted[r] \in MintType /\ minted[r].revision \in Nat
    <2>1. minted \in Seq(MintType) /\ tab \in RefTab /\ MaxRefs \in Nat
      BY RefsConstants DEF RefsTyped, RefsTypeOK
    <2>2. Minted = 1 .. Len(minted) BY <2>1 DEF Minted
    <2>3. \A r \in Minted : minted[r] \in MintType BY <2>1, <2>2
    <2> QED
      BY <2>1, <2>2, <2>3 DEF MintType
  <1>2. n \in Nat /\ \A r \in Minted : TabOf(r) = tab => minted[r].revision <= n
    BY <1>1, LatestIs
  <1>3. [tab |-> tab, revision |-> n] \in MintType BY <1>1, <1>2 DEF MintType
  <1>4. /\ minted' \in Seq(MintType) /\ Len(minted') = ref /\ Minted' = 1 .. ref
        /\ \A r \in Minted : minted'[r] = minted[r]
        /\ minted'[ref] = [tab |-> tab, revision |-> n]
    BY <1>1, <1>3 DEF Minted
  <1>5. ref \in Nat \ {0} /\ ref \notin Minted /\ Minted' = Minted \cup {ref} /\ ref <= MaxRefs
    BY <1>1, <1>4
  <1>6. Minted' \subseteq Refs BY <1>1, <1>4, <1>5 DEF Refs
  <1>7. minted'[ref].tab = tab /\ minted'[ref].revision = n BY <1>4
  <1>8. Newest(ref)'
    BY <1>2, <1>4, <1>5, <1>7 DEF Newest, TabOf
  <1>9. ASSUME NEW r \in Minted
        PROVE  Newest(r)' <=> (Newest(r) /\ (TabOf(r) = tab => minted[r].revision >= n))
    <2>1. minted'[r] = minted[r] /\ minted[r].revision \in Nat BY <1>1, <1>4
    <2>2. \A s \in Minted : minted'[s] = minted[s] BY <1>4
    <2>3. Newest(r)' <=> /\ \A s \in Minted : minted[s].tab = minted[r].tab =>
                                 minted[s].revision <= minted[r].revision
                         /\ tab = minted[r].tab => n <= minted[r].revision
      BY <1>5, <1>7, <2>1, <2>2 DEF Newest, TabOf
    <2>4. n <= minted[r].revision <=> minted[r].revision >= n BY <1>2, <2>1
    <2> QED
      BY <2>3, <2>4 DEF Newest, TabOf
  <1> QED
    BY <1>1, <1>2, <1>4, <1>5, <1>6, <1>8, <1>9 DEF Mints

LEMMA SnapshotKeeps ==
  ASSUME RefsInv, Snapshot
  PROVE  RefsInv'
  <1>0. PICK ref : ref = Len(minted) + 1 OBVIOUS
  <1> DEFINE Old(refs, tab, n) == {r \in Of(refs, tab) : minted[r].revision < n}
  <1>1. PICK tab \in open, newer \in {0, 1} :
          /\ minted' = Append(minted, [tab |-> tab, revision |-> LatestOf(tab) + newer])
          /\ memory' = (memory \ Old(memory, tab, LatestOf(tab) + newer)) \cup {ref}
          /\ promised' = promised \ Old(promised, tab, LatestOf(tab) + newer)
          /\ dirty' = dirty \cup {tab}
          /\ writes' = Append(writes, Job("persist", ref))
    BY <1>0 DEF Snapshot, Minted, LatestOf
  <1>2. /\ Len(minted) < MaxRefs /\ loaded' = loaded /\ loader' = loader /\ earlier' = earlier
        /\ refKills' = refKills /\ browserStarts' = browserStarts
        /\ rows' = rows /\ indexed' = indexed /\ open' = open /\ closing' = closing
        /\ unforgotten' = unforgotten /\ cleared' = cleared /\ refFailures' = refFailures
    BY DEF Snapshot, storage, tabs
  <1>3. PICK n : n = LatestOf(tab) + newer OBVIOUS
  <1>m. Mints(tab, n, ref)
    <2>1. minted' = Append(minted, [tab |-> tab, revision |-> n]) BY <1>1, <1>3
    <2>2. tab \in open /\ newer \in {0, 1} BY <1>1
    <2> QED
      BY <1>0, <1>2, <1>3, <2>1, <2>2, MintIs DEF RefsInv
  <1>4. /\ n \in Nat /\ \A r \in Minted : TabOf(r) = tab => minted[r].revision <= n
        /\ ref \in Nat \ {0} /\ ref \notin Minted /\ Minted' = Minted \cup {ref}
        /\ Minted' \subseteq Refs
        /\ minted' \in Seq(MintType) /\ Len(minted') <= MaxRefs
        /\ \A r \in Minted : minted'[r] = minted[r] /\ minted[r] \in MintType
        /\ minted'[ref] = [tab |-> tab, revision |-> n] /\ tab \in RefTab
        /\ Newest(ref)'
        /\ \A r \in Minted : Newest(r)' <=> (Newest(r) /\ (TabOf(r) = tab => minted[r].revision >= n))
    BY <1>m DEF Mints
  <1>5. /\ memory' = (memory \ Old(memory, tab, n)) \cup {ref}
        /\ promised' = promised \ Old(promised, tab, n)
        /\ dirty' = dirty \cup {tab} /\ writes' = Append(writes, Job("persist", ref))
    BY <1>1, <1>3
  <1>6. /\ memory \subseteq Minted /\ promised \subseteq Minted /\ earlier \subseteq Minted
        /\ Asked \subseteq Minted /\ loader.refs \subseteq Minted /\ Taken \subseteq Minted
        /\ \A t \in RefTab : rows[t] \subseteq Minted
    <2>1. Taken \subseteq Minted
      BY HeadIs DEF RefsInv, RefsTyped, Taken, SetAt, Doing
    <2> QED
      BY <2>1 DEF RefsInv, RefsTyped, RefsTypeOK, Minted
  <1>7. /\ \A r \in Minted : TabOf(r)' = TabOf(r) /\ TabOf(r) \in RefTab
        /\ TabOf(ref)' = tab
    BY <1>4 DEF TabOf, MintType
  <1>8. /\ \A r \in Minted : r \in memory' <=> r \in memory /\ (TabOf(r) = tab => minted[r].revision >= n)
        /\ \A r \in promised' : r \in promised /\ (TabOf(r) = tab => minted[r].revision >= n)
        /\ memory' \subseteq memory \cup {ref} /\ ref \in memory'
    <2>1. \A r \in Minted : minted[r].revision \in Nat BY <1>4 DEF MintType
    <2> QED
      BY <1>4, <1>5, <1>6, <2>1 DEF Of, TabOf
  <1>9. /\ writes' \in Seq(WriteType) /\ Asked' = Asked \cup {ref}
        /\ \A i \in DOMAIN writes' : i > 1 => writes'[i].at = "start"
        /\ SetAt' <=> SetAt
        /\ Doing("persist", "remove")' <=> Doing("persist", "remove")
        /\ SetAt \/ Doing("persist", "remove") => Head(writes)' = Head(writes) /\ writes # <<>>
        /\ Taken' = Taken
        /\ \A i \in DOMAIN writes' : writes'[i].kind \in {"persist", "clear"}
        /\ \A i \in DOMAIN writes' : \/ i \in DOMAIN writes /\ writes'[i] = writes[i]
                                     \/ writes'[i].kind = "persist" /\ writes'[i].rows = {}
    <2>1. /\ writes' \in Seq(WriteType) /\ Asked' = Asked \cup ({ref} \ {0})
          /\ \A i \in DOMAIN writes' : i > 1 => writes'[i].at = "start"
      BY <1>4, <1>5, JobJoinsIs DEF RefsInv
    <2> QED
      BY <1>4, <1>5, <2>1, HeadStays DEF RefsInv
  <1>10. RefsTyped'
    <2>1. \A i \in DOMAIN writes' : writes'[i].rows \subseteq Minted'
      BY <1>4, <1>9 DEF RefsInv, RefsTyped
    <2>2. Asked' \subseteq Minted' /\ memory' \cup promised' \cup earlier' \subseteq Minted'
      BY <1>2, <1>4, <1>6, <1>8, <1>9
    <2>3. \A r \in Minted' : minted'[r].tab \in RefTab /\ minted'[r].revision \in Nat
      BY <1>4 DEF MintType
    <2>4. rows' \in [RefTab -> SUBSET Minted']
      BY <1>2, <1>4, <1>6 DEF RefsInv, RefsTyped, RefsTypeOK
    <2>5. dirty' \subseteq RefTab BY <1>4, <1>5 DEF RefsInv, RefsTyped, RefsTypeOK
    <2>6. RefsTypeOK'
      BY <1>2, <1>4, <1>9, <2>2, <2>3, <2>4, <2>5 DEF RefsInv, RefsTyped, RefsTypeOK, Minted
    <2>7. \A t \in RefTab : \A r \in rows'[t] : TabOf(r)' = t
      BY <1>2, <1>6, <1>7 DEF RefsInv, RefsTyped
    <2>8. loader' \in LoaderType /\ loader'.refs \subseteq Minted' /\ open' \cap closing' = {}
      BY <1>2, <1>4 DEF RefsInv, RefsTyped
    <2> QED
      BY <1>4, <1>9, <2>1, <2>2, <2>6, <2>7, <2>8 DEF RefsTyped
  <1>11. LoadsInOrder' BY <1>2 DEF RefsInv, LoadsInOrder
  <1>12. ClearFirst'
    <2>1. \A i \in DOMAIN writes' : writes'[i].kind = "clear" => i \in DOMAIN writes /\ writes'[i] = writes[i]
      BY <1>9
    <2>2. Asked' \cap earlier' = {}
      BY <1>2, <1>4, <1>6, <1>9 DEF RefsInv, ClearFirst
    <2> QED
      BY <1>2, <1>8, <2>1, <2>2 DEF RefsInv, ClearFirst
  <1>13. ASSUME NEW r \in Minted
         PROVE  /\ Survives(r)' <=> Survives(r)
                /\ Stored(r)' <=> Stored(r)
                /\ WillBeStored(r)' <=> WillBeStored(r)
    <2>1. Survives(r)' <=> Survives(r) BY <1>7, <1>9 DEF Survives
    <2>2. Stored(r)' <=> Stored(r) BY <1>2, <1>7 DEF Stored
    <2> QED
      BY <1>7, <1>9, <2>1, <2>2 DEF WillBeStored
  <1>14. AskedAreLatest'
    <2>1. ASSUME NEW t \in RefTab, NEW refs, NEW more, NewestIn(t, refs), refs \subseteq Minted,
                 t # tab, \A r \in refs : TabOf(r) # tab => r \in more
          PROVE  \E s \in more : TabOf(s)' = t /\ Newest(s)'
      <3>1. PICK s \in refs : TabOf(s) = t /\ Newest(s) BY <2>1 DEF NewestIn
      <3> QED
        BY <1>4, <1>7, <2>1, <3>1
    <2>2. ASSUME NEW t \in RefTab, NEW r \in Minted', TabOf(r)' = t PROVE NewestIn(t, Minted)'
      <3>1. CASE t = tab BY <1>4, <1>7, <3>1 DEF NewestIn
      <3>2. CASE t # tab
        <4>1. r \in Minted /\ TabOf(r) = t BY <1>4, <1>7, <2>2, <3>2
        <4>2. NewestIn(t, Minted) BY <4>1 DEF RefsInv, AskedAreLatest
        <4>3. \E s \in Minted' : TabOf(s)' = t /\ Newest(s)'
          BY <1>4, <2>1, <3>2, <4>2
        <4> QED
          BY <4>3 DEF NewestIn
      <3> QED
        BY <3>1, <3>2
    <2>3. ASSUME NEW r \in Asked', TabOf(r)' \in open', r \in Known'
          PROVE  NewestIn(TabOf(r), memory)' /\ (r \in memory' <=> Newest(r)')
      <3>1. CASE r = ref
        BY <1>4, <1>7, <1>8, <3>1 DEF NewestIn
      <3>2. CASE r # ref
        <4>1. r \in Asked /\ r \in Minted /\ TabOf(r)' = TabOf(r) /\ TabOf(r) \in open
          BY <1>2, <1>6, <1>7, <1>9, <2>3, <3>2
        <4>2. r \in Known BY <1>2, <1>8, <1>9, <2>3, <3>2 DEF Known
        <4>3. NewestIn(TabOf(r), memory) /\ (r \in memory <=> Newest(r))
          BY <4>1, <4>2 DEF RefsInv, AskedAreLatest
        <4>4. r \in memory' <=> Newest(r)' BY <1>4, <1>8, <4>1, <4>3
        <4>5. CASE TabOf(r) = tab BY <1>4, <1>7, <1>8, <4>1, <4>4, <4>5 DEF NewestIn
        <4>6. CASE TabOf(r) # tab
          <5>1. \A s \in memory : TabOf(s) # tab => s \in memory' BY <1>6, <1>8
          <5>2. \E s \in memory' : TabOf(s)' = TabOf(r) /\ Newest(s)'
            BY <1>6, <1>7, <2>1, <4>1, <4>3, <4>6, <5>1
          <5> QED
            BY <4>1, <4>4, <5>2 DEF NewestIn
        <4> QED
          BY <4>5, <4>6
      <3> QED
        BY <3>1, <3>2
    <2> QED
      BY <2>2, <2>3 DEF AskedAreLatest
  <1>15. WritesCover'
    <2>1. Doing("persist", "remove")' => indexed' = Head(writes)'.index
      BY <1>2, <1>9 DEF RefsInv, WritesCover
    <2>2. ASSUME NEW r \in Asked' \cap memory', TabOf(r)' \in open'
          PROVE  TabOf(r)' \in dirty' \/ WillBeStored(r)'
      <3>1. CASE r = ref BY <1>5, <1>7, <3>1
      <3>2. CASE r # ref
        <4>1. r \in Asked /\ r \in memory /\ r \in Minted BY <1>6, <1>8, <1>9, <2>2, <3>2
        <4>2. TabOf(r) \in dirty \/ WillBeStored(r)
          BY <1>2, <1>7, <2>2, <4>1 DEF RefsInv, WritesCover
        <4> QED
          BY <1>5, <1>7, <1>13, <4>1, <4>2
      <3> QED
        BY <3>1, <3>2
    <2>3. ASSUME SetAt' \/ Doing("persist", "remove")',
                 NEW r \in {Head(writes)'.ref} \cap memory', TabOf(r)' \in open'
          PROVE  WillBeStored(r)'
      <3>1. Head(writes)' = Head(writes) /\ writes # <<>> BY <1>9, <2>3
      <3>2. Head(writes).ref \in Minted \cup {0}
        BY <1>6, <3>1, HeadIs DEF RefsInv, Asked
      <3>3. r \in Minted /\ r \in memory BY <1>4, <1>6, <1>8, <2>3, <3>1, <3>2
      <3>4. WillBeStored(r)
        BY <1>2, <1>7, <1>9, <2>3, <3>1, <3>3 DEF RefsInv, WritesCover
      <3> QED
        BY <1>13, <3>3, <3>4
    <2> QED
      BY <2>1, <2>2, <2>3 DEF WritesCover
  <1>16. PromisesKept'
    <2>1. ASSUME NEW r \in promised'
          PROVE  /\ TabOf(r)' \in open' /\ Newest(r)' /\ Stored(r)' /\ Survives(r)'
                 /\ \/ r \in memory'
                    \/ /\ loaded' # "done"
                       /\ loader'.at = "rows" => TabOf(r)' \in loader'.tabs
                       /\ loader'.at = "merge" => r \in loader'.refs
      <3>1. r \in promised /\ r \in Minted /\ (TabOf(r) = tab => minted[r].revision >= n)
        BY <1>6, <1>8
      <3> QED
        BY <1>2, <1>4, <1>7, <1>8, <1>13, <3>1 DEF RefsInv, PromisesKept
    <2> QED
      BY <2>1 DEF PromisesKept
  <1>17. ClosedAreForgotten'
    <2>1. ASSUME cleared # "in_a_load", NEW r \in memory' \cup loader'.refs
          PROVE  TabOf(r)' \in open' \cup closing' \cup unforgotten'
      <3>1. CASE r = ref BY <1>2, <1>7, <3>1
      <3>2. CASE r # ref
        <4>1. r \in memory \cup loader.refs /\ r \in Minted BY <1>2, <1>6, <1>8, <3>2
        <4>2. TabOf(r) \in open \cup closing \cup unforgotten
          BY <2>1, <4>1 DEF RefsInv, ClosedAreForgotten, TabsOf, TabOf
        <4> QED
          BY <1>2, <1>7, <4>1, <4>2
      <3> QED
        BY <3>1, <3>2
    <2> QED
      BY <1>2, <2>1 DEF ClosedAreForgotten, TabsOf, TabOf
  <1> QED
    BY <1>10, <1>11, <1>12, <1>14, <1>15, <1>16, <1>17 DEF RefsInv

--------------------------------
\* Refs follow their tabs

LEMMA RefsInvInit ==
  ASSUME RefsInit
  PROVE  RefsInv
  <1>1. /\ minted = <<>> /\ memory = {} /\ dirty = {} /\ loaded = "no" /\ loader = NoLoader
        /\ writes = <<>> /\ rows = [t \in RefTab |-> {}] /\ indexed = {} /\ open = RefTab
        /\ closing = {} /\ unforgotten = {} /\ promised = {} /\ earlier = {} /\ cleared = "no"
        /\ refKills = 0 /\ refFailures = 0 /\ browserStarts = 0
    BY DEF RefsInit
  <1>2. Minted = {} /\ DOMAIN writes = {} /\ Asked = {} BY <1>1 DEF Minted, Asked
  <1>3. loader.at = "off" /\ loader.refs = {} /\ loader \in LoaderType
    BY <1>1 DEF NoLoader, LoaderType
  <1>4. ~SetAt /\ ~Doing("persist", "remove") BY <1>1 DEF SetAt, Doing
  <1>5. RefsTyped
    <2>1. minted \in Seq(MintType) /\ Len(minted) = 0 /\ writes \in Seq(WriteType) BY <1>1
    <2>2. /\ Len(minted) <= MaxRefs /\ refKills \in 0 .. MaxRefKills
          /\ refFailures \in 0 .. MaxRefFailures /\ browserStarts \in 0 .. MaxBrowserStarts
      BY <1>1, <2>1, RefsConstants
    <2> QED
      BY <1>1, <1>2, <1>3, <2>1, <2>2 DEF RefsTyped, RefsTypeOK, Minted
  <1>6. LoadsInOrder BY <1>1, <1>3 DEF LoadsInOrder
  <1>7. ClearFirst BY <1>1, <1>2 DEF ClearFirst
  <1>8. AskedAreLatest BY <1>2 DEF AskedAreLatest
  <1>9. WritesCover BY <1>2, <1>4 DEF WritesCover
  <1>10. PromisesKept BY <1>1 DEF PromisesKept
  <1>11. ClosedAreForgotten BY <1>1, <1>3 DEF ClosedAreForgotten, TabsOf
  <1> QED
    BY <1>5, <1>6, <1>7, <1>8, <1>9, <1>10, <1>11 DEF RefsInv

LEMMA RefsInvNext ==
  ASSUME RefsInv, [RefsNext]_refVars
  PROVE  RefsInv'
  <1>1. CASE Snapshot BY <1>1, SnapshotKeeps
  <1>2. CASE LookupMisses BY <1>2, LookupMissesKeeps
  <1>3. CASE LoadReadsIndex BY <1>3, LoadReadsIndexKeeps
  <1>4. CASE LoadReadsRows BY <1>4, LoadReadsRowsKeeps
  <1>5. CASE LoadMerges BY <1>5, LoadMergesKeeps
  <1>6. CASE RefLoadFails BY <1>6, RefLoadFailsKeeps
  <1>7. CASE PersistStarts BY <1>7, PersistStartsKeeps
  <1>8. CASE PersistTakes BY <1>8, PersistTakesKeeps
  <1>9. CASE NothingToPersist BY <1>9, NothingToPersistKeeps
  <1>10. CASE PersistSets BY <1>10, PersistSetsKeeps
  <1>11. CASE PersistRemoves BY <1>11, PersistRemovesKeeps
  <1>12. CASE PersistFails BY <1>12, PersistFailsKeeps
  <1>13. CASE CloseTab BY <1>13, CloseTabKeeps
  <1>14. CASE ForgetTab BY <1>14, ForgetTabKeeps
  <1>15. CASE WorkerDies BY <1>15, WorkerDiesKeeps
  <1>16. CASE BrowserStarts BY <1>16, BrowserStartsKeeps
  <1>17. CASE ClearStarts BY <1>17, ClearStartsKeeps
  <1>18. CASE ClearRemoves BY <1>18, ClearRemovesKeeps
  <1>19. CASE UNCHANGED refVars
    <2>1. /\ minted' = minted /\ memory' = memory /\ dirty' = dirty /\ loaded' = loaded
          /\ loader' = loader /\ writes' = writes /\ rows' = rows /\ indexed' = indexed
          /\ open' = open /\ closing' = closing /\ promised' = promised /\ earlier' = earlier
          /\ cleared' = cleared /\ unforgotten' = unforgotten /\ refKills' = refKills
          /\ refFailures' = refFailures /\ browserStarts' = browserStarts
      BY <1>19 DEF refVars
    <2>2. RefsTyped' BY <2>1 DEF RefsInv, RefsTyped, RefsTypeOK, Minted, Asked, TabOf
    <2>3. LoadsInOrder' BY <2>1 DEF RefsInv, LoadsInOrder
    <2>4. ClearFirst' /\ AskedAreLatest' /\ WritesCover' BY <2>1, WritesStay DEF RefsInv
    <2>5. \A r \in promised : Stored(r)' /\ Survives(r)'
      BY <2>1 DEF RefsInv, PromisesKept, Stored, Survives, SetAt, Doing, TabOf
    <2>6. PromisesKept' BY <2>1, <2>5, PromisesStay DEF RefsInv, PromisesKept
    <2>7. ClosedAreForgotten' BY <2>1 DEF RefsInv, ClosedAreForgotten, TabsOf
    <2> QED
      BY <2>2, <2>3, <2>4, <2>6, <2>7 DEF RefsInv
  <1> QED
    BY <1>1, <1>2, <1>3, <1>4, <1>5, <1>6, <1>7, <1>8, <1>9, <1>10, <1>11, <1>12, <1>13, <1>14,
       <1>15, <1>16, <1>17, <1>18, <1>19 DEF RefsNext

LEMMA RefsInvFollows ==
  ASSUME RefsInv
  PROVE  RefsFollowTabs
  <1>1. RefsTypeOK BY DEF RefsInv, RefsTyped
  <1>2. PromisedAreFound
    <2>1. ASSUME NEW r \in promised, r \notin memory
          PROVE  loaded # "done" /\ minted[r].tab \in indexed /\ r \in rows[minted[r].tab]
      BY <2>1 DEF RefsInv, PromisesKept, Stored, TabOf
    <2> QED
      BY <2>1 DEF PromisedAreFound
  <1>3. ClosedTabsForgotten
    BY DEF RefsInv, ClosedAreForgotten, ClosedTabsForgotten, TabsOf
  <1> QED
    BY <1>1, <1>2, <1>3 DEF RefsFollowTabs

(* A ref whose write to chrome.storage had ended before it was handed out is found again,  *)
(* in memory or by the next #load, as long as the browser runs, its tab is open and its     *)
(* page has no newer snapshot: no worker that dies, no load or write of the registry that   *)
(* fails, no close of another tab and no merge of a load with what was minted meanwhile     *)
(* loses it.  And once the calls are over no ref names a closed tab, save where the load    *)
(* that forgetTab waits for had failed or clear() ended during a load                       *)
(* (target-resolution.ts).                                                                  *)
THEOREM RefsOutliveWorkers == RefsSpec => []RefsFollowTabs
  <1>1. RefsInit => RefsInv BY RefsInvInit
  <1>2. RefsInv /\ [RefsNext]_refVars => RefsInv' BY RefsInvNext
  <1>3. RefsInv => RefsFollowTabs BY RefsInvFollows
  <1> QED
    BY <1>1, <1>2, <1>3, PTL DEF RefsSpec

================================
