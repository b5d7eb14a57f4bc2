----------------------------- MODULE DataCache -----------------------------
(***************************************************************************)
(* mfs_tool update: cache_clients brings the manifests of the data root up *)
(* to date with the files in it.  A run builds Python.pak, visits each     *)
(* secure file once to encrypt it in place, and then works through stages: *)
(* one per age (in an order that is the same in every run here and that of *)
(* a HashSet in the code), the SecurePreloader, one per client type.  A    *)
(* file it cannot encrypt is a warning.  A stage loads its manifests,      *)
(* updates their entries through a cache that all the stages of a run      *)
(* share, adds the files none of them lists, and writes back the manifests *)
(* with an updated entry.  Nothing is written atomically: a run that is    *)
(* killed, or that a `?` ends, leaves what it has written so far, and the  *)
(* next run starts from that.                                              *)
(*                                                                         *)
(* A file's bytes are one value of Content, which stands for its hash and  *)
(* its size.  The administrator changes files between runs, not during one. *)
(***************************************************************************)
EXTENDS Naturals, FiniteSets, Sequences

CONSTANTS
    File,           \* the paths under the data root
    Content,        \* what a file may hold
    Torn,           \* the content of a file that was truncated and not written
    Compressible,   \* the contents that shrink by 10% or more
    Cipher,         \* the encrypted form of a content; itself when encrypted
    Secure,         \* the .age, .fni, .csv and .sdl files
    Pak,            \* Python.pak
    Manifest,       \* the names of the manifests
    Stages,         \* for each stage its manifests, in the order of the code
    Gate,           \* for each stage the path without which it is skipped
    Wants,          \* the files a manifest lists when they exist
    Refs,           \* the files it lists because a page refers to them
    Initial,        \* the data root as it is before the first run
    Edits,          \* what the administrator may make of each path
    MaxRuns, MaxEdits, MaxFaults    \* bounds

Absent == "absent"
Dir    == "dir"
Zero   == "zero"    \* the hash of an entry that was never populated

ASSUME ContentAssumption ==
    /\ Torn \in Content /\ Compressible \subseteq Content \ {Torn}
    /\ {Absent, Dir, Zero} \cap Content = {}
    /\ Cipher \in [Content -> Content]
    /\ \A c \in Content : Cipher[Cipher[c]] = Cipher[c]
    /\ Cipher[Torn] # Torn      \* too short for the mark of an encrypted file
ASSUME LayoutAssumption ==
    /\ Secure \subseteq File /\ Pak \in File \ Secure
    /\ Stages \in Seq(Seq(Manifest)) /\ Gate \in [DOMAIN Stages -> SUBSET File]
    /\ Wants \in [Manifest -> SUBSET File] /\ Refs \in [Manifest -> SUBSET File]
    /\ Initial \in [File -> Content \cup {Absent, Dir}]
    /\ Edits \in [File -> SUBSET (Content \cup {Absent, Dir})]
(* A manifest belongs to one stage, once: ages have different names, and   *)
(* none is named like a manifest of the SecurePreloader or of a client.    *)
ASSUME OnceAssumption ==
    /\ \A m \in Manifest : \E s \in DOMAIN Stages : \E i \in DOMAIN Stages[s] : Stages[s][i] = m
    /\ \A s, t \in DOMAIN Stages : \A i \in DOMAIN Stages[s], j \in DOMAIN Stages[t] :
         Stages[s][i] = Stages[t][j] => s = t /\ i = j
(* A file that an age refers to without looking for it, a sound or a .csv, *)
(* is for one manifest of a stage at most: an age has only one, and of a   *)
(* client's manifests such a file goes to the full one alone.              *)
ASSUME ReferAssumption ==
    \A f \in UNION {Refs[m] : m \in Manifest} :
        \A s \in DOMAIN Stages : \A i, j \in DOMAIN Stages[s] :
            {Stages[s][i], Stages[s][j]} \subseteq {m \in Manifest : f \in Wants[m] \cup Refs[m]}
                => i = j
ASSUME BoundAssumption == {MaxRuns, MaxEdits, MaxFaults} \subseteq Nat

VARIABLES
    source,     \* File -> its content, Absent or Dir
    gz,         \* File -> the content of the .gz next to it, or Absent
    mfs,        \* Manifest -> the .mfs_cache file
    pc,         \* where the tool is; "idle" between runs
    stage,      \* the stage it works on
    mem,        \* the manifests of that stage, in memory
    cache,      \* data_cache: the entries this run has settled, by file
    todo,       \* for each manifest of the stage the entries still to update
    expected,   \* the files a loop still has to visit: to encrypt them, or
                \* to add them to the stage if no manifest of it lists them
    job,        \* the file being rewritten or compressed, and its entry
    runs, edits, faults,    \* how many there have been
    began,      \* history: mfs as this run found it
    warned,     \* history: what a run could not encrypt or compress, and held
    outcome,    \* history: how the last run ended; "edited" after an edit
    clean       \* history: no run was cut short and none skipped a stage

disk  == <<source, gz, mfs>>
tool  == <<stage, mem, cache, todo, expected, job>>
hist  == <<runs, edits, faults, began, warned, outcome, clean>>
vars  == <<disk, pc, tool, hist>>

(* FileInfo: the paths and flags of an entry follow from its file and from *)
(* packed, which says that download_path names the .gz.                    *)
FileInfo == [hash : Content \cup {Zero}, down : Content \cup {Zero},
             packed : BOOLEAN, updated : BOOLEAN, deleted : BOOLEAN]
Entries  == UNION {[D -> FileInfo] : D \in SUBSET File}

NewInfo == [hash |-> Zero, down |-> Zero, packed |-> FALSE,
            updated |-> TRUE, deleted |-> FALSE]
NoEntries == [f \in {} |-> NewInfo]
Missing   == [kind |-> "missing", files |-> NoEntries]
TornMfs   == [kind |-> "torn", files |-> NoEntries]
NoJob     == [file |-> Pak, info |-> NewInfo, into |-> {}, write |-> Torn]

Exists(f)   == source[f] # Absent
Readable(f) == source[f] \in Content
Members(s)  == {s[i] : i \in DOMAIN s}
Here        == Stages[stage]
Skipped(s)  == \E f \in Gate[s] : ~Exists(f)
Listed(m)   == {f \in Wants[m] : Exists(f)} \cup Refs[m]

Init ==
    /\ source = Initial
    /\ gz = [f \in File |-> Absent]
    /\ mfs = [m \in Manifest |-> Missing]
    /\ pc = "idle"
    /\ stage = 1 /\ mem = [m \in {} |-> NoEntries] /\ cache = NoEntries
    /\ todo = [m \in {} |-> {}] /\ expected = {} /\ job = NoJob
    /\ runs = 0 /\ edits = 0 /\ faults = 0
    /\ began = mfs /\ warned = {} /\ outcome = "edited" /\ clean = TRUE

-----------------------------------------------------------------------------
(* A new, changed, deleted or moved file. *)
Edit(f) ==
    /\ pc = "idle" /\ edits < MaxEdits
    /\ \E c \in Edits[f] : c # source[f] /\ source' = [source EXCEPT ![f] = c]
    /\ edits' = edits + 1
    /\ outcome' = "edited"
    /\ UNCHANGED <<gz, mfs, pc, tool, runs, faults, began, warned, clean>>

(* cache_clients is called: it finds the files to encrypt; data_cache is   *)
(* empty, the first stage is next.                                         *)
Start ==
    /\ pc = "idle" /\ runs < MaxRuns
    /\ pc' = "python"
    /\ stage' = 1 /\ cache' = NoEntries
    /\ expected' = {f \in Secure : Readable(f)}
    /\ runs' = runs + 1
    /\ began' = mfs /\ outcome' = "running"
    /\ UNCHANGED <<disk, mem, todo, job, edits, faults, warned, clean>>

(* process_python compiles and then overwrites the .pak, with --python; it *)
(* is left alone without, or when compiling fails.                         *)
BuildPak ==
    /\ pc = "python"
    /\ \/ pc' = "encrypt" /\ UNCHANGED <<source, job>>
       \/ \E c \in Edits[Pak] \cap Content :
            /\ source' = [source EXCEPT ![Pak] = Torn]
            /\ job' = [NoJob EXCEPT !.write = c]
            /\ pc' = "rewriting"
    /\ UNCHANGED <<gz, mfs, stage, mem, cache, todo, expected, hist>>

(* encrypt_file leaves an encrypted file alone; any other it reads whole,  *)
(* then creates anew.                                                      *)
Encryptable == {f \in Secure : Readable(f) /\ Cipher[source[f]] # source[f]}
Encrypt(f) ==
    /\ pc = "encrypt" /\ f \in expected
    /\ expected' = expected \ {f}
    /\ \/ f \notin Encryptable /\ UNCHANGED <<source, job, pc>>
       \/ /\ f \in Encryptable
          /\ source' = [source EXCEPT ![f] = Torn]
          /\ job' = [NoJob EXCEPT !.file = f, !.write = Cipher[source[f]]]
          /\ pc' = "rewriting"
    /\ UNCHANGED <<gz, mfs, stage, mem, cache, todo, hist>>

(* It cannot be opened or read, or not be created, being read-only: it     *)
(* stays as it is, with a warning, and is not tried again.                 *)
EncryptFails(f) ==
    /\ pc = "encrypt" /\ f \in expected /\ faults < MaxFaults
    /\ expected' = expected \ {f}
    /\ warned' = warned \cup {<<"encrypt", f, source[f]>>}
    /\ faults' = faults + 1
    /\ UNCHANGED <<disk, pc, stage, mem, cache, todo, job, runs, edits, began,
                   outcome, clean>>

Rewritten ==
    /\ pc = "rewriting"
    /\ source' = [source EXCEPT ![job.file] = job.write]
    /\ job' = NoJob
    /\ pc' = "encrypt"
    /\ UNCHANGED <<gz, mfs, stage, mem, cache, todo, expected, hist>>

(* encrypt_file or process_python fails to write: a warning, and on. *)
RewriteFails ==
    /\ pc = "rewriting" /\ faults < MaxFaults
    /\ job' = NoJob /\ pc' = "encrypt"
    /\ warned' = warned \cup {<<"encrypt", job.file, Torn>>}
    /\ faults' = faults + 1
    /\ UNCHANGED <<disk, stage, mem, cache, todo, expected, runs, edits, began,
                   outcome, clean>>

(* Mutant: the manifests are begun before every file was visited. *)
Encrypted_early ==
    /\ pc = "encrypt"
    /\ pc' = "load"
    /\ UNCHANGED <<disk, tool, hist>>

Encrypted ==
    /\ pc = "encrypt" /\ expected = {}
    /\ pc' = "load"
    /\ UNCHANGED <<disk, tool, hist>>

-----------------------------------------------------------------------------
(* The next stage: skipped without its directory or its .age file, ended   *)
(* with the run when one of its manifests does not parse.                  *)
Skip ==
    /\ pc = "load" /\ stage <= Len(Stages) /\ Skipped(stage)
    /\ stage' = stage + 1
    /\ clean' = FALSE
    /\ UNCHANGED <<disk, pc, mem, cache, todo, expected, job, runs, edits,
                   faults, began, warned, outcome>>

Unparsed == \E m \in Members(Here) : mfs[m].kind = "torn"

Load ==
    /\ pc = "load" /\ stage <= Len(Stages) /\ ~Skipped(stage) /\ ~Unparsed
    /\ mem' = [m \in Members(Here) |-> mfs[m].files]
    /\ todo' = [m \in Members(Here) |-> DOMAIN mfs[m].files]
    /\ expected' = UNION {Listed(m) : m \in Members(Here)}
    /\ pc' = "update"
    /\ UNCHANGED <<disk, stage, cache, job, hist>>

Stop(how) ==
    /\ pc' = "idle"
    /\ outcome' = how
    /\ stage' = 1 /\ mem' = [m \in {} |-> NoEntries] /\ cache' = NoEntries
    /\ todo' = [m \in {} |-> {}] /\ expected' = {} /\ job' = NoJob

LoadFails ==
    /\ pc = "load" /\ stage <= Len(Stages) /\ ~Skipped(stage) /\ Unparsed
    /\ Stop("failed") /\ clean' = FALSE
    /\ UNCHANGED <<disk, runs, edits, faults, began, warned>>

Finish ==
    /\ pc = "load" /\ stage > Len(Stages)
    /\ Stop(IF outcome = "running" THEN "whole" ELSE "failed")
    /\ UNCHANGED <<disk, runs, edits, faults, began, warned, clean>>

-----------------------------------------------------------------------------
(* The entry of f becomes info in the manifests of into. *)
insert(entries, f, info) ==
    [g \in DOMAIN entries \cup {f} |-> IF g = f THEN info ELSE entries[g]]
Settle(f, info, into) ==
    /\ cache' = insert(cache, f, info)
    /\ mem' = [m \in DOMAIN mem |->
                 IF m \in into THEN insert(mem[m], f, info) ELSE mem[m]]
    /\ todo' = [m \in DOMAIN todo |-> IF m \in into THEN todo[m] \ {f} ELSE todo[m]]
    /\ expected' = expected \ {f}

(* Mutant: a file that is gone keeps its entry. *)
MarkDeleted_kept(info) == info

MarkDeleted(info) == [info EXCEPT !.deleted = TRUE, !.updated = TRUE]

(* FileInfo::update up to the creation of the .gz.  notFound is the entry   *)
(* to keep when there is no source; another error keeps it as it was.      *)
Update(f, info, notFound, into) ==
    IF Readable(f) /\ source[f] # info.hash
    THEN /\ gz' = [gz EXCEPT ![f] = Torn]
         /\ job' = [NoJob EXCEPT !.file = f, !.into = into,
                                 !.info = [info EXCEPT !.hash = source[f]]]
         /\ pc' = "compress"
         /\ UNCHANGED <<source, mfs, stage, mem, cache, todo, expected, hist>>
    ELSE /\ Settle(f, IF Exists(f) THEN info ELSE notFound, into)
         /\ UNCHANGED <<disk, pc, stage, job, hist>>

(* The manifest whose turn it is: the first with entries left. *)
Turn(m) ==
    /\ m \in DOMAIN todo /\ todo[m] # {}
    /\ \E i \in DOMAIN Here : Here[i] = m /\ \A j \in 1..(i - 1) : todo[Here[j]] = {}

(* update_cache_file: the first time a run meets a file it updates the     *)
(* entry at hand; every later manifest gets a clone of that entry.         *)
UpdateCacheFile(m, f) ==
    /\ pc = "update" /\ Turn(m) /\ f \in todo[m]
    /\ IF f \in DOMAIN cache
       THEN Settle(f, cache[f], {m}) /\ UNCHANGED <<disk, pc, stage, job, hist>>
       ELSE Update(f, mem[m][f], MarkDeleted(mem[m][f]), {m})

(* Mutant: a new file is added to the first manifest that wants it only. *)
CreateCacheFile_once(f) ==
    /\ pc = "update" /\ \A m \in DOMAIN todo : todo[m] = {}
    /\ f \in expected
    /\ Update(f, NewInfo, NewInfo,
              {CHOOSE m \in Members(Here) : f \in Listed(m)})

(* create_cache_file: a file no manifest of the stage lists. *)
CreateCacheFile(f) ==
    LET into == {m \in Members(Here) : f \in Listed(m)}
    IN  /\ pc = "update" /\ \A m \in DOMAIN todo : todo[m] = {}
        /\ f \in expected
        /\ IF f \in DOMAIN cache
           THEN Settle(f, cache[f], into) /\ UNCHANGED <<disk, pc, stage, job, hist>>
           ELSE Update(f, NewInfo, NewInfo, into)

(* Mutant: the entry is not marked as updated. *)
Compressed_unmarked(info, c) ==
    [info EXCEPT !.down = c, !.packed = c \in Compressible]

(* The rest of FileInfo::update: the .gz is kept when it is small enough. *)
Compressed(info, c) ==
    [info EXCEPT !.down = c, !.packed = c \in Compressible, !.updated = TRUE]
Compress ==
    LET f == job.file
        c == source[f]
    IN  /\ pc = "compress"
        /\ gz' = [gz EXCEPT ![f] = IF c \in Compressible THEN c ELSE Absent]
        /\ Settle(f, Compressed(job.info, c), job.into)
        /\ job' = NoJob /\ pc' = "update"
        /\ UNCHANGED <<source, mfs, stage, hist>>

(* An error while the .gz is written: the entry has its new file_hash and  *)
(* its old download_hash, and the run goes on.                             *)
CompressFails ==
    /\ pc = "compress" /\ faults < MaxFaults
    /\ Settle(job.file, job.info, job.into)
    /\ job' = NoJob /\ pc' = "update"
    /\ warned' = warned \cup {<<"compress", job.file, job.info.hash>>}
    /\ faults' = faults + 1 /\ outcome' = "failed" /\ clean' = FALSE
    /\ UNCHANGED <<disk, stage, runs, edits, began>>

-----------------------------------------------------------------------------
AnyUpdated(files) == \E f \in DOMAIN files : files[f].updated

(* What write_cache puts in the file and from_cache reads back. *)
Stored(files) ==
    [f \in {g \in DOMAIN files : ~files[g].deleted} |->
        [files[f] EXCEPT !.updated = FALSE]]

(* The manifests of the stage not yet written are those still in mem. *)
Unwritten(m) == m \in DOMAIN mem /\ AnyUpdated(mem[m])

StageDone ==
    /\ pc = "update" /\ expected = {} /\ \A m \in DOMAIN todo : todo[m] = {}
    /\ \A m \in DOMAIN mem : ~Unwritten(m)
    /\ stage' = stage + 1 /\ pc' = "load"
    /\ mem' = [m \in {} |-> NoEntries] /\ todo' = [m \in {} |-> {}]
    /\ UNCHANGED <<disk, cache, expected, job, hist>>

(* write_cache creates the file, *)
WriteOpen(m) ==
    /\ pc = "update" /\ expected = {} /\ \A n \in DOMAIN todo : todo[n] = {}
    /\ Unwritten(m)
    /\ \E i \in DOMAIN Here : Here[i] = m /\ \A j \in 1..(i - 1) : ~Unwritten(Here[j])
    /\ mfs' = [mfs EXCEPT ![m] = TornMfs]
    /\ job' = [NoJob EXCEPT !.into = {m}]
    /\ pc' = "writing"
    /\ UNCHANGED <<source, gz, stage, mem, cache, todo, expected, hist>>

(* and the buffer reaches it when it is flushed. *)
WriteEnd(m) ==
    /\ pc = "writing" /\ m \in job.into
    /\ mfs' = [mfs EXCEPT ![m] = [kind |-> "ok", files |-> Stored(mem[m])]]
    /\ mem' = [n \in DOMAIN mem \ {m} |-> mem[n]]
    /\ job' = NoJob /\ pc' = "update"
    /\ UNCHANGED <<source, gz, stage, cache, todo, expected, hist>>

(* The process is killed, or a write fails and `?` ends the run. *)
Crash ==
    /\ pc # "idle" /\ faults < MaxFaults
    /\ Stop("failed") /\ clean' = FALSE
    /\ faults' = faults + 1
    /\ UNCHANGED <<disk, runs, edits, began, warned>>

Next ==
    \/ Start \/ BuildPak \/ Rewritten \/ RewriteFails \/ Encrypted
    \/ Skip \/ Load \/ LoadFails \/ Finish \/ Compress \/ CompressFails
    \/ StageDone \/ Crash
    \/ \E f \in File : Edit(f) \/ Encrypt(f) \/ EncryptFails(f) \/ CreateCacheFile(f)
    \/ \E m \in Manifest :
         \/ WriteOpen(m) \/ WriteEnd(m)
         \/ \E f \in File : UpdateCacheFile(m, f)

Spec == Init /\ [][Next]_vars

-----------------------------------------------------------------------------
StageOf(m)   == CHOOSE s \in DOMAIN Stages : m \in Members(Stages[s])
Processed    == {m \in Manifest : ~Skipped(StageOf(m))}
Before(n, m) ==     \* n is read before m in a run
    \/ StageOf(n) < StageOf(m)
    \/ \E i, j \in DOMAIN Stages[StageOf(m)] :
         i < j /\ Stages[StageOf(m)][i] = n /\ Stages[StageOf(m)][j] = m

(* The entry of f in m is that of the file on disk. *)
Lists(contents, m, f) == f \in DOMAIN contents[m].files
Fresh(contents, m, f) ==
    Lists(contents, m, f) /\ contents[m].files[f].hash = source[f]
Sound(m, f) ==
    LET e == mfs[m].files[f]
    IN  /\ e.down = source[f]
        /\ e.packed = (source[f] \in Compressible)
        /\ e.packed => gz[f] = e.down

Described(m) ==
    /\ \A f \in Listed(m) : Readable(f) => Fresh(mfs, m, f) /\ Sound(m, f)
    /\ \A f \in DOMAIN mfs[m].files : Exists(f) \/ f \in Refs[m]

(* As long as no run was cut short and none skipped a stage, a run leaves  *)
(* every manifest listing exactly the files there are, each with the hash  *)
(* of its content and with a download that is on disk and unpacks to it    *)
(* (cache_clients with FileInfo::update, over any history of edits).       *)
UpToDate ==
    clean /\ outcome = "whole" => \A m \in Manifest : Described(m)

(* What the README promises of every run, whatever happened to earlier     *)
(* ones: "This will update existing manifests with any changes and new     *)
(* files".                                                                 *)
RunBringsUpToDate ==
    outcome = "whole" => \A m \in Processed : \A f \in Listed(m) :
                            Readable(f) => Fresh(mfs, m, f)

(* Whatever was interrupted before, a whole run leaves an entry stale only *)
(* when a manifest it read earlier was right about the file already: then  *)
(* data_cache holds that entry, not updated, and clones of it do not make  *)
(* any_updated true for the manifest that needs them.                      *)
StaleOnlyBehindFresh ==
    outcome = "whole" =>
        \A m \in Processed : \A f \in DOMAIN mfs[m].files :
            Readable(f) /\ ~Fresh(mfs, m, f) =>
                \E n \in Processed : Before(n, m) /\ Fresh(began, n, f)

(* And it leaves a file out of a manifest only for the same reason, or     *)
(* because another manifest of the stage listed it: client_files loses a   *)
(* path that any of the three manifests has.                               *)
UnlistedOnlyBehindOthers ==
    outcome = "whole" =>
        \A m \in Processed : \A f \in Listed(m) :
            Readable(f) /\ ~Lists(mfs, m, f) =>
                \E n \in Processed \ {m} :
                    \/ Before(n, m) /\ Fresh(began, n, f)
                    \/ StageOf(n) = StageOf(m) /\ Lists(began, n, f)

(* A manifest announces a secure file in the clear, or one that encrypting *)
(* it has left empty, only if a run has warned that it could not encrypt   *)
(* that very content: encrypt_file comes before every stage, also after a  *)
(* run that died in the middle of it.  And it gives a file a download of   *)
(* another content only if a run has warned that it could not compress the *)
(* one it announces: an entry is copied and cached as a whole.             *)
FlawedOnlyAfterWarning ==
    \A m \in Manifest : \A f \in DOMAIN mfs[m].files :
        LET e == mfs[m].files[f]
        IN  e.hash # Zero =>
              /\ f \in Secure /\ Cipher[e.hash] # e.hash => <<"encrypt", f, e.hash>> \in warned
              /\ e.down # e.hash => <<"compress", f, e.hash>> \in warned

=============================================================================
