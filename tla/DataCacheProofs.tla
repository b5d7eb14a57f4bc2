-------------------------- MODULE DataCacheProofs --------------------------
(***************************************************************************)
(* Proofs about mfs_tool update, for any data root and any layout of       *)
(* stages and manifests, with any number of runs, edits and failures.      *)
(***************************************************************************)
EXTENDS DataCache, SequenceTheorems, TLAPS

Source == Content \cup {Absent, Dir}
Job == [file : File, info : FileInfo, into : SUBSET Manifest, write : Content]

TypeOK ==
    /\ source \in [File -> Source]
    /\ gz \in [File -> Content \cup {Absent}]
    /\ mfs \in [Manifest -> [kind : {"missing", "torn", "ok"}, files : Entries]]
    /\ pc \in {"idle", "python", "encrypt", "rewriting", "load", "update", "compress", "writing"}
    /\ stage \in Nat \ {0}
    /\ pc \in {"update", "compress", "writing"} => stage \in DOMAIN Stages
    /\ DOMAIN mem \subseteq Manifest /\ \A m \in DOMAIN mem : mem[m] \in Entries
    /\ cache \in Entries
    /\ DOMAIN todo \subseteq Manifest /\ \A m \in DOMAIN todo : todo[m] \subseteq File
    /\ expected \subseteq File
    /\ job \in Job

(* The entries still to update are entries of manifests in memory, none    *)
(* are left when a manifest is written, and what is compressed is a file.  *)
Listing ==
    /\ \A m \in DOMAIN todo : todo[m] # {} => m \in DOMAIN mem /\ todo[m] \subseteq DOMAIN mem[m]
    /\ pc = "writing" => /\ job.into \subseteq DOMAIN mem
                         /\ \A m \in DOMAIN todo : todo[m] = {}
    /\ pc = "compress" => Readable(job.file)

(* Entries, by the files they are of.                                      *)
LEMMA EntriesAre ==
    /\ \A e \in Entries : DOMAIN e \subseteq File /\ \A f \in DOMAIN e : e[f] \in FileInfo
    /\ \A D \in SUBSET File : \A e \in [D -> FileInfo] : e \in Entries
    /\ \A e \in Entries : e \in [DOMAIN e -> FileInfo]
  BY DEF Entries

(* The values a run begins with are typed.                                 *)
LEMMA Nothing == NewInfo \in FileInfo /\ NoEntries \in Entries /\ DOMAIN NoEntries = {} /\ NoJob \in Job
  <1>1. NewInfo \in FileInfo
    BY DEF NewInfo, FileInfo
  <1>2. NoEntries \in [{} -> FileInfo] /\ DOMAIN NoEntries = {}
    BY DEF NoEntries
  <1>3. NoJob \in Job
    BY <1>1, ContentAssumption, LayoutAssumption DEF NoJob, Job
  <1> QED
    BY <1>1, <1>2, <1>3, EntriesAre

(* The manifests of a stage.                                               *)
LEMMA StageManifests ==
    ASSUME NEW s \in DOMAIN Stages
    PROVE  Members(Stages[s]) \subseteq Manifest /\ s \in Nat \ {0} /\ s <= Len(Stages)
  <1>1. DOMAIN Stages = 1..Len(Stages) /\ Len(Stages) \in Nat /\ Stages[s] \in Seq(Manifest)
    BY LayoutAssumption, LenProperties, ElementOfSeq
  <1>2. DOMAIN Stages[s] = 1..Len(Stages[s]) /\ \A i \in 1..Len(Stages[s]) : Stages[s][i] \in Manifest
    BY <1>1, LenProperties, ElementOfSeq
  <1> QED
    BY <1>1, <1>2 DEF Members

(* One entry more, or another one.                                         *)
LEMMA WithEntry ==
    ASSUME NEW e \in Entries, NEW f \in File, NEW info \in FileInfo
    PROVE  LET r == insert(e, f, info)
           IN  /\ r \in Entries
               /\ DOMAIN r = DOMAIN e \cup {f}
               /\ r[f] = info
               /\ \A g \in DOMAIN e \ {f} : r[g] = e[g]
  <1> DEFINE r == insert(e, f, info)
  <1>1. r = [g \in DOMAIN e \cup {f} |-> IF g = f THEN info ELSE e[g]]
    BY DEF insert
  <1>2. DOMAIN e \subseteq File /\ \A g \in DOMAIN e : e[g] \in FileInfo
    BY EntriesAre
  <1> HIDE DEF r
  <1>3. r \in [DOMAIN e \cup {f} -> FileInfo] /\ DOMAIN e \cup {f} \in SUBSET File
    BY <1>1, <1>2
  <1>4. r \in Entries
    BY <1>3, EntriesAre
  <1> QED
    BY <1>1, <1>4 DEF r

(* What is in a manifest, and what is stored of it, are entries.           *)
LEMMA StoredEntries ==
    ASSUME NEW e \in Entries
    PROVE  /\ Stored(e) \in Entries
           /\ DOMAIN Stored(e) \subseteq DOMAIN e
           /\ \A f \in DOMAIN Stored(e) : /\ Stored(e)[f].hash = e[f].hash
                                         /\ Stored(e)[f].down = e[f].down
  <1>1. DOMAIN e \subseteq File /\ \A f \in DOMAIN e : e[f] \in FileInfo
    BY EntriesAre
  <1> DEFINE D == {g \in DOMAIN e : ~e[g].deleted}
  <1>2. \A f \in D : [e[f] EXCEPT !.updated = FALSE] \in FileInfo
    BY <1>1 DEF FileInfo
  <1>3. \A f \in D : /\ [e[f] EXCEPT !.updated = FALSE].hash = e[f].hash
                     /\ [e[f] EXCEPT !.updated = FALSE].down = e[f].down
    BY <1>1 DEF FileInfo
  <1>4. Stored(e) = [f \in D |-> [e[f] EXCEPT !.updated = FALSE]] /\ D \in SUBSET File
    BY <1>1 DEF Stored
  <1>5. Stored(e) \in [D -> FileInfo]
    BY <1>2, <1>4
  <1> QED
    BY <1>3, <1>4, <1>5, EntriesAre

(* The types of what the tool has in memory.                               *)
ToolOK(me, ca, td, ex) ==
    /\ DOMAIN me \subseteq Manifest /\ \A m \in DOMAIN me : me[m] \in Entries
    /\ ca \in Entries
    /\ DOMAIN td \subseteq Manifest /\ \A m \in DOMAIN td : td[m] \subseteq File
    /\ ex \subseteq File

(* Settling an entry keeps them.                                           *)
LEMMA SettleTypes ==
    ASSUME TypeOK, NEW f \in File, NEW info \in FileInfo, NEW into,
           Settle(f, info, into)
    PROVE  ToolOK(mem', cache', todo', expected')
  <1>1. cache' \in Entries
    BY WithEntry DEF TypeOK, Settle
  <1>2. DOMAIN mem' = DOMAIN mem /\ \A m \in DOMAIN mem : mem'[m] \in {insert(mem[m], f, info), mem[m]}
    BY DEF Settle
  <1>3. DOMAIN mem \subseteq Manifest /\ \A m \in DOMAIN mem : mem[m] \in Entries
    BY DEF TypeOK
  <1>4. \A m \in DOMAIN mem : insert(mem[m], f, info) \in Entries
    BY <1>3, WithEntry
  <1>5. DOMAIN todo' \subseteq Manifest /\ \A m \in DOMAIN todo' : todo'[m] \subseteq File
    BY DEF Settle, TypeOK
  <1>6. expected' \subseteq File
    BY DEF Settle, TypeOK
  <1> QED
    BY <1>1, <1>2, <1>3, <1>4, <1>5, <1>6 DEF ToolOK

(* An entry that is marked as deleted, gets a hash or has been compressed  *)
(* is an entry.                                                            *)
LEMMA InfoTypes ==
    ASSUME NEW info \in FileInfo
    PROVE  /\ MarkDeleted(info) \in FileInfo
           /\ MarkDeleted(info).hash = info.hash /\ MarkDeleted(info).down = info.down
           /\ \A c \in Content : /\ [info EXCEPT !.hash = c] \in FileInfo
                                 /\ [info EXCEPT !.hash = c].hash = c
                                 /\ Compressed(info, c) \in FileInfo
                                 /\ Compressed(info, c).hash = info.hash
                                 /\ Compressed(info, c).down = c
  <1>1. /\ MarkDeleted(info) \in FileInfo
        /\ MarkDeleted(info).hash = info.hash /\ MarkDeleted(info).down = info.down
    BY DEF FileInfo, MarkDeleted
  <1>2. ASSUME NEW c \in Content
        PROVE  [info EXCEPT !.hash = c] \in FileInfo /\ [info EXCEPT !.hash = c].hash = c
    BY DEF FileInfo
  <1>3. ASSUME NEW c \in Content
        PROVE  /\ Compressed(info, c) \in FileInfo
               /\ Compressed(info, c).hash = info.hash /\ Compressed(info, c).down = c
    <2>1. (c \in Compressible) \in BOOLEAN
      OBVIOUS
    <2> DEFINE p == c \in Compressible
    <2> HIDE DEF p
    <2>2. p \in BOOLEAN /\ Compressed(info, c) = [info EXCEPT !.down = c, !.packed = p, !.updated = TRUE]
      BY <2>1 DEF p, Compressed
    <2> QED
      BY <2>2 DEF FileInfo
  <1> QED
    BY <1>1, <1>2, <1>3

(* What Update(f, info, ...) does to the entry it is given: f is rewritten *)
(* with a hash from the disk, or info or notFound is settled.              *)
Job0(f, info, into) == [NoJob EXCEPT !.file = f, !.into = into, !.info = info]
Recompress(f, info, into) ==
    /\ Readable(f) /\ source[f] # info.hash
    /\ gz' = [gz EXCEPT ![f] = Torn]
    /\ job' = Job0(f, [info EXCEPT !.hash = source[f]], into)
    /\ pc' = "compress"
    /\ UNCHANGED <<source, mfs, stage, mem, cache, todo, expected, hist>>
Kept(f, info, into) ==
    Settle(f, info, into) /\ UNCHANGED <<disk, pc, stage, job, hist>>

(* Update leaves the file to Compress, or settles it at once with the      *)
(* entry the code chose.                                                   *)
LEMMA UpdateCases ==
    ASSUME TypeOK, NEW f \in File, NEW info \in FileInfo, NEW notFound \in FileInfo,
           NEW into \in SUBSET Manifest, Update(f, info, notFound, into)
    PROVE  \/ Recompress(f, info, into)
           \/ \E x \in {info, notFound} :
                /\ ~(Readable(f) /\ source[f] # info.hash)
                /\ x = IF Exists(f) THEN info ELSE notFound
                /\ Kept(f, x, into)
  <1>1. CASE Readable(f) /\ source[f] # info.hash
    BY <1>1, Zenon DEF Update, Job0, Recompress
  <1>2. CASE ~(Readable(f) /\ source[f] # info.hash)
    <2>1. CASE Exists(f)
      <3>1. Kept(f, info, into)
        BY <1>2, <2>1 DEF Update, Settle, Kept
      <3> QED
        BY <1>2, <2>1, <3>1
    <2>2. CASE ~Exists(f)
      <3>1. Kept(f, notFound, into)
        BY <1>2, <2>2 DEF Update, Settle, Kept
      <3> QED
        BY <1>2, <2>2, <3>1
    <2> QED
      BY <2>1, <2>2
  <1> QED
    BY <1>1, <1>2

(* Where a settled entry goes: to the manifest whose turn it is, or to all *)
(* that want a file none of them has.                                      *)
Place(f, into) ==
    \/ \E m \in DOMAIN mem : into = {m} /\ Turn(m) /\ f \in todo[m]
    \/ /\ into = {m \in Members(Here) : f \in Listed(m)}
       /\ f \in expected /\ \A m \in DOMAIN todo : todo[m] = {}

(* What is settled of a file the run meets for the first time: the entry   *)
(* of the manifest whose turn it is, or a new one.                         *)
FirstMet(f, info, notFound, into) ==
    \/ /\ info = NewInfo /\ notFound = NewInfo
       /\ f \in expected /\ \A m \in DOMAIN todo : todo[m] = {}
    \/ \E m \in DOMAIN mem : /\ into = {m} /\ f \in todo[m] /\ f \in DOMAIN mem[m]
                              /\ info = mem[m][f] /\ notFound = MarkDeleted(info)

EntryStep(f, into) ==
    \/ /\ f \in DOMAIN cache
       /\ \E info \in FileInfo : info = cache[f] /\ Kept(f, info, into)
    \/ /\ f \notin DOMAIN cache
       /\ \E info, notFound \in FileInfo :
            /\ Update(f, info, notFound, into)
            /\ info.hash = notFound.hash /\ info.down = notFound.down
            /\ FirstMet(f, info, notFound, into)

(* A step of the update loop settles the cached entry, or updates the      *)
(* entry of a manifest in memory or a new one.                             *)
LEMMA EntrySteps ==
    ASSUME TypeOK, Listing, NEW f \in File,
           CreateCacheFile(f) \/ \E m \in Manifest : UpdateCacheFile(m, f)
    PROVE  pc = "update" /\ \E into \in SUBSET Manifest : Place(f, into) /\ EntryStep(f, into)
  <1>1. \A g \in DOMAIN cache : cache[g] \in FileInfo
    BY EntriesAre DEF TypeOK
  <1>2. CASE CreateCacheFile(f)
    <2> DEFINE into == {m \in Members(Here) : f \in Listed(m)}
    <2>1. /\ pc = "update" /\ stage \in DOMAIN Stages
          /\ f \in expected /\ \A m \in DOMAIN todo : todo[m] = {}
      BY <1>2 DEF CreateCacheFile, TypeOK
    <2>2. into \in SUBSET Manifest
      BY <2>1, StageManifests DEF Here
    <2>3. PICK t \in SUBSET Manifest : t = into
      BY <2>2
    <2>4. Place(f, t)
      BY <2>1, <2>3 DEF Place
    <2>5. CASE f \in DOMAIN cache
      <3>1. PICK x \in FileInfo : x = cache[f]
        BY <1>1, <2>5
      <3>2. Kept(f, x, t)
        BY <1>2, <2>3, <2>5, <3>1 DEF CreateCacheFile, Settle, Kept
      <3> QED
        BY <2>1, <2>4, <2>5, <3>1, <3>2 DEF EntryStep
    <2>6. CASE f \notin DOMAIN cache
      <3>1. Update(f, NewInfo, NewInfo, t)
        BY <1>2, <2>3, <2>6, Zenon DEF CreateCacheFile, Update, Settle
      <3>2. FirstMet(f, NewInfo, NewInfo, t)
        BY <2>1 DEF FirstMet
      <3> QED
        BY <2>1, <2>4, <2>6, <3>1, <3>2, Nothing DEF EntryStep
    <2> QED
      BY <2>5, <2>6
  <1>3. ASSUME NEW m \in Manifest, UpdateCacheFile(m, f)
        PROVE  pc = "update" /\ Place(f, {m}) /\ EntryStep(f, {m})
    <2>1. pc = "update" /\ Turn(m) /\ m \in DOMAIN todo /\ f \in todo[m]
      BY <1>3 DEF UpdateCacheFile, Turn
    <2>2. m \in DOMAIN mem /\ f \in DOMAIN mem[m] /\ mem[m][f] \in FileInfo
      BY <2>1, EntriesAre DEF Listing, TypeOK
    <2>3. Place(f, {m})
      BY <2>1, <2>2 DEF Place
    <2>4. CASE f \in DOMAIN cache
      <3>1. PICK x \in FileInfo : x = cache[f]
        BY <1>1, <2>4
      <3>2. Kept(f, x, {m})
        BY <1>3, <2>4, <3>1 DEF UpdateCacheFile, Settle, Kept
      <3> QED
        BY <2>1, <2>3, <2>4, <3>1, <3>2 DEF EntryStep
    <2>5. CASE f \notin DOMAIN cache
      <3>1. PICK x \in FileInfo : x = mem[m][f]
        BY <2>2
      <3>2. PICK y \in FileInfo : y = MarkDeleted(x) /\ y.hash = x.hash /\ y.down = x.down
        BY InfoTypes
      <3>3. Update(f, x, y, {m})
        BY <1>3, <2>5, <3>1, <3>2, Zenon DEF UpdateCacheFile, Update, Settle
      <3>4. FirstMet(f, x, y, {m})
        BY <2>1, <2>2, <3>1, <3>2 DEF FirstMet
      <3> QED
        BY <2>1, <2>3, <2>5, <3>2, <3>3, <3>4 DEF EntryStep
    <2> QED
      BY <2>4, <2>5
  <1> QED
    BY <1>2, <1>3

(* The tool's state between runs is typed.                                 *)
LEMMA Emptied ==
    ASSUME NEW how, Stop(how)
    PROVE  /\ pc' = "idle" /\ stage' = 1 /\ ToolOK(mem', cache', todo', expected') /\ job' \in Job
           /\ DOMAIN mem' = {} /\ DOMAIN todo' = {} /\ cache' = NoEntries
  BY Nothing DEF Stop, ToolOK

(* The first state is typed.                                               *)
LEMMA InitTypeOK == Init => TypeOK /\ Listing
  <1> SUFFICES ASSUME Init PROVE TypeOK /\ Listing
    OBVIOUS
  <1>1. Missing \in [kind : {"missing", "torn", "ok"}, files : Entries]
    BY Nothing DEF Missing
  <1>2. mfs \in [Manifest -> [kind : {"missing", "torn", "ok"}, files : Entries]]
    BY <1>1 DEF Init
  <1>3. source \in [File -> Source] /\ gz \in [File -> Content \cup {Absent}]
    BY LayoutAssumption DEF Init, Source
  <1>4. DOMAIN mem = {} /\ DOMAIN todo = {} /\ cache \in Entries /\ job \in Job
    BY Nothing DEF Init
  <1> QED
    BY <1>2, <1>3, <1>4 DEF Init, TypeOK, Listing

(* A job is to rewrite or compress a file, or to write a manifest.         *)
LEMMA JobTypes ==
    /\ \A f \in File, c \in Content : [NoJob EXCEPT !.file = f, !.write = c] \in Job
    /\ \A c \in Content : [NoJob EXCEPT !.write = c] \in Job
    /\ \A f \in File, info \in FileInfo, into \in SUBSET Manifest :
         /\ Job0(f, info, into) \in Job
         /\ Job0(f, info, into).file = f
         /\ Job0(f, info, into).info = info
         /\ Job0(f, info, into).into = into
    /\ \A m \in Manifest : /\ [NoJob EXCEPT !.into = {m}] \in Job
                            /\ [NoJob EXCEPT !.into = {m}].into = {m}
  BY Nothing DEF Job, Job0

(* The job Update leaves for Compress.                                     *)
LEMMA JobOf ==
    ASSUME NEW f \in File, NEW info \in FileInfo, NEW into \in SUBSET Manifest
    PROVE  /\ Job0(f, info, into).file = f
           /\ Job0(f, info, into).info = info
           /\ Job0(f, info, into).into = into
  BY Nothing DEF Job, Job0

(* The job of a file that is being rewritten.                              *)
LEMMA RewriteJob ==
    ASSUME NEW f \in File, NEW c \in Content
    PROVE  /\ [NoJob EXCEPT !.file = f, !.write = c].file = f
           /\ [NoJob EXCEPT !.file = f, !.write = c].write = c
           /\ [NoJob EXCEPT !.write = c].file = Pak
  BY Nothing DEF Job, NoJob

(* Every step keeps the types.                                             *)
LEMMA NextTypeOK == TypeOK /\ Listing /\ [Next]_vars => TypeOK'
  <1> SUFFICES ASSUME TypeOK, Listing, [Next]_vars PROVE TypeOK'
    OBVIOUS
  <1> USE ContentAssumption DEF Source
  <1> DEFINE Mfs == [kind : {"missing", "torn", "ok"}, files : Entries]
  <1>0. /\ \A m \in DOMAIN mem : mem[m] \in Entries
        /\ \A m \in Manifest : mfs[m].files \in Entries /\ DOMAIN mfs[m].files \subseteq File
        /\ TornMfs \in Mfs
        /\ \A e \in Entries : [kind |-> "ok", files |-> e] \in Mfs
    BY EntriesAre, Nothing DEF TypeOK, TornMfs
  <1>s. stage \in Nat \ {0} /\ DOMAIN Stages = 1..Len(Stages) /\ Len(Stages) \in Nat
    BY LayoutAssumption, LenProperties DEF TypeOK
  <1>1. CASE UNCHANGED vars
    BY <1>1 DEF vars, disk, tool, hist, TypeOK
  <1>2. CASE Start
    BY <1>2, Nothing, LayoutAssumption DEF Start, disk, TypeOK
  <1>3. CASE BuildPak
    <2>1. CASE UNCHANGED <<source, job>> /\ pc' = "encrypt"
      BY <1>3, <2>1 DEF BuildPak, TypeOK
    <2>2. ASSUME NEW c \in Edits[Pak] \cap Content,
                 source' = [source EXCEPT ![Pak] = Torn],
                 job' = [NoJob EXCEPT !.write = c], pc' = "rewriting"
          PROVE  TypeOK'
      <3>1. source' \in [File -> Source] /\ job' \in Job
        BY <2>2, JobTypes, LayoutAssumption DEF TypeOK
      <3> QED
        BY <1>3, <2>2, <3>1 DEF BuildPak, TypeOK
    <2> QED
      BY <1>3, <2>1, <2>2 DEF BuildPak
  <1>4. CASE Rewritten
    <2>1. source' \in [File -> Source] /\ job' \in Job
      BY <1>4, Nothing DEF Rewritten, TypeOK, Job
    <2> QED
      BY <1>4, <2>1 DEF Rewritten, TypeOK
  <1>5. CASE RewriteFails
    BY <1>5, Nothing DEF RewriteFails, disk, TypeOK
  <1>6. CASE Encrypted
    BY <1>6 DEF Encrypted, disk, tool, TypeOK
  <1>7. CASE Skip
    BY <1>7, <1>s DEF Skip, disk, TypeOK
  <1>8. CASE Load
    <2>1. stage \in DOMAIN Stages /\ Members(Here) \subseteq Manifest
      BY <1>8, <1>s, StageManifests DEF Load, Here
    <2>2. DOMAIN mem' = Members(Here) /\ \A m \in Members(Here) : mem'[m] = mfs[m].files
      BY <1>8 DEF Load
    <2>3. DOMAIN todo' = Members(Here) /\ \A m \in Members(Here) : todo'[m] = DOMAIN mfs[m].files
      BY <1>8 DEF Load
    <2>4. expected' \subseteq File
      BY <1>8, <2>1, LayoutAssumption DEF Load, Listed
    <2>5. UNCHANGED <<source, gz, mfs, stage, cache, job>> /\ pc' = "update"
      BY <1>8 DEF Load, disk
    <2> QED
      BY <1>0, <2>1, <2>2, <2>3, <2>4, <2>5 DEF TypeOK
  <1>9. CASE LoadFails \/ Finish \/ Crash
    <2>1. PICK how : Stop(how)
      BY <1>9, Zenon DEF LoadFails, Finish, Crash
    <2>2. UNCHANGED disk
      BY <1>9 DEF LoadFails, Finish, Crash
    <2> QED
      BY <2>1, <2>2, Emptied DEF disk, ToolOK, TypeOK
  <1>10. CASE Compress
    <2>1. PICK f \in File, t \in SUBSET Manifest, i \in FileInfo, c \in Source :
            f = job.file /\ t = job.into /\ i = job.info /\ c = source[f]
      BY DEF TypeOK, Job
    <2>2. PICK x \in FileInfo : x = Compressed(i, c)
      <3>1. c \in Content
        BY <1>10, <2>1 DEF Compress, Listing, Readable
      <3> QED
        BY <3>1, InfoTypes
    <2>3. Settle(f, x, t) /\ job' = NoJob /\ pc' = "update" /\ UNCHANGED <<source, mfs, stage>>
      BY <1>10, <2>1, <2>2 DEF Compress, Settle
    <2>4. gz' \in [File -> Content \cup {Absent}]
      BY <1>10, <2>1 DEF Compress, TypeOK
    <2>5. pc = "compress"
      BY <1>10 DEF Compress
    <2> QED
      BY <2>3, <2>4, <2>5, SettleTypes, Nothing DEF ToolOK, TypeOK
  <1>11. CASE CompressFails
    <2>1. PICK f \in File, t \in SUBSET Manifest, i \in FileInfo :
            f = job.file /\ t = job.into /\ i = job.info
      BY DEF TypeOK, Job
    <2>3. Settle(f, i, t) /\ job' = NoJob /\ pc' = "update" /\ UNCHANGED <<source, gz, mfs, stage>>
      BY <1>11, <2>1 DEF CompressFails, Settle, disk
    <2>5. pc = "compress"
      BY <1>11 DEF CompressFails
    <2> QED
      BY <2>3, <2>5, SettleTypes, Nothing DEF ToolOK, TypeOK
  <1>12. CASE StageDone
    BY <1>12, <1>s DEF StageDone, disk, TypeOK
  <1>13. ASSUME NEW f \in File, Edit(f) PROVE TypeOK'
    <2>0. Edits[f] \subseteq Source
      BY LayoutAssumption
    <2>1. source' \in [File -> Source]
      BY <1>13, <2>0 DEF Edit, TypeOK
    <2> QED
      BY <1>13, <2>1 DEF Edit, tool, TypeOK
  <1>14. ASSUME NEW f \in File, Encrypt(f) PROVE TypeOK'
    <2>1. source' \in [File -> Source]
      BY <1>14 DEF Encrypt, TypeOK
    <2>2. f \in Encryptable => Cipher[source[f]] \in Content
      BY DEF Encryptable, Readable
    <2>3. job' \in Job
      <3>1. CASE f \in Encryptable
        <4>1. PICK c \in Content : c = Cipher[source[f]]
          BY <2>2, <3>1
        <4>2. job' = [NoJob EXCEPT !.file = f, !.write = c]
          BY <1>14, <3>1, <4>1 DEF Encrypt
        <4> QED
          BY <4>2, JobTypes
      <3>2. CASE f \notin Encryptable
        BY <1>14, <3>2 DEF Encrypt, TypeOK
      <3> QED
        BY <3>1, <3>2
    <2>4. pc' \in {"encrypt", "rewriting"} /\ expected' \subseteq File
      BY <1>14 DEF Encrypt, TypeOK
    <2> QED
      BY <1>14, <2>1, <2>3, <2>4 DEF Encrypt, TypeOK
  <1>18. ASSUME NEW f \in File, EncryptFails(f) PROVE TypeOK'
    BY <1>18 DEF EncryptFails, disk, TypeOK
  <1>15. ASSUME NEW f \in File, CreateCacheFile(f) \/ \E m \in Manifest : UpdateCacheFile(m, f)
         PROVE  TypeOK'
    <2>1. pc = "update"
      BY <1>15, EntrySteps
    <2>2. PICK into \in SUBSET Manifest : EntryStep(f, into)
      BY <1>15, EntrySteps
    <2>3. ASSUME NEW info \in FileInfo, Kept(f, info, into) PROVE TypeOK'
      BY <2>1, <2>3, SettleTypes DEF Kept, ToolOK, TypeOK, disk
    <2>4. ASSUME NEW info \in FileInfo, Recompress(f, info, into) PROVE TypeOK'
      <3>1. job' \in Job /\ gz' \in [File -> Content \cup {Absent}]
        BY <2>4, InfoTypes, JobTypes DEF Recompress, Readable, TypeOK
      <3> QED
        BY <2>1, <2>4, <3>1 DEF Recompress, TypeOK
    <2>5. ASSUME NEW info \in FileInfo, NEW notFound \in FileInfo, Update(f, info, notFound, into)
          PROVE  TypeOK'
      BY <2>3, <2>4, <2>5, UpdateCases
    <2> QED
      BY <2>2, <2>3, <2>5 DEF EntryStep
  <1>16. ASSUME NEW m \in Manifest, WriteOpen(m) PROVE TypeOK'
    <2>1. mfs' \in [Manifest -> Mfs] /\ job' \in Job
      BY <1>16, <1>0, JobTypes DEF WriteOpen, TypeOK
    <2> QED
      BY <1>16, <2>1 DEF WriteOpen, TypeOK
  <1>17. ASSUME NEW m \in Manifest, WriteEnd(m) PROVE TypeOK'
    <2>1. m \in DOMAIN mem
      BY <1>17 DEF WriteEnd, Listing
    <2>2. mfs' \in [Manifest -> Mfs] /\ job' \in Job
      BY <1>17, <1>0, <2>1, StoredEntries, Nothing DEF WriteEnd, TypeOK
    <2> QED
      BY <1>17, <1>0, <2>2 DEF WriteEnd, TypeOK
  <1> QED
    BY <1>1, <1>2, <1>3, <1>4, <1>5, <1>6, <1>7, <1>8, <1>9, <1>10, <1>11, <1>12, <1>13,
       <1>14, <1>15, <1>16, <1>17, <1>18 DEF Next

(* Settling keeps the entries to update among those in memory.             *)
LEMMA SettleListing ==
    ASSUME TypeOK, Listing, NEW f \in File, NEW info \in FileInfo, NEW into,
           Settle(f, info, into)
    PROVE  \A m \in DOMAIN todo' :
             todo'[m] # {} => m \in DOMAIN mem' /\ todo'[m] \subseteq DOMAIN mem'[m]
  <1> SUFFICES ASSUME NEW m \in DOMAIN todo', todo'[m] # {}
               PROVE  m \in DOMAIN mem' /\ todo'[m] \subseteq DOMAIN mem'[m]
    OBVIOUS
  <1>1. m \in DOMAIN todo /\ todo'[m] \subseteq todo[m]
    BY DEF Settle
  <1>2. m \in DOMAIN mem /\ todo[m] \subseteq DOMAIN mem[m] /\ mem[m] \in Entries
    BY <1>1 DEF Listing, TypeOK
  <1>3. m \in DOMAIN mem' /\ mem'[m] \in {mem[m], insert(mem[m], f, info)}
    BY <1>2 DEF Settle
  <1>4. DOMAIN insert(mem[m], f, info) = DOMAIN mem[m] \cup {f}
    BY DEF insert
  <1> QED
    BY <1>1, <1>2, <1>3, <1>4

(* Every step keeps Listing.                                               *)
LEMMA NextListing == TypeOK /\ Listing /\ [Next]_vars => Listing'
  <1> SUFFICES ASSUME TypeOK, Listing, [Next]_vars PROVE Listing'
    OBVIOUS
  <1>s. stage \in Nat \ {0} /\ DOMAIN Stages = 1..Len(Stages) /\ Len(Stages) \in Nat
    BY LayoutAssumption, LenProperties DEF TypeOK
  <1>1. CASE UNCHANGED vars
    BY <1>1 DEF vars, disk, tool, hist, Listing, Readable
  <1>2. CASE Start
    BY <1>2 DEF Start, Listing
  <1>3. CASE BuildPak
    <2>1. pc' \in {"encrypt", "rewriting"} /\ UNCHANGED <<mem, todo>>
      BY <1>3 DEF BuildPak
    <2> QED
      BY <2>1 DEF Listing
  <1>4. CASE Rewritten
    BY <1>4 DEF Rewritten, Listing
  <1>5. CASE RewriteFails
    BY <1>5 DEF RewriteFails, Listing
  <1>6. CASE Encrypted
    BY <1>6 DEF Encrypted, tool, Listing
  <1>7. CASE Skip
    BY <1>7 DEF Skip, Listing
  <1>8. CASE Load
    BY <1>8 DEF Load, Listing
  <1>9. CASE LoadFails \/ Finish \/ Crash
    <2>1. PICK how : Stop(how)
      BY <1>9, Zenon DEF LoadFails, Finish, Crash
    <2> QED
      BY <2>1, Emptied DEF Listing
  <1>10. CASE Compress
    <2>1. PICK f \in File, t \in SUBSET Manifest, i \in FileInfo, c \in Content :
            f = job.file /\ t = job.into /\ i = job.info /\ c = source[f]
      BY <1>10 DEF TypeOK, Job, Compress, Listing, Readable
    <2>2. PICK x \in FileInfo : x = Compressed(i, c)
      BY InfoTypes
    <2>3. Settle(f, x, t) /\ pc' = "update"
      BY <1>10, <2>1, <2>2 DEF Compress, Settle
    <2> QED
      BY <2>3, SettleListing DEF Listing
  <1>11. CASE CompressFails
    <2>1. PICK f \in File, t \in SUBSET Manifest, i \in FileInfo :
            f = job.file /\ t = job.into /\ i = job.info
      BY DEF TypeOK, Job
    <2>3. Settle(f, i, t) /\ pc' = "update"
      BY <1>11, <2>1 DEF CompressFails, Settle
    <2> QED
      BY <2>3, SettleListing DEF Listing
  <1>12. CASE StageDone
    BY <1>12 DEF StageDone, Listing
  <1>13. ASSUME NEW f \in File, Edit(f) PROVE Listing'
    BY <1>13 DEF Edit, tool, Listing
  <1>14. ASSUME NEW f \in File, Encrypt(f) PROVE Listing'
    <2>1. pc' \in {"encrypt", "rewriting"} /\ UNCHANGED <<mem, todo>>
      BY <1>14 DEF Encrypt
    <2> QED
      BY <2>1 DEF Listing
  <1>18. ASSUME NEW f \in File, EncryptFails(f) PROVE Listing'
    BY <1>18 DEF EncryptFails, Listing
  <1>15. ASSUME NEW f \in File, CreateCacheFile(f) \/ \E m \in Manifest : UpdateCacheFile(m, f)
         PROVE  Listing'
    <2>1. pc = "update"
      BY <1>15, EntrySteps
    <2>2. PICK into \in SUBSET Manifest : EntryStep(f, into)
      BY <1>15, EntrySteps
    <2>3. ASSUME NEW info \in FileInfo, Kept(f, info, into) PROVE Listing'
      BY <2>1, <2>3, SettleListing DEF Kept, Listing
    <2>4. ASSUME NEW info \in FileInfo, Recompress(f, info, into) PROVE Listing'
      <3>1. PICK x \in FileInfo : x = [info EXCEPT !.hash = source[f]]
        BY <2>4, InfoTypes DEF Recompress, Readable
      <3>2. job' = Job0(f, x, into)
        BY <2>4, <3>1 DEF Recompress
      <3>3. job'.file = f
        BY <3>2, JobOf
      <3> QED
        BY <2>1, <2>4, <3>3 DEF Recompress, Listing, Readable
    <2>5. ASSUME NEW info \in FileInfo, NEW notFound \in FileInfo, Update(f, info, notFound, into)
          PROVE  Listing'
      BY <2>3, <2>4, <2>5, UpdateCases
    <2> QED
      BY <2>2, <2>3, <2>5 DEF EntryStep
  <1>16. ASSUME NEW m \in Manifest, WriteOpen(m) PROVE Listing'
    <2>1. job'.into = {m} /\ pc' = "writing" /\ UNCHANGED <<mem, todo>>
      BY <1>16, JobTypes DEF WriteOpen
    <2>2. m \in DOMAIN mem /\ \A n \in DOMAIN todo : todo[n] = {}
      BY <1>16 DEF WriteOpen, Unwritten
    <2> QED
      BY <2>1, <2>2 DEF Listing
  <1>17. ASSUME NEW m \in Manifest, WriteEnd(m) PROVE Listing'
    BY <1>17 DEF WriteEnd, Listing
  <1> QED
    BY <1>1, <1>2, <1>3, <1>4, <1>5, <1>6, <1>7, <1>8, <1>9, <1>10, <1>11, <1>12, <1>13,
       <1>14, <1>15, <1>16, <1>17, <1>18 DEF Next

(* Types hold in every behaviour of the tool.                              *)
LEMMA Typed == Spec => [](TypeOK /\ Listing)
  <1>1. TypeOK /\ Listing /\ [Next]_vars => (TypeOK /\ Listing)'
    BY NextTypeOK, NextListing
  <1> QED
    BY <1>1, InitTypeOK, PTL DEF Spec

-----------------------------------------------------------------------------
(* No flaw in a manifest without a warning.  By the time the first one is  *)
(* loaded every secure file was visited: what is not encrypted then is in  *)
(* warned as it is on disk, and no file changes until the run ends; the    *)
(* hashes the run does not take from the disk it found in the manifests of *)
(* earlier runs.  While the files are visited, those in the clear are      *)
(* still to come, or are being rewritten, or have their warning.  A        *)
(* download is that of the file unless compressing it has failed.          *)
Excused(w, f, e) ==
    e.hash # Zero =>
        /\ f \in Secure => Cipher[e.hash] = e.hash \/ <<"encrypt", f, e.hash>> \in w
        /\ e.down = e.hash \/ <<"compress", f, e.hash>> \in w
ExcusedAll(w, entries) == \A f \in DOMAIN entries : Excused(w, f, entries[f])
Unwarned == {f \in Encryptable : <<"encrypt", f, source[f]>> \notin warned}

WarnedInv ==
    /\ \A m \in Manifest : ExcusedAll(warned, mfs[m].files)
    /\ \A m \in DOMAIN mem : ExcusedAll(warned, mem[m])
    /\ ExcusedAll(warned, cache)
    /\ pc = "compress" => job.info.hash = source[job.file]
    /\ pc \in {"python", "encrypt"} => Unwarned \subseteq expected
    /\ pc = "rewriting" =>
         /\ Unwarned \subseteq expected \cup {job.file}
         /\ source[job.file] = Torn
         /\ job.file \in Secure => Cipher[job.write] = job.write
    /\ pc \in {"load", "update", "compress", "writing"} => Unwarned = {}

(* Which files are unwarned depends on the files and the warnings.         *)
LEMMA SameUnwarned == UNCHANGED <<source, warned>> => Unwarned' = Unwarned
  BY DEF Unwarned, Encryptable, Readable

(* A warning more excuses as much.                                         *)
LEMMA MoreWarned ==
    ASSUME WarnedInv, NEW w, warned \subseteq w
    PROVE  /\ \A m \in Manifest : ExcusedAll(w, mfs[m].files)
           /\ \A m \in DOMAIN mem : ExcusedAll(w, mem[m])
           /\ ExcusedAll(w, cache)
  <1>1. \A e : ExcusedAll(warned, e) => ExcusedAll(w, e)
    BY DEF ExcusedAll, Excused
  <1> QED
    BY <1>1 DEF WarnedInv

(* Settling an entry that is excused.                                      *)
LEMMA SettleExcused ==
    ASSUME TypeOK, WarnedInv, NEW f \in File, NEW info \in FileInfo, NEW into,
           Settle(f, info, into), NEW w, warned \subseteq w, Excused(w, f, info)
    PROVE  ExcusedAll(w, cache') /\ \A m \in DOMAIN mem' : ExcusedAll(w, mem'[m])
  <1>1. ASSUME NEW e \in Entries, ExcusedAll(w, e) PROVE ExcusedAll(w, insert(e, f, info))
    <2> DEFINE r == insert(e, f, info)
    <2>1. DOMAIN r = DOMAIN e \cup {f} /\ r[f] = info /\ \A g \in DOMAIN e \ {f} : r[g] = e[g]
      BY WithEntry
    <2> HIDE DEF r
    <2>2. ASSUME NEW g \in DOMAIN r PROVE Excused(w, g, r[g])
      BY <1>1, <2>1, <2>2 DEF ExcusedAll
    <2> QED
      BY <2>2 DEF ExcusedAll, r
  <1>2. ExcusedAll(w, cache')
    BY <1>1, MoreWarned DEF Settle, TypeOK
  <1>3. ASSUME NEW m \in DOMAIN mem' PROVE ExcusedAll(w, mem'[m])
    <2>1. m \in DOMAIN mem /\ mem'[m] \in {mem[m], insert(mem[m], f, info)}
      BY <1>3 DEF Settle
    <2>2. mem[m] \in Entries /\ ExcusedAll(w, mem[m])
      BY <2>1, MoreWarned DEF TypeOK
    <2> QED
      BY <1>1, <2>1, <2>2
  <1> QED
    BY <1>2, <1>3

(* There are no entries and no compressed files at first.                  *)
LEMMA InitWarned == Init => WarnedInv
  <1> SUFFICES ASSUME Init PROVE WarnedInv
    OBVIOUS
  <1>1. ExcusedAll(warned, NoEntries)
    BY Nothing DEF ExcusedAll
  <1>2. \A m \in Manifest : mfs[m].files = NoEntries
    BY DEF Init, Missing
  <1> QED
    BY <1>1, <1>2 DEF Init, WarnedInv

(* Every step keeps what is listed without a flaw, or warned of.           *)
LEMMA NextWarned == TypeOK /\ Listing /\ WarnedInv /\ [Next]_vars => WarnedInv'
  <1> SUFFICES ASSUME TypeOK, Listing, WarnedInv, [Next]_vars PROVE WarnedInv'
    OBVIOUS
  <1>0. ExcusedAll(warned, NoEntries) /\ ExcusedAll(warned', NoEntries)
    BY Nothing DEF ExcusedAll
  <1>1. CASE UNCHANGED vars
    BY <1>1, SameUnwarned DEF vars, disk, tool, hist, WarnedInv
  <1>2. CASE Start
    <2>1. Unwarned' \subseteq expected' /\ pc' = "python"
      BY <1>2 DEF Start, disk, Unwarned, Encryptable, Readable
    <2> QED
      BY <1>0, <1>2, <2>1 DEF Start, disk, WarnedInv
  <1>3. CASE BuildPak
    <2>0. UNCHANGED <<mfs, mem, cache, expected, warned>> /\ pc = "python"
      BY <1>3 DEF BuildPak, hist
    <2>1. CASE UNCHANGED <<source, job>> /\ pc' = "encrypt"
      BY <2>0, <2>1, SameUnwarned DEF WarnedInv
    <2>2. ASSUME NEW c \in Edits[Pak] \cap Content,
                 source' = [source EXCEPT ![Pak] = Torn],
                 job' = [NoJob EXCEPT !.write = c], pc' = "rewriting"
          PROVE  WarnedInv'
      <3>1. job'.file = Pak /\ Pak \in File \ Secure
        BY <2>2, RewriteJob, LayoutAssumption
      <3>2. source'[Pak] = Torn /\ \A f \in Secure : source'[f] = source[f]
        BY <2>2, <3>1, LayoutAssumption DEF TypeOK
      <3>3. Unwarned' = Unwarned
        BY <2>0, <3>2 DEF Unwarned, Encryptable, Readable
      <3> QED
        BY <2>0, <2>2, <3>1, <3>2, <3>3 DEF WarnedInv
    <2> QED
      BY <1>3, <2>1, <2>2 DEF BuildPak
  <1>4. CASE Rewritten
    <2>0. UNCHANGED <<mfs, mem, cache, expected, warned>> /\ pc = "rewriting" /\ pc' = "encrypt"
      BY <1>4 DEF Rewritten, hist
    <2>1. /\ source'[job.file] = job.write
          /\ \A f \in File : f # job.file => source'[f] = source[f]
      BY <1>4 DEF Rewritten, TypeOK, Job
    <2>2. ASSUME NEW f \in Unwarned' PROVE f \in expected
      <3>1. f \in Secure /\ f \in File /\ Cipher[source'[f]] # source'[f]
        BY LayoutAssumption DEF Unwarned, Encryptable
      <3>2. f # job.file
        BY <2>0, <2>1, <3>1 DEF WarnedInv
      <3>3. f \in Unwarned
        BY <2>0, <2>1, <3>1, <3>2 DEF Unwarned, Encryptable, Readable
      <3> QED
        BY <2>0, <3>2, <3>3 DEF WarnedInv
    <2> QED
      BY <2>0, <2>2 DEF WarnedInv
  <1>5. CASE RewriteFails
    <2>0. /\ UNCHANGED <<source, mfs, mem, cache, expected>>
          /\ pc = "rewriting" /\ pc' = "encrypt"
          /\ warned' = warned \cup {<<"encrypt", job.file, Torn>>}
      BY <1>5 DEF RewriteFails, disk
    <2>1. Unwarned' \subseteq Unwarned \ {job.file}
      BY <2>0 DEF WarnedInv, Unwarned, Encryptable, Readable
    <2> QED
      BY <2>0, <2>1, MoreWarned DEF WarnedInv
  <1>6. CASE Encrypted
    BY <1>6, SameUnwarned DEF Encrypted, disk, tool, hist, WarnedInv
  <1>7. CASE Skip
    BY <1>7, SameUnwarned DEF Skip, disk, WarnedInv
  <1>8. CASE Load
    <2>1. stage \in DOMAIN Stages
      BY <1>8, LayoutAssumption, LenProperties DEF Load, TypeOK
    <2>2. Members(Here) \subseteq Manifest
      BY <2>1, StageManifests DEF Here
    <2>3. \A m \in DOMAIN mem' : m \in Manifest /\ mem'[m] = mfs[m].files
      BY <1>8, <2>2 DEF Load
    <2>4. UNCHANGED <<source, mfs, cache, warned>> /\ pc = "load" /\ pc' = "update"
      BY <1>8 DEF Load, disk, hist
    <2> QED
      BY <2>3, <2>4, SameUnwarned DEF WarnedInv
  <1>9. CASE LoadFails \/ Finish \/ Crash
    <2>1. PICK how : Stop(how)
      BY <1>9, Zenon DEF LoadFails, Finish, Crash
    <2>2. UNCHANGED disk /\ UNCHANGED warned
      BY <1>9 DEF LoadFails, Finish, Crash
    <2> QED
      BY <1>0, <2>1, <2>2, Emptied DEF disk, WarnedInv
  <1>10. CASE Compress
    <2>1. PICK f \in File, t \in SUBSET Manifest, i \in FileInfo, c \in Content :
            f = job.file /\ t = job.into /\ i = job.info /\ c = source[f]
      BY <1>10 DEF TypeOK, Job, Compress, Listing, Readable
    <2>2. PICK x \in FileInfo : x = Compressed(i, c) /\ x.hash = i.hash /\ x.down = c
      BY InfoTypes
    <2>3. Settle(f, x, t) /\ pc = "compress" /\ pc' = "update" /\ UNCHANGED <<source, mfs, warned>>
      BY <1>10, <2>1, <2>2 DEF Compress, Settle, hist
    <2>4. Excused(warned, f, x)
      BY <2>1, <2>2, <2>3 DEF WarnedInv, Excused, Unwarned, Encryptable, Readable
    <2> QED
      BY <2>3, <2>4, SettleExcused, SameUnwarned DEF WarnedInv
  <1>11. CASE CompressFails
    <2>1. PICK f \in File, t \in SUBSET Manifest, i \in FileInfo :
            f = job.file /\ t = job.into /\ i = job.info
      BY DEF TypeOK, Job
    <2>3. /\ Settle(f, i, t) /\ pc = "compress" /\ pc' = "update" /\ UNCHANGED <<source, mfs>>
          /\ warned' = warned \cup {<<"compress", f, i.hash>>}
      BY <1>11, <2>1 DEF CompressFails, Settle, disk
    <2>4. i.hash = source[f] /\ Readable(f) /\ Unwarned = {}
      BY <2>1, <2>3 DEF WarnedInv, Listing
    <2>5. Excused(warned', f, i)
      BY <2>3, <2>4 DEF Excused, Unwarned, Encryptable
    <2>6. Unwarned' = {}
      BY <2>3, <2>4 DEF Unwarned, Encryptable, Readable
    <2>7. warned \subseteq warned'
      BY <2>3
    <2>8. ExcusedAll(warned', cache') /\ \A m \in DOMAIN mem' : ExcusedAll(warned', mem'[m])
      BY <2>3, <2>5, <2>7, SettleExcused
    <2> QED
      BY <2>3, <2>6, <2>7, <2>8, MoreWarned DEF WarnedInv
  <1>12. CASE StageDone
    BY <1>12, SameUnwarned DEF StageDone, disk, hist, WarnedInv
  <1>13. ASSUME NEW f \in File, Edit(f) PROVE WarnedInv'
    BY <1>13 DEF Edit, tool, WarnedInv
  <1>14. ASSUME NEW f \in File, Encrypt(f) PROVE WarnedInv'
    <2>0. /\ UNCHANGED <<mfs, mem, cache, warned>>
          /\ pc = "encrypt" /\ expected' = expected \ {f} /\ Unwarned \subseteq expected
      BY <1>14 DEF Encrypt, hist, WarnedInv
    <2>1. CASE f \notin Encryptable
      <3>1. UNCHANGED <<source, job, pc>> /\ f \notin Unwarned
        BY <1>14, <2>1 DEF Encrypt, Unwarned
      <3> QED
        BY <2>0, <3>1, SameUnwarned DEF WarnedInv
    <2>2. CASE f \in Encryptable
      <3> DEFINE c == Cipher[source[f]]
      <3>1. /\ source' = [source EXCEPT ![f] = Torn]
            /\ job' = [NoJob EXCEPT !.file = f, !.write = c]
            /\ pc' = "rewriting"
        BY <1>14, <2>2 DEF Encrypt
      <3>2. c \in Content /\ Cipher[c] = c
        BY <2>2, ContentAssumption DEF Encryptable, Readable
      <3> HIDE DEF c
      <3>3. job'.file = f /\ job'.write = c
        BY <3>1, <3>2, RewriteJob
      <3>4. source'[f] = Torn /\ \A g \in File : g # f => source'[g] = source[g]
        BY <3>1 DEF TypeOK
      <3>5. Unwarned' \subseteq Unwarned \cup {f}
        BY <2>0, <3>4, LayoutAssumption DEF Unwarned, Encryptable, Readable
      <3> QED
        BY <2>0, <3>1, <3>2, <3>3, <3>4, <3>5 DEF WarnedInv
    <2> QED
      BY <2>1, <2>2
  <1>18. ASSUME NEW f \in File, EncryptFails(f) PROVE WarnedInv'
    <2>0. /\ UNCHANGED <<source, mfs, mem, cache, pc>>
          /\ pc = "encrypt" /\ expected' = expected \ {f}
          /\ warned' = warned \cup {<<"encrypt", f, source[f]>>}
      BY <1>18 DEF EncryptFails, disk
    <2>1. Unwarned' \subseteq Unwarned \ {f}
      BY <2>0 DEF Unwarned, Encryptable, Readable
    <2> QED
      BY <2>0, <2>1, MoreWarned DEF WarnedInv
  <1>15. ASSUME NEW f \in File, CreateCacheFile(f) \/ \E m \in Manifest : UpdateCacheFile(m, f)
         PROVE  WarnedInv'
    <2>1. pc = "update" /\ Unwarned = {}
      BY <1>15, EntrySteps DEF WarnedInv
    <2>2. PICK into \in SUBSET Manifest : EntryStep(f, into)
      BY <1>15, EntrySteps
    <2>3. ASSUME NEW info \in FileInfo, Kept(f, info, into), Excused(warned, f, info)
          PROVE  WarnedInv'
      <3>1. Settle(f, info, into) /\ pc' = "update" /\ UNCHANGED <<source, mfs, warned>>
        BY <2>1, <2>3 DEF Kept, disk, hist
      <3> QED
        BY <2>1, <2>3, <3>1, SettleExcused, SameUnwarned DEF WarnedInv
    <2>4. ASSUME NEW info \in FileInfo, Recompress(f, info, into) PROVE WarnedInv'
      <3>1. PICK x \in FileInfo : x = [info EXCEPT !.hash = source[f]] /\ x.hash = source[f]
        BY <2>4, InfoTypes DEF Recompress, Readable
      <3>0. job' = Job0(f, x, into)
        BY <2>4, <3>1 DEF Recompress
      <3>2. job'.file = f /\ job'.info = x
        BY <3>0, JobOf
      <3>4. UNCHANGED <<source, mfs, mem, cache, warned>> /\ pc' = "compress"
        BY <2>4 DEF Recompress, hist
      <3> QED
        BY <2>1, <3>1, <3>2, <3>4, SameUnwarned DEF WarnedInv
    <2>5. ASSUME NEW info \in FileInfo, NEW notFound \in FileInfo, Update(f, info, notFound, into),
                 info.hash = notFound.hash, info.down = notFound.down, Excused(warned, f, info)
          PROVE  WarnedInv'
      <3>1. Excused(warned, f, notFound)
        BY <2>5 DEF Excused
      <3> QED
        BY <2>3, <2>4, <2>5, <3>1, UpdateCases
    <2>6. \A info \in FileInfo : info = NewInfo => Excused(warned, f, info)
      BY DEF NewInfo, Excused
    <2>7. \A m \in DOMAIN mem : f \in DOMAIN mem[m] => Excused(warned, f, mem[m][f])
      BY DEF WarnedInv, ExcusedAll
    <2>8. f \in DOMAIN cache => Excused(warned, f, cache[f])
      BY DEF WarnedInv, ExcusedAll
    <2> QED
      BY <2>2, <2>3, <2>5, <2>6, <2>7, <2>8 DEF EntryStep, FirstMet
  <1>16. ASSUME NEW m \in Manifest, WriteOpen(m) PROVE WarnedInv'
    <2>1. \A n \in Manifest : mfs'[n].files \in {NoEntries, mfs[n].files}
      BY <1>16 DEF WriteOpen, TornMfs, TypeOK
    <2> QED
      BY <1>0, <1>16, <2>1, SameUnwarned DEF WriteOpen, hist, WarnedInv
  <1>17. ASSUME NEW m \in Manifest, WriteEnd(m) PROVE WarnedInv'
    <2>1. m \in DOMAIN mem /\ mem[m] \in Entries /\ ExcusedAll(warned, mem[m])
      BY <1>17 DEF WriteEnd, Listing, TypeOK, WarnedInv
    <2>2. ExcusedAll(warned, Stored(mem[m]))
      BY <2>1, StoredEntries DEF ExcusedAll, Excused
    <2>3. \A n \in Manifest : mfs'[n].files \in {Stored(mem[m]), mfs[n].files}
      BY <1>17 DEF WriteEnd, TypeOK
    <2> QED
      BY <1>17, <2>2, <2>3, SameUnwarned DEF WriteEnd, hist, WarnedInv
  <1> QED
    BY <1>1, <1>2, <1>3, <1>4, <1>5, <1>6, <1>7, <1>8, <1>9, <1>10, <1>11, <1>12, <1>13,
       <1>14, <1>15, <1>16, <1>17, <1>18 DEF Next

(* Whatever runs were cut short and whatever could not be encrypted or     *)
(* compressed, a manifest announces a secure file in the clear, or for a   *)
(* file a download of another content, only if the tool                    *)
(* (src/file_srv/data_cache.rs) has warned of that very content.           *)
THEOREM FlawsAreWarnedOf == Spec => []FlawedOnlyAfterWarning
  <1>1. WarnedInv => FlawedOnlyAfterWarning
    BY DEF WarnedInv, ExcusedAll, Excused, FlawedOnlyAfterWarning
  <1>2. Spec => []WarnedInv
    BY InitWarned, NextWarned, Typed, PTL DEF Spec
  <1> QED
    BY <1>1, <1>2, PTL

-----------------------------------------------------------------------------
(* What a whole run leaves behind.  The invariant follows a run: what it   *)
(* has not come to is as it found it, in memory and on disk; an entry it   *)
(* has settled is the one in data_cache; that one is right about the file, *)
(* and if it is not marked as updated, a manifest that the run has read    *)
(* was right about the file before the run.                                *)
InStage == pc \in {"update", "compress", "writing"}
Right(n, f) == Fresh(began, n, f)
Had(n, f)   == Lists(began, n, f)
Behind(m, f) == \E n \in Processed : Before(n, m) /\ Right(n, f)

Phases ==
    /\ pc = "idle" => outcome \in {"whole", "failed", "edited"}
    /\ pc # "idle" => outcome \in {"running", "failed"}
    /\ pc = "idle" => cache = NoEntries
    /\ pc \in {"python", "encrypt", "rewriting"} => stage = 1 /\ cache = NoEntries
    /\ ~InStage => DOMAIN mem = {} /\ DOMAIN todo = {}
    /\ pc \in {"idle", "load"} => expected = {}
    /\ InStage => DOMAIN todo = Members(Here) /\ DOMAIN mem \subseteq Members(Here) /\ ~Skipped(stage)
    /\ pc = "writing" => expected = {} /\ \A m, n \in job.into : m = n

(* No entry on disk is marked as updated or deleted.                       *)
Plain(e) == \A f \in DOMAIN e : ~e[f].updated /\ ~e[f].deleted
Stable == \A m \in Manifest : Plain(mfs[m].files) /\ Plain(began[m].files)

Unread(m) ==
    /\ StageOf(m) >= stage
    /\ InStage /\ StageOf(m) = stage => m \in DOMAIN mem /\ ~(pc = "writing" /\ m \in job.into)
Untouched == pc # "idle" => \A m \in Manifest : Unread(m) => mfs[m] = began[m]

AsFound == \A m \in DOMAIN mem :
    /\ DOMAIN began[m].files \subseteq DOMAIN mem[m] /\ todo[m] \subseteq DOMAIN began[m].files
    /\ \A f \in todo[m] : mem[m][f] = began[m].files[f]

(* A manifest is begun when those before it in the stage are through.      *)
InTurn == InStage => \A i, j \in DOMAIN Here :
    i < j /\ todo[Here[j]] # DOMAIN began[Here[j]].files => todo[Here[i]] = {}

Settled == \A m \in DOMAIN mem : \A f \in DOMAIN mem[m] \ todo[m] :
    f \in DOMAIN cache /\ mem[m][f] = cache[f]

(* The run has read the entry of f in n.                                   *)
Read(n, f) ==
    /\ ~Skipped(StageOf(n))
    /\ StageOf(n) < stage \/ (InStage /\ StageOf(n) = stage /\ f \notin todo[n])
Cached == \A f \in DOMAIN cache :
    /\ cache[f].deleted => ~Exists(f)
    /\ outcome = "running" /\ Readable(f) =>
         /\ cache[f].hash = source[f]
         /\ cache[f].updated \/ \E n \in Manifest : Right(n, f) /\ Read(n, f)

Pending == pc = "compress" =>
    /\ job.file \notin DOMAIN cache
    /\ ~job.info.deleted /\ job.info.hash = source[job.file]
    /\ Place(job.file, job.into)

Found == InStage =>
    /\ \A m \in DOMAIN mem : \A f \in Listed(m) :
         \/ f \in expected \/ f \in DOMAIN mem[m]
         \/ \E n \in Members(Here) \ {m} : Had(n, f)
    /\ \A f \in expected : \A n \in Members(Here) : Had(n, f) => f \in todo[n]

Witness == outcome = "running" => \A m \in DOMAIN mem : \A f \in DOMAIN mem[m] \ todo[m] :
    Readable(f) /\ ~mem[m][f].updated => Right(m, f) \/ Behind(m, f)

StaleBehind(m) == \A f \in DOMAIN mfs[m].files :
    Readable(f) /\ ~Fresh(mfs, m, f) => Behind(m, f)
UnlistedBehind(m) == \A f \in Listed(m) :
    Readable(f) /\ ~Lists(mfs, m, f) =>
        \E n \in Processed \ {m} : \/ Before(n, m) /\ Right(n, f)
                                   \/ StageOf(n) = StageOf(m) /\ Had(n, f)
Done(m) ==
    /\ ~Skipped(StageOf(m))
    /\ StageOf(m) < stage \/ (InStage /\ StageOf(m) = stage /\ m \notin DOMAIN mem)
Result ==
    /\ outcome = "running" => \A m \in Manifest : Done(m) => StaleBehind(m) /\ UnlistedBehind(m)
    /\ outcome = "whole" => \A m \in Processed : StaleBehind(m) /\ UnlistedBehind(m)

Base   == TypeOK /\ Listing
RunInv == /\ Phases /\ Stable /\ Untouched /\ AsFound /\ InTurn /\ Settled
          /\ Cached /\ Pending /\ Found /\ Witness /\ Result

(* Where a manifest is.                                                    *)
LEMMA StageOfIs ==
    /\ \A m \in Manifest : StageOf(m) \in DOMAIN Stages /\ m \in Members(Stages[StageOf(m)])
    /\ \A s \in DOMAIN Stages : \A m \in Members(Stages[s]) : StageOf(m) = s
  <1>1. ASSUME NEW m \in Manifest PROVE StageOf(m) \in DOMAIN Stages /\ m \in Members(Stages[StageOf(m)])
    <2>1. \E s \in DOMAIN Stages : m \in Members(Stages[s])
      BY OnceAssumption DEF Members
    <2> QED
      BY <2>1 DEF StageOf
  <1>2. ASSUME NEW s \in DOMAIN Stages, NEW m \in Members(Stages[s]) PROVE StageOf(m) = s
    <2>1. m \in Manifest
      BY StageManifests
    <2>2. StageOf(m) \in DOMAIN Stages /\ m \in Members(Stages[StageOf(m)])
      BY <1>1, <2>1
    <2>3. PICK i \in DOMAIN Stages[s] : m = Stages[s][i]
      BY DEF Members
    <2>4. PICK j \in DOMAIN Stages[StageOf(m)] : m = Stages[StageOf(m)][j]
      BY <2>2 DEF Members
    <2> QED
      BY <2>2, <2>3, <2>4, OnceAssumption
  <1> QED
    BY <1>1, <1>2

(* What comes before what.                                                 *)
LEMMA BeforeIs ==
    /\ \A m, n \in Manifest : StageOf(n) < StageOf(m) => Before(n, m)
    /\ \A s \in DOMAIN Stages : \A i, j \in DOMAIN Stages[s] :
         i < j => Before(Stages[s][i], Stages[s][j])
    /\ \A m \in Manifest : ~Before(m, m)
  <1>1. \A m, n \in Manifest : StageOf(n) < StageOf(m) => Before(n, m)
    BY DEF Before
  <1>2. ASSUME NEW s \in DOMAIN Stages, NEW i \in DOMAIN Stages[s], NEW j \in DOMAIN Stages[s], i < j
        PROVE  Before(Stages[s][i], Stages[s][j])
    <2>1. Stages[s][j] \in Members(Stages[s])
      BY DEF Members
    <2>2. StageOf(Stages[s][j]) = s
      BY <2>1, StageOfIs
    <2> QED
      BY <1>2, <2>2 DEF Before
  <1>3. ASSUME NEW m \in Manifest, Before(m, m) PROVE FALSE
    <2>1. StageOf(m) \in DOMAIN Stages
      BY StageOfIs
    <2>2. StageOf(m) \in Nat
      BY <2>1, StageManifests
    <2>3. PICK i \in DOMAIN Stages[StageOf(m)], j \in DOMAIN Stages[StageOf(m)] :
            i < j /\ Stages[StageOf(m)][i] = m /\ Stages[StageOf(m)][j] = m
      BY <1>3, <2>2 DEF Before
    <2>4. i = j
      BY <2>1, <2>3, OnceAssumption
    <2>5. i \in Nat
      BY <2>1, LayoutAssumption, LenProperties, ElementOfSeq
    <2> QED
      BY <2>3, <2>4, <2>5
  <1> QED
    BY <1>1, <1>2, <1>3

(* What only depends on the files, and on the manifests the run found.     *)
LEMMA SameSource ==
    ASSUME source' = source
    PROVE  /\ \A f : (Exists(f)' <=> Exists(f)) /\ (Readable(f)' <=> Readable(f))
           /\ \A m : Listed(m)' = Listed(m)
           /\ \A s : Skipped(s)' <=> Skipped(s)
           /\ Processed' = Processed
  <1>1. \A f : (Exists(f)' <=> Exists(f)) /\ (Readable(f)' <=> Readable(f))
    BY DEF Exists, Readable
  <1>2. \A s : Skipped(s)' <=> Skipped(s)
    BY DEF Skipped, Exists
  <1>3. \A m : Listed(m)' = Listed(m)
    BY DEF Listed, Exists
  <1>4. Processed' = Processed
    BY DEF Processed, Skipped, Exists
  <1> QED
    BY <1>1, <1>2, <1>3, <1>4

(* What a run judges itself by depends only on the sources and on what the *)
(* run found.                                                              *)
LEMMA SameBegan ==
    ASSUME source' = source, began' = began
    PROVE  /\ \A n, f : (Right(n, f)' <=> Right(n, f)) /\ (Had(n, f)' <=> Had(n, f))
           /\ \A m, f : Behind(m, f)' <=> Behind(m, f)
  <1>1. \A n, f : (Right(n, f)' <=> Right(n, f)) /\ (Had(n, f)' <=> Had(n, f))
    BY DEF Right, Had, Fresh, Lists
  <1>2. Processed' = Processed
    BY SameSource
  <1>3. \A m, f : Behind(m, f)' <=> Behind(m, f)
    BY <1>1, <1>2 DEF Behind
  <1> QED
    BY <1>1, <1>3

(* What a run leaves of a manifest.                                        *)
LEMMA SameResult ==
    ASSUME source' = source, began' = began, NEW m, mfs'[m] = mfs[m]
    PROVE  (StaleBehind(m)' <=> StaleBehind(m)) /\ (UnlistedBehind(m)' <=> UnlistedBehind(m))
  <1>1. \A f : (Fresh(mfs, m, f)' <=> Fresh(mfs, m, f)) /\ (Lists(mfs, m, f)' <=> Lists(mfs, m, f))
    BY DEF Fresh, Lists
  <1>2. StaleBehind(m)' <=> StaleBehind(m)
    BY <1>1, SameSource, SameBegan DEF StaleBehind
  <1>3. UnlistedBehind(m)' <=> UnlistedBehind(m)
    BY <1>1, SameSource, SameBegan DEF UnlistedBehind
  <1> QED
    BY <1>2, <1>3

(* A step to a state outside the stages of a run.                          *)
LEMMA Outside ==
    ASSUME ~InStage', DOMAIN mem' = {}
    PROVE  AsFound' /\ InTurn' /\ Settled' /\ Pending' /\ Found' /\ Witness'
  BY DEF InStage, AsFound, InTurn, Settled, Pending, Found, Witness

(* No run is under way at first.                                           *)
LEMMA RunInit == Init => RunInv
  <1> SUFFICES ASSUME Init PROVE RunInv
    OBVIOUS
  <1>1. pc = "idle" /\ ~InStage /\ DOMAIN mem = {} /\ DOMAIN todo = {} /\ expected = {}
    BY DEF Init, InStage
  <1>2. \A m \in Manifest : mfs[m].files = NoEntries /\ began[m].files = NoEntries
    BY DEF Init, Missing
  <1>3. Stable
    BY <1>2, Nothing DEF Stable, Plain
  <1>4. Cached
    BY Nothing DEF Cached, Init
  <1>5. Phases /\ Untouched /\ Result
    BY <1>1 DEF Init, Phases, Untouched, Result
  <1>6. AsFound /\ InTurn /\ Settled /\ Pending /\ Found /\ Witness
    BY <1>1 DEF InStage, AsFound, InTurn, Settled, Pending, Found, Witness
  <1> QED
    BY <1>3, <1>4, <1>5, <1>6 DEF RunInv

(* Before the first stage a run has done nothing to a manifest.            *)
LEMMA NothingDone ==
    ASSUME stage' = 1, ~InStage', NEW m \in Manifest
    PROVE  ~Done(m)'
  <1>1. StageOf(m) \in Nat \ {0}
    BY StageOfIs, StageManifests
  <1> QED
    BY <1>1 DEF Done

(* Between runs.                                                           *)
LEMMA EditStep ==
    ASSUME Base, RunInv, NEW f \in File, Edit(f)
    PROVE  RunInv'
  <1>1. /\ pc = "idle" /\ pc' = "idle" /\ outcome' = "edited"
        /\ UNCHANGED <<mfs, stage, mem, cache, todo, expected, job, began>>
    BY DEF Edit, tool
  <1>2. /\ ~InStage /\ ~InStage' /\ DOMAIN mem' = {} /\ DOMAIN todo' = {} /\ expected' = {}
        /\ cache' = NoEntries
    BY <1>1 DEF InStage, RunInv, Phases
  <1>3. Stable' /\ Untouched' /\ Phases' /\ Result'
    BY <1>1, <1>2 DEF RunInv, Stable, Untouched, Phases, Result
  <1>4. Cached'
    BY <1>2, Nothing DEF Cached
  <1> QED
    BY <1>2, <1>3, <1>4, Outside DEF RunInv

(* A run starts.                                                           *)
LEMMA StartStep ==
    ASSUME Base, RunInv, Start
    PROVE  RunInv'
  <1>1. /\ pc = "idle" /\ pc' = "python" /\ stage' = 1 /\ outcome' = "running"
        /\ cache' = NoEntries /\ began' = mfs /\ UNCHANGED <<mfs, mem, todo, job>>
    BY DEF Start, disk
  <1>2. ~InStage /\ ~InStage' /\ DOMAIN mem' = {} /\ DOMAIN todo' = {}
    BY <1>1 DEF InStage, RunInv, Phases
  <1>3. Stable' /\ Untouched' /\ Phases'
    BY <1>1, <1>2 DEF RunInv, Stable, Untouched, Phases
  <1>4. Cached'
    BY <1>1, Nothing DEF Cached
  <1>5. Result'
    BY <1>1, <1>2, NothingDone DEF Result
  <1> QED
    BY <1>2, <1>3, <1>4, <1>5, Outside DEF RunInv

(* The steps of process_python and of the loop over encrypt_file.          *)
Prepares ==
    \/ BuildPak \/ Rewritten \/ RewriteFails \/ Encrypted
    \/ \E f \in File : Encrypt(f) \/ EncryptFails(f)

(* They leave the manifests, on disk and in memory, as they are, and the   *)
(* loop ends when no file is left to visit.                                *)
LEMMA PreparesIs ==
    ASSUME Prepares
    PROVE  /\ pc \in {"python", "encrypt", "rewriting"}
           /\ pc' \in {"encrypt", "rewriting"} \/ (pc' = "load" /\ expected' = {})
           /\ UNCHANGED <<gz, mfs, stage, mem, cache, todo, began, outcome, clean>>
  <1> DEFINE Goal ==
               /\ pc \in {"python", "encrypt", "rewriting"}
               /\ pc' \in {"encrypt", "rewriting"} \/ (pc' = "load" /\ expected' = {})
               /\ UNCHANGED <<gz, mfs, stage, mem, cache, todo, began, outcome, clean>>
  <1>1. BuildPak => Goal
    BY DEF BuildPak, hist
  <1>2. Rewritten => Goal
    BY DEF Rewritten, hist
  <1>3. RewriteFails => Goal
    BY DEF RewriteFails, disk
  <1>4. Encrypted => Goal
    BY DEF Encrypted, disk, tool, hist
  <1>5. \A f \in File : Encrypt(f) => Goal
    BY DEF Encrypt, hist
  <1>6. \A f \in File : EncryptFails(f) => Goal
    BY DEF EncryptFails, disk
  <1> QED
    BY <1>1, <1>2, <1>3, <1>4, <1>5, <1>6 DEF Prepares

(* process_python and encrypt_file.                                        *)
LEMMA PrepareStep ==
    ASSUME Base, RunInv, pc \in {"python", "encrypt", "rewriting"},
           pc' \in {"encrypt", "rewriting"} \/ (pc' = "load" /\ expected' = {}),
           UNCHANGED <<mfs, stage, mem, cache, todo, began, outcome>>
    PROVE  RunInv'
  <1>1. stage = 1 /\ cache = NoEntries /\ outcome \in {"running", "failed"}
    BY DEF RunInv, Phases
  <1>2. ~InStage /\ ~InStage' /\ DOMAIN mem' = {} /\ DOMAIN todo' = {}
    BY DEF InStage, RunInv, Phases
  <1>3. Stable' /\ Phases'
    BY <1>1, <1>2 DEF RunInv, Stable, Phases
  <1>4. Untouched'
    BY <1>2 DEF RunInv, Untouched, Unread
  <1>5. Cached'
    BY <1>1, Nothing DEF Cached
  <1>6. Result'
    BY <1>1, <1>2, NothingDone DEF Result
  <1> QED
    BY <1>2, <1>3, <1>4, <1>5, <1>6, Outside DEF RunInv

(* A run ends.                                                             *)
LEMMA StopStep ==
    ASSUME Base, RunInv, LoadFails \/ Finish \/ Crash
    PROVE  RunInv'
  <1>1. PICK how : Stop(how)
    BY Zenon DEF LoadFails, Finish, Crash
  <1>2. /\ UNCHANGED <<source, mfs, began>>
        /\ \/ outcome' = "failed"
           \/ outcome' = "whole" /\ outcome = "running" /\ stage > Len(Stages) /\ pc = "load"
    BY DEF LoadFails, Finish, Crash, Stop, disk
  <1>3. pc' = "idle" /\ DOMAIN mem' = {} /\ DOMAIN todo' = {} /\ expected' = {} /\ cache' = NoEntries
    BY <1>1 DEF Stop
  <1>4. ~InStage'
    BY <1>3 DEF InStage
  <1>5. Stable' /\ Phases' /\ Untouched'
    BY <1>2, <1>3, <1>4 DEF RunInv, Stable, Phases, Untouched
  <1>6. Cached'
    BY <1>3, Nothing DEF Cached
  <1>7. Result'
    <2>1. CASE outcome' = "failed"
      BY <2>1 DEF Result
    <2>2. CASE outcome' = "whole" /\ outcome = "running" /\ stage > Len(Stages) /\ pc = "load"
      <3>1. ASSUME NEW m \in Processed' PROVE StaleBehind(m)' /\ UnlistedBehind(m)'
        <4>1. m \in Manifest /\ ~Skipped(StageOf(m))
          BY <1>2, <3>1, SameSource DEF Processed
        <4>2. StageOf(m) < stage
          <5>1. StageOf(m) <= Len(Stages) /\ StageOf(m) \in Nat /\ Len(Stages) \in Nat
            BY <4>1, StageOfIs, StageManifests, LayoutAssumption, LenProperties
          <5> QED
            BY <2>2, <5>1 DEF Base, TypeOK
        <4>3. Done(m)
          BY <4>1, <4>2 DEF Done
        <4>4. StaleBehind(m) /\ UnlistedBehind(m)
          BY <2>2, <4>1, <4>3 DEF RunInv, Result
        <4> QED
          BY <1>2, <4>4, SameResult
      <3> QED
        BY <2>2, <3>1 DEF Result
    <2> QED
      BY <1>2, <2>1, <2>2
  <1> QED
    BY <1>3, <1>4, <1>5, <1>6, <1>7, Outside DEF RunInv

(* A stage is skipped.                                                     *)
LEMMA SkipStep ==
    ASSUME Base, RunInv, Skip
    PROVE  RunInv'
  <1>1. /\ pc = "load" /\ pc' = "load" /\ Skipped(stage) /\ stage' = stage + 1
        /\ UNCHANGED <<source, mfs, mem, cache, todo, expected, job, began, outcome>>
    BY DEF Skip, disk
  <1>2. /\ ~InStage /\ ~InStage' /\ DOMAIN mem' = {} /\ DOMAIN todo' = {} /\ expected' = {}
    BY <1>1 DEF InStage, RunInv, Phases
  <1>3. \A m \in Manifest : StageOf(m) \in Nat /\ stage \in Nat
    BY StageOfIs, StageManifests DEF Base, TypeOK
  <1>4. Stable' /\ Phases'
    BY <1>1, <1>2 DEF RunInv, Stable, Phases
  <1>5. Untouched'
    BY <1>1, <1>2, <1>3 DEF RunInv, Untouched, Unread
  <1>6. Cached'
    <2>1. \A n \in Manifest : \A f : Read(n, f) => Read(n, f)'
      BY <1>1, <1>2, <1>3, SameSource DEF Read
    <2> QED
      BY <1>1, <2>1, SameSource, SameBegan DEF RunInv, Cached
  <1>7. Result'
    <2>1. ASSUME NEW m \in Manifest, Done(m)' PROVE Done(m)
      BY <1>1, <1>2, <1>3, <2>1, SameSource DEF Done
    <2>2. outcome' # "whole"
      BY <1>1 DEF RunInv, Phases
    <2> QED
      BY <1>1, <2>1, <2>2, SameResult DEF RunInv, Result
  <1> QED
    BY <1>2, <1>4, <1>5, <1>6, <1>7, Outside DEF RunInv

(* A stage is loaded.                                                      *)
LEMMA LoadStep ==
    ASSUME Base, RunInv, Load
    PROVE  RunInv'
  <1>1. /\ pc = "load" /\ pc' = "update" /\ ~Skipped(stage) /\ stage <= Len(Stages)
        /\ UNCHANGED <<source, mfs, stage, cache, job, began, outcome>>
        /\ expected' = UNION {Listed(m) : m \in Members(Here)}
    BY DEF Load, disk, hist
  <1>2. /\ DOMAIN mem' = Members(Here) /\ DOMAIN todo' = Members(Here)
        /\ \A m \in Members(Here) : mem'[m] = mfs[m].files /\ todo'[m] = DOMAIN mfs[m].files
    BY DEF Load
  <1>3. ~InStage /\ InStage' /\ Here' = Here
    BY <1>1 DEF InStage, Here
  <1>4. stage \in DOMAIN Stages
    BY <1>1, LayoutAssumption, LenProperties DEF Base, TypeOK
  <1>5. Members(Here) \subseteq Manifest /\ \A m \in Members(Here) : StageOf(m) = stage
    BY <1>4, StageManifests, StageOfIs DEF Here
  <1>6. \A m \in Manifest : StageOf(m) \in Nat /\ stage \in Nat
    BY StageOfIs, StageManifests DEF Base, TypeOK
  <1>7. \A m \in Manifest : StageOf(m) >= stage => mfs[m] = began[m]
    BY <1>1, <1>3 DEF RunInv, Untouched, Unread
  <1>8. \A m \in Members(Here) : mem'[m] = began[m].files /\ todo'[m] = DOMAIN began[m].files
    BY <1>2, <1>5, <1>6, <1>7
  <1>9. Phases'
    BY <1>1, <1>2, <1>3, SameSource DEF RunInv, Phases
  <1>10. Stable' /\ Untouched'
    BY <1>1, <1>7 DEF RunInv, Stable, Untouched, Unread
  <1>11. AsFound' /\ Settled' /\ Witness' /\ Pending'
    BY <1>1, <1>2, <1>8 DEF AsFound, Settled, Witness, Pending
  <1>12. InTurn'
    BY <1>1, <1>3, <1>8 DEF InTurn, Members
  <1>13. Cached'
    <2>1. \A n \in Manifest : \A f : Read(n, f) => Read(n, f)'
      BY <1>1, <1>3, SameSource DEF Read
    <2> QED
      BY <1>1, <2>1, SameSource, SameBegan DEF RunInv, Cached
  <1>14. Found'
    <2>1. ASSUME NEW m \in DOMAIN mem', NEW f \in Listed(m)' PROVE f \in expected'
      BY <1>1, <1>2, <2>1, SameSource
    <2>3. \A n \in Members(Here) : \A f : Had(n, f)' => f \in todo'[n]
      BY <1>1, <1>8 DEF Had, Lists
    <2> QED
      BY <1>3, <2>1, <2>3 DEF Found
  <1>15. Result'
    <2>1. ASSUME NEW m \in Manifest, Done(m)' PROVE Done(m)
      <3>1. StageOf(m) = stage => m \in Members(Here)
        BY StageOfIs DEF Here
      <3> QED
        BY <1>1, <1>2, <1>3, <2>1, <3>1, SameSource DEF Done
    <2>2. outcome' # "whole"
      BY <1>1 DEF RunInv, Phases
    <2> QED
      BY <1>1, <2>1, <2>2, SameResult DEF RunInv, Result
  <1> QED
    BY <1>9, <1>10, <1>11, <1>12, <1>13, <1>14, <1>15 DEF RunInv

(* The entry that is settled: the cached one, or one that is right about   *)
(* the file and, if not marked as updated, comes from the manifest at hand. *)
Origin(f, info, into) ==
    \/ f \in DOMAIN cache /\ info = cache[f]
    \/ /\ f \notin DOMAIN cache /\ (info.deleted => ~Exists(f))
       /\ outcome' = "running" /\ Readable(f) =>
            /\ info.hash = source[f]
            /\ info.updated \/ \E m \in DOMAIN mem : into = {m} /\ f \in todo[m] /\ Right(m, f)

(* What Settle does, entry by entry.                                       *)
LEMMA SettleCache ==
    ASSUME TypeOK, NEW f \in File, NEW info \in FileInfo, NEW into, Settle(f, info, into)
    PROVE  /\ DOMAIN cache' = DOMAIN cache \cup {f} /\ cache'[f] = info
           /\ \A g \in DOMAIN cache \ {f} : cache'[g] = cache[g]
  <1>1. cache \in Entries /\ cache' = insert(cache, f, info)
    BY DEF Settle, TypeOK
  <1> QED
    BY <1>1, WithEntry

(* What Settle does to the bookkeeping of a run.                           *)
LEMMA SettleTodo ==
    ASSUME NEW f, NEW info, NEW into, Settle(f, info, into)
    PROVE  /\ DOMAIN mem' = DOMAIN mem /\ DOMAIN todo' = DOMAIN todo /\ expected' = expected \ {f}
           /\ \A m \in DOMAIN mem : m \notin into => mem'[m] = mem[m]
           /\ \A m \in DOMAIN todo : todo'[m] = IF m \in into THEN todo[m] \ {f} ELSE todo[m]
  BY DEF Settle

(* What Settle does to the manifests in memory.                            *)
LEMMA SettleMem ==
    ASSUME TypeOK, NEW f \in File, NEW info \in FileInfo, NEW into, Settle(f, info, into),
           NEW m \in DOMAIN mem, m \in into
    PROVE  /\ DOMAIN mem'[m] = DOMAIN mem[m] \cup {f} /\ mem'[m][f] = info
           /\ \A g \in DOMAIN mem[m] \ {f} : mem'[m][g] = mem[m][g]
  <1>1. mem[m] \in Entries /\ mem'[m] = insert(mem[m], f, info)
    BY DEF Settle, TypeOK
  <1> QED
    BY <1>1, WithEntry

(* A manifest of the stage that was right about f, and whose entry of f    *)
(* the run has read, comes before one that it settles f in from the cache. *)
LEMMA ReadBefore ==
    ASSUME Base, RunInv, InStage, NEW f \in File, NEW into, Place(f, into),
           NEW m \in DOMAIN mem, m \in into, NEW n \in Manifest, Right(n, f), Read(n, f)
    PROVE  Behind(m, f)
  <1>1. /\ m \in Members(Here) /\ ~Skipped(stage) /\ DOMAIN todo = Members(Here)
        /\ stage \in DOMAIN Stages
    BY DEF RunInv, Phases, InStage, Base, TypeOK
  <1>2. StageOf(m) = stage /\ m \in Manifest
    BY <1>1, StageOfIs, StageManifests DEF Here
  <1>3. n \in Processed
    BY DEF Read, Processed
  <1>4. CASE StageOf(n) < stage
    <2>1. Before(n, m)
      BY <1>2, <1>4, BeforeIs
    <2> QED
      BY <1>3, <2>1 DEF Behind
  <1>5. CASE StageOf(n) = stage /\ f \notin todo[n]
    <2>1. n \in Members(Here) /\ Had(n, f)
      BY <1>5, StageOfIs DEF Here, Right, Had, Fresh
    <2>2. f \notin expected
      BY <1>5, <2>1 DEF RunInv, Found
    <2>3. Turn(m) /\ f \in todo[m]
      BY <2>2 DEF Place
    <2>4. PICK i \in DOMAIN Here : Here[i] = m
      BY <1>1 DEF Members
    <2>5. PICK k \in DOMAIN Here : Here[k] = n
      BY <2>1 DEF Members
    <2>6. i # k
      BY <1>5, <2>3, <2>4, <2>5
    <2>7. ~(i < k)
      BY <1>5, <2>1, <2>3, <2>4, <2>5 DEF RunInv, InTurn, Had, Lists
    <2>8. i \in Nat /\ k \in Nat
      BY <1>1, LayoutAssumption, LenProperties, ElementOfSeq DEF Here
    <2>9. Before(n, m)
      BY <1>1, <2>4, <2>5, <2>6, <2>7, <2>8, BeforeIs DEF Here
    <2> QED
      BY <1>3, <2>9 DEF Behind
  <1> QED
    BY <1>4, <1>5 DEF Read

(* An entry is settled.                                                    *)
LEMMA SettleStep ==
    ASSUME Base, RunInv, NEW f \in File, NEW info \in FileInfo, NEW into \in SUBSET Manifest,
           pc \in {"update", "compress"}, pc' = "update", Settle(f, info, into),
           UNCHANGED <<source, mfs, stage, began>>, outcome' \in {outcome, "failed"},
           Place(f, into), Origin(f, info, into)
    PROVE  RunInv'
  <1>0. TypeOK /\ InStage /\ InStage' /\ Here' = Here
    BY DEF Base, InStage, Here
  <1>1. /\ DOMAIN cache' = DOMAIN cache \cup {f} /\ cache'[f] = info
        /\ \A g \in DOMAIN cache \ {f} : cache'[g] = cache[g]
    BY <1>0, SettleCache
  <1>2. /\ DOMAIN mem' = DOMAIN mem
        /\ \A m \in DOMAIN mem : m \notin into => mem'[m] = mem[m]
        /\ \A m \in DOMAIN mem \cap into :
             /\ DOMAIN mem'[m] = DOMAIN mem[m] \cup {f} /\ mem'[m][f] = info
             /\ \A g \in DOMAIN mem[m] \ {f} : mem'[m][g] = mem[m][g]
    BY <1>0, SettleTodo, SettleMem
  <1>3. /\ DOMAIN todo' = DOMAIN todo
        /\ \A m \in DOMAIN todo : todo'[m] = IF m \in into THEN todo[m] \ {f} ELSE todo[m]
        /\ expected' = expected \ {f}
    BY SettleTodo
  <1>4. /\ DOMAIN todo = Members(Here) /\ DOMAIN mem \subseteq Members(Here) /\ ~Skipped(stage)
        /\ outcome \in {"running", "failed"}
    BY <1>0 DEF RunInv, Phases, InStage
  <1>5. stage \in DOMAIN Stages /\ Members(Here) \subseteq Manifest /\ \A m \in Members(Here) : StageOf(m) = stage
    BY <1>0, StageOfIs, StageManifests DEF TypeOK, InStage, Here
  <1>6. Phases'
    BY <1>0, <1>2, <1>3, <1>4, SameSource DEF Phases, InStage
  <1>7. Stable' /\ Untouched' /\ Pending'
    BY <1>0, <1>2 DEF RunInv, Stable, Untouched, Unread, Pending
  <1>8. AsFound'
    <2> SUFFICES ASSUME NEW m \in DOMAIN mem
                 PROVE  /\ DOMAIN began[m].files \subseteq DOMAIN mem'[m]
                        /\ todo'[m] \subseteq DOMAIN began[m].files
                        /\ \A g \in todo'[m] : mem'[m][g] = began[m].files[g]
      BY <1>2 DEF AsFound
    <2>1. /\ DOMAIN began[m].files \subseteq DOMAIN mem[m] /\ todo[m] \subseteq DOMAIN began[m].files
          /\ \A g \in todo[m] : mem[m][g] = began[m].files[g]
      BY DEF RunInv, AsFound
    <2>2. m \in DOMAIN todo
      BY <1>4
    <2> QED
      BY <1>2, <1>3, <2>1, <2>2
  <1>9. InTurn'
    <2> SUFFICES ASSUME NEW i \in DOMAIN Here, NEW j \in DOMAIN Here, i < j,
                        todo'[Here[j]] # DOMAIN began[Here[j]].files
                 PROVE  todo'[Here[i]] = {}
      BY <1>0 DEF InTurn
    <2>1. Here[i] \in DOMAIN todo /\ Here[j] \in DOMAIN todo
      BY <1>4 DEF Members
    <2>2. SUFFICES todo[Here[i]] = {}
      BY <1>3, <2>1
    <2>3. CASE todo[Here[j]] # DOMAIN began[Here[j]].files
      BY <1>0, <2>3 DEF RunInv, InTurn
    <2>4. CASE todo[Here[j]] = DOMAIN began[Here[j]].files
      <3>1. Here[j] \in into /\ todo[Here[j]] # {}
        BY <1>3, <2>1, <2>4
      <3>2. into = {Here[j]} /\ Turn(Here[j])
        BY <2>1, <3>1 DEF Place
      <3>3. PICK k \in DOMAIN Here : Here[k] = Here[j] /\ \A l \in 1..(k - 1) : todo[Here[l]] = {}
        BY <3>2 DEF Turn
      <3>4. k = j
        BY <1>5, <3>3, OnceAssumption DEF Here
      <3>5. i \in Nat \ {0} /\ j \in Nat
        BY <1>5, LayoutAssumption, LenProperties, ElementOfSeq DEF Here
      <3> QED
        BY <3>3, <3>4, <3>5
    <2> QED
      BY <2>3, <2>4
  <1>10. Settled'
    <2> SUFFICES ASSUME NEW m \in DOMAIN mem, NEW g \in DOMAIN mem'[m] \ todo'[m]
                 PROVE  g \in DOMAIN cache' /\ mem'[m][g] = cache'[g]
      BY <1>2 DEF Settled
    <2>0. m \in DOMAIN todo
      BY <1>4
    <2>1. CASE m \in into /\ g = f
      BY <1>1, <1>2, <2>1
    <2>2. CASE ~(m \in into /\ g = f)
      <3>1. g \in DOMAIN mem[m] \ todo[m] /\ mem'[m][g] = mem[m][g]
        BY <1>2, <1>3, <2>0, <2>2
      <3>2. g \in DOMAIN cache /\ mem[m][g] = cache[g]
        BY <3>1 DEF RunInv, Settled
      <3>3. g = f => info = cache[f]
        BY <3>2 DEF Origin
      <3> QED
        BY <1>1, <3>1, <3>2, <3>3
    <2> QED
      BY <2>1, <2>2
  <1>11. \A n \in Manifest : \A g : Read(n, g) => Read(n, g)'
    <2> SUFFICES ASSUME NEW n \in Manifest, NEW g, Read(n, g) PROVE Read(n, g)'
      OBVIOUS
    <2>1. StageOf(n) = stage => n \in DOMAIN todo
      BY <1>4, StageOfIs DEF Here
    <2> QED
      BY <1>0, <1>3, <2>1, SameSource DEF Read
  <1>12. Cached'
    <2> SUFFICES ASSUME NEW g \in DOMAIN cache'
                 PROVE  /\ cache'[g].deleted => ~Exists(g)
                        /\ outcome' = "running" /\ Readable(g) =>
                             /\ cache'[g].hash = source[g]
                             /\ cache'[g].updated \/ \E n \in Manifest : Right(n, g) /\ Read(n, g)'
      BY SameSource, SameBegan DEF Cached
    <2>1. CASE g \in DOMAIN cache
      <3>1. cache'[g] = cache[g]
        BY <1>1, <2>1 DEF Origin
      <3> QED
        BY <1>4, <1>11, <2>1, <3>1 DEF RunInv, Cached
    <2>2. CASE g \notin DOMAIN cache
      <3>1. g = f /\ cache'[g] = info
        BY <1>1, <2>2
      <3>2. ASSUME NEW m \in DOMAIN mem, into = {m}, f \in todo[m], Right(m, f)
            PROVE  m \in Manifest /\ Read(m, f)'
        <4>1. m \in Members(Here) /\ StageOf(m) = stage /\ m \in Manifest /\ f \notin todo'[m]
          BY <1>3, <1>4, <1>5, <3>2
        <4> QED
          BY <1>0, <1>4, <4>1, SameSource DEF Read
      <3> QED
        BY <2>2, <3>1, <3>2 DEF Origin
    <2> QED
      BY <2>1, <2>2
  <1>13. Found'
    <2>1. ASSUME NEW m \in DOMAIN mem, NEW g \in Listed(m)
          PROVE  \/ g \in expected' \/ g \in DOMAIN mem'[m]
                 \/ \E n \in Members(Here) \ {m} : Had(n, g)
      <3>0. DOMAIN mem[m] \subseteq DOMAIN mem'[m] /\ m \in Members(Here)
        BY <1>2, <1>4
      <3>1. CASE g \in expected /\ g = f
        <4>1. CASE \E n \in DOMAIN mem : into = {n} /\ f \in todo[n]
          <5>1. PICK n \in DOMAIN mem : into = {n} /\ f \in todo[n]
            BY <4>1
          <5>2. Had(n, f) /\ n \in Members(Here)
            BY <1>4, <5>1 DEF RunInv, AsFound, Had, Lists
          <5>3. n = m => f \in DOMAIN mem'[m]
            BY <1>2, <5>1
          <5> QED
            BY <3>1, <5>2, <5>3
        <4>2. CASE into = {n \in Members(Here) : f \in Listed(n)}
          <5>1. m \in into
            BY <3>0, <3>1, <4>2
          <5> QED
            BY <1>2, <3>1, <5>1
        <4> QED
          BY <4>1, <4>2 DEF Place
      <3>2. CASE g \in expected /\ g # f
        BY <1>3, <3>2
      <3>3. CASE g \notin expected
        BY <1>0, <3>0, <3>3 DEF RunInv, Found
      <3> QED
        BY <3>1, <3>2, <3>3
    <2>2. ASSUME NEW g \in expected', NEW n \in Members(Here), Had(n, g) PROVE g \in todo'[n]
      <3>1. g \in expected /\ g # f /\ n \in DOMAIN todo
        BY <1>3, <1>4, <2>2
      <3>2. g \in todo[n]
        BY <1>0, <2>2, <3>1 DEF RunInv, Found
      <3> QED
        BY <1>3, <3>1, <3>2
    <2> QED
      BY <1>0, <1>2, <2>1, <2>2, SameSource, SameBegan DEF Found
  <1>14. Witness'
    <2> SUFFICES ASSUME outcome' = "running", NEW m \in DOMAIN mem, NEW g \in DOMAIN mem'[m] \ todo'[m],
                        Readable(g), ~mem'[m][g].updated
                 PROVE  Right(m, g) \/ Behind(m, g)
      BY <1>2, SameSource, SameBegan DEF Witness
    <2>0. m \in DOMAIN todo /\ outcome = "running"
      BY <1>4
    <2>1. CASE ~(m \in into /\ g = f)
      <3>1. g \in DOMAIN mem[m] \ todo[m] /\ mem'[m][g] = mem[m][g]
        BY <1>2, <1>3, <2>0, <2>1
      <3> QED
        BY <2>0, <3>1 DEF RunInv, Witness
    <2>2. CASE m \in into /\ g = f
      <3>1. mem'[m][g] = info
        BY <1>2, <2>2
      <3>2. CASE f \in DOMAIN cache /\ info = cache[f]
        <4>1. \E n \in Manifest : Right(n, f) /\ Read(n, f)
          BY <2>0, <2>2, <3>1, <3>2 DEF RunInv, Cached
        <4> QED
          BY <1>0, <2>2, <4>1, ReadBefore
      <3>3. CASE f \notin DOMAIN cache
        BY <2>2, <3>1, <3>3 DEF Origin
      <3> QED
        BY <3>2, <3>3 DEF Origin
    <2> QED
      BY <2>1, <2>2
  <1>15. Result'
    <2>1. ASSUME NEW m \in Manifest, Done(m)' PROVE Done(m)
      BY <1>0, <1>2, <2>1, SameSource DEF Done
    <2>2. outcome' # "whole" /\ (outcome' = "running" => outcome = "running")
      BY <1>4
    <2> QED
      BY <2>1, <2>2, SameResult DEF RunInv, Result
  <1> QED
    BY <1>6, <1>7, <1>8, <1>9, <1>10, <1>12, <1>13, <1>14, <1>15 DEF RunInv

(* A file has changed, and its .gz is begun.                               *)
LEMMA RecompressStep ==
    ASSUME Base, RunInv, NEW f \in File, NEW info \in FileInfo, NEW into \in SUBSET Manifest,
           pc = "update", Recompress(f, info, into), Place(f, into),
           f \notin DOMAIN cache, ~info.deleted
    PROVE  RunInv'
  <1>0. /\ InStage /\ InStage' /\ Here' = Here /\ pc' = "compress"
        /\ UNCHANGED <<source, mfs, stage, mem, cache, todo, expected, began, outcome>>
    BY DEF Recompress, InStage, Here, hist
  <1>1. PICK x \in FileInfo : x = [info EXCEPT !.hash = source[f]] /\ x.hash = source[f] /\ ~x.deleted
    BY InfoTypes DEF Recompress, Readable, FileInfo
  <1>2. job' = Job0(f, x, into)
    BY <1>1 DEF Recompress
  <1>3. job'.file = f /\ job'.info = x /\ job'.into = into
    BY <1>2, JobOf
  <1>4. Place(f, into)'
    BY <1>0, SameSource DEF Place, Turn
  <1>5. Place(job.file, job.into)'
    BY <1>3, <1>4 DEF Place
  <1>6. Pending'
    BY <1>0, <1>1, <1>3, <1>5 DEF Pending
  <1>7. Phases' /\ Stable' /\ Untouched' /\ AsFound' /\ InTurn' /\ Settled'
    BY <1>0, SameSource DEF RunInv, Phases, Stable, Untouched, Unread, AsFound, InTurn, Settled
  <1>8. Found' /\ Witness'
    BY <1>0, SameSource, SameBegan DEF RunInv, Found, Witness
  <1>9. Cached'
    <2>1. \A n, g : Read(n, g) => Read(n, g)'
      BY <1>0, SameSource DEF Read
    <2> QED
      BY <1>0, <2>1, SameSource, SameBegan DEF RunInv, Cached
  <1>10. Result'
    <2>1. \A m : Done(m)' => Done(m)
      BY <1>0, SameSource DEF Done
    <2>2. outcome' # "whole"
      BY <1>0 DEF RunInv, Phases
    <2> QED
      BY <1>0, <2>1, <2>2, SameResult DEF RunInv, Result
  <1> QED
    BY <1>6, <1>7, <1>8, <1>9, <1>10 DEF RunInv

(* update_cache_file and create_cache_file.                                *)
LEMMA EntryKept ==
    ASSUME Base, RunInv, NEW f \in File,
           CreateCacheFile(f) \/ \E m \in Manifest : UpdateCacheFile(m, f)
    PROVE  RunInv'
  <1>1. pc = "update" /\ TypeOK /\ Listing
    BY EntrySteps DEF Base
  <1>2. PICK into \in SUBSET Manifest : Place(f, into) /\ EntryStep(f, into)
    BY <1>1, EntrySteps
  <1>3. ASSUME NEW x \in FileInfo, Kept(f, x, into), Origin(f, x, into) PROVE RunInv'
    <2>1. /\ Settle(f, x, into) /\ pc' = "update" /\ outcome' \in {outcome, "failed"}
          /\ UNCHANGED <<source, mfs, stage, began>>
      BY <1>1, <1>3 DEF Kept, disk, hist
    <2> QED
      BY <1>1, <1>2, <1>3, <2>1, SettleStep
  <1>4. CASE f \in DOMAIN cache /\ \E info \in FileInfo : info = cache[f] /\ Kept(f, info, into)
    BY <1>3, <1>4 DEF Origin
  <1>5. ASSUME f \notin DOMAIN cache, NEW info \in FileInfo, NEW notFound \in FileInfo,
               Update(f, info, notFound, into), FirstMet(f, info, notFound, into)
        PROVE  RunInv'
    <2>1. ~info.deleted /\ (info.updated \/ \E m \in DOMAIN mem :
                               /\ into = {m} /\ f \in todo[m] /\ f \in DOMAIN began[m].files
                               /\ info = began[m].files[f])
      <3>1. CASE info = NewInfo
        BY <3>1 DEF NewInfo
      <3>2. ASSUME NEW m \in DOMAIN mem, into = {m}, f \in todo[m], info = mem[m][f]
            PROVE  ~info.deleted /\ f \in DOMAIN began[m].files /\ info = began[m].files[f]
        <4>1. m \in Manifest /\ f \in DOMAIN began[m].files /\ info = began[m].files[f]
          BY <1>1, <3>2 DEF TypeOK, RunInv, AsFound
        <4> QED
          BY <4>1 DEF RunInv, Stable, Plain
      <3> QED
        BY <1>5, <3>1, <3>2 DEF FirstMet
    <2>2. CASE Recompress(f, info, into)
      BY <1>1, <1>2, <1>5, <2>1, <2>2, RecompressStep
    <2>3. ASSUME NEW x \in {info, notFound}, ~(Readable(f) /\ source[f] # info.hash),
                 x = IF Exists(f) THEN info ELSE notFound, Kept(f, x, into)
          PROVE  RunInv'
      <3>1. Readable(f) => Exists(f)
        BY ContentAssumption DEF Readable, Exists
      <3>2. x.deleted => ~Exists(f)
        BY <2>1, <2>3
      <3>3. ASSUME Readable(f)
            PROVE  /\ x.hash = source[f]
                   /\ x.updated \/ \E m \in DOMAIN mem : into = {m} /\ f \in todo[m] /\ Right(m, f)
        <4>1. x = info /\ info.hash = source[f]
          BY <2>3, <3>1, <3>3
        <4> QED
          BY <2>1, <4>1 DEF Right, Fresh, Lists
      <3>4. Origin(f, x, into)
        BY <1>5, <3>2, <3>3 DEF Origin
      <3> QED
        BY <1>3, <2>3, <3>4
    <2> QED
      BY <1>1, <1>5, <2>2, <2>3, UpdateCases
  <1> QED
    BY <1>2, <1>4, <1>5 DEF EntryStep

(* What is compressed is marked as updated, and as deleted only if it was. *)
LEMMA CompressedInfo ==
    ASSUME NEW info \in FileInfo, NEW c \in Content
    PROVE  Compressed(info, c).updated = TRUE /\ Compressed(info, c).deleted = info.deleted
  BY DEF Compressed, FileInfo

(* The .gz is finished, or fails.                                          *)
LEMMA CompressStep ==
    ASSUME Base, RunInv, Compress \/ CompressFails
    PROVE  RunInv'
  <1>1. /\ pc = "compress" /\ pc' = "update" /\ UNCHANGED <<source, mfs, stage, began>>
        /\ outcome' \in {outcome, "failed"} /\ (CompressFails => outcome' = "failed")
    BY DEF Compress, CompressFails, disk, hist
  <1>2. PICK f \in File, t \in SUBSET Manifest, i \in FileInfo, c \in Content :
          f = job.file /\ t = job.into /\ i = job.info /\ c = source[f]
    BY <1>1 DEF Base, TypeOK, Job, Listing, Readable
  <1>3. Place(f, t) /\ f \notin DOMAIN cache /\ ~i.deleted /\ i.hash = c
    BY <1>1, <1>2 DEF RunInv, Pending, Place
  <1>4. CASE Compress
    <2>1. PICK x \in FileInfo : x = Compressed(i, c) /\ x.hash = i.hash
      BY InfoTypes
    <2>2. x.hash = c /\ x.updated = TRUE /\ x.deleted = i.deleted
      BY <1>3, <2>1, CompressedInfo
    <2>3. Settle(f, x, t)
      BY <1>2, <1>4, <2>1 DEF Compress, Settle
    <2>4. Origin(f, x, t)
      BY <1>2, <1>3, <2>2 DEF Origin
    <2> QED
      BY <1>1, <1>3, <2>3, <2>4, SettleStep
  <1>5. CASE CompressFails
    <2>1. Settle(f, i, t)
      BY <1>2, <1>5 DEF CompressFails, Settle
    <2>2. Origin(f, i, t)
      BY <1>1, <1>3, <1>5 DEF Origin
    <2> QED
      BY <1>1, <1>3, <2>1, <2>2, SettleStep
  <1> QED
    BY <1>4, <1>5

(* What is stored is neither marked as updated nor as deleted.             *)
LEMMA StoredPlain ==
    ASSUME NEW e \in Entries
    PROVE  /\ Plain(Stored(e))
           /\ \A f \in DOMAIN e : ~e[f].deleted => f \in DOMAIN Stored(e)
  <1>1. DOMAIN Stored(e) = {g \in DOMAIN e : ~e[g].deleted}
    BY DEF Stored
  <1>2. ASSUME NEW f \in DOMAIN Stored(e) PROVE ~Stored(e)[f].updated /\ ~Stored(e)[f].deleted
    <2>1. f \in DOMAIN e /\ e[f] \in FileInfo /\ ~e[f].deleted
      BY <1>1, EntriesAre
    <2>2. Stored(e)[f] = [e[f] EXCEPT !.updated = FALSE]
      BY <1>1 DEF Stored
    <2> QED
      BY <2>1, <2>2 DEF FileInfo
  <1> QED
    BY <1>1, <1>2 DEF Plain

(* A manifest is opened for writing.                                       *)
LEMMA WriteOpenStep ==
    ASSUME Base, RunInv, NEW m \in Manifest, WriteOpen(m)
    PROVE  RunInv'
  <1>0. /\ InStage /\ InStage' /\ Here' = Here /\ pc = "update" /\ pc' = "writing" /\ expected = {}
        /\ UNCHANGED <<source, stage, mem, cache, todo, expected, began, outcome>>
        /\ m \in DOMAIN mem
    BY DEF WriteOpen, Unwritten, InStage, Here, hist
  <1>1. /\ job'.into = {m} /\ mfs'[m].files = NoEntries
        /\ \A n \in Manifest \ {m} : mfs'[n] = mfs[n]
    <2>1. job' = [NoJob EXCEPT !.into = {m}] /\ mfs' = [mfs EXCEPT ![m] = TornMfs]
      BY DEF WriteOpen
    <2>2. [NoJob EXCEPT !.into = {m}].into = {m}
      BY Nothing DEF Job
    <2>3. TornMfs.files = NoEntries
      BY DEF TornMfs
    <2> QED
      BY <2>1, <2>2, <2>3 DEF Base, TypeOK
  <1>2. StageOf(m) = stage
    BY <1>0, StageOfIs DEF RunInv, Phases, Base, TypeOK, InStage, Here
  <1>3. Stable'
    BY <1>0, <1>1, Nothing DEF RunInv, Stable, Plain
  <1>4. Untouched'
    BY <1>0, <1>1, <1>2 DEF RunInv, Untouched, Unread
  <1>5. Phases' /\ AsFound' /\ InTurn' /\ Settled' /\ Pending'
    BY <1>0, <1>1, SameSource DEF RunInv, Phases, AsFound, InTurn, Settled, Pending
  <1>6. Found' /\ Witness'
    BY <1>0, SameSource, SameBegan DEF RunInv, Found, Witness
  <1>7. Cached'
    <2>1. \A n, g : Read(n, g) => Read(n, g)'
      BY <1>0, SameSource DEF Read
    <2> QED
      BY <1>0, <2>1, SameSource, SameBegan DEF RunInv, Cached
  <1>8. Result'
    <2>1. ASSUME NEW n \in Manifest, Done(n)' PROVE n # m /\ Done(n)
      BY <1>0, <1>2, <2>1, SameSource DEF Done, Base, TypeOK
    <2>2. outcome' # "whole"
      BY <1>0 DEF RunInv, Phases
    <2> QED
      BY <1>0, <1>1, <2>1, <2>2, SameResult DEF RunInv, Result
  <1> QED
    BY <1>3, <1>4, <1>5, <1>6, <1>7, <1>8 DEF RunInv

(* It is written.                                                          *)
LEMMA WriteEndStep ==
    ASSUME Base, RunInv, NEW m \in Manifest, WriteEnd(m)
    PROVE  RunInv'
  <1>0. /\ InStage /\ InStage' /\ Here' = Here /\ pc = "writing" /\ pc' = "update" /\ expected = {}
        /\ UNCHANGED <<source, stage, cache, todo, expected, began, outcome>> /\ m \in job.into
    BY DEF WriteEnd, InStage, Here, hist, RunInv, Phases
  <1>1. /\ m \in DOMAIN mem /\ mem[m] \in Entries /\ \A n \in DOMAIN todo : todo[n] = {}
        /\ job.into = {m}
    BY <1>0 DEF Base, TypeOK, Listing, RunInv, Phases
  <1>2. /\ DOMAIN mem' = DOMAIN mem \ {m} /\ \A n \in DOMAIN mem' : mem'[n] = mem[n]
        /\ mfs'[m].files = Stored(mem[m]) /\ \A n \in Manifest \ {m} : mfs'[n] = mfs[n]
    BY DEF WriteEnd, Base, TypeOK
  <1>3. /\ DOMAIN todo = Members(Here) /\ DOMAIN mem \subseteq Members(Here) /\ ~Skipped(stage)
        /\ stage \in DOMAIN Stages
    BY <1>0 DEF RunInv, Phases, Base, TypeOK, InStage
  <1>4. StageOf(m) = stage
    BY <1>1, <1>3, StageOfIs DEF Here
  <1>5. Stable'
    BY <1>0, <1>1, <1>2, StoredPlain DEF RunInv, Stable
  <1>6. Untouched'
    BY <1>0, <1>1, <1>2, <1>4 DEF RunInv, Untouched, Unread
  <1>7. Phases' /\ AsFound' /\ InTurn' /\ Settled' /\ Pending'
    BY <1>0, <1>2, SameSource DEF RunInv, Phases, AsFound, InTurn, Settled, Pending
  <1>8. Found' /\ Witness'
    BY <1>0, <1>2, SameSource, SameBegan DEF RunInv, Found, Witness
  <1>9. Cached'
    <2>1. \A n, g : Read(n, g) => Read(n, g)'
      BY <1>0, SameSource DEF Read
    <2> QED
      BY <1>0, <2>1, SameSource, SameBegan DEF RunInv, Cached
  <1>10. ASSUME outcome = "running" PROVE StaleBehind(m)' /\ UnlistedBehind(m)'
    <2>1. ASSUME NEW f \in DOMAIN mem[m] PROVE f \in DOMAIN cache /\ mem[m][f] = cache[f]
      BY <1>1, <1>3, <2>1 DEF RunInv, Settled
    <2>2. ASSUME NEW f \in DOMAIN Stored(mem[m]), Readable(f) PROVE Stored(mem[m])[f].hash = source[f]
      <3>1. f \in DOMAIN mem[m] /\ Stored(mem[m])[f].hash = mem[m][f].hash
        BY <1>1, StoredEntries
      <3> QED
        BY <1>10, <2>1, <2>2, <3>1 DEF RunInv, Cached
    <2>3. \A f \in DOMAIN mfs'[m].files : Readable(f)' => Fresh(mfs, m, f)'
      BY <1>0, <1>2, <2>2, SameSource DEF Fresh, Lists
    <2>4. StaleBehind(m)'
      BY <2>3 DEF StaleBehind
    <2>5. ASSUME NEW f \in Listed(m), Readable(f), f \notin DOMAIN Stored(mem[m])
          PROVE  \E n \in Processed \ {m} : StageOf(n) = StageOf(m) /\ Had(n, f)
      <3>1. f \notin DOMAIN mem[m]
        <4>1. Readable(f) => Exists(f)
          BY ContentAssumption DEF Readable, Exists
        <4> QED
          BY <1>1, <2>1, <2>5, <4>1, StoredPlain DEF RunInv, Cached
      <3>2. PICK n \in Members(Here) \ {m} : Had(n, f)
        BY <1>0, <1>1, <2>5, <3>1 DEF RunInv, Found
      <3>3. n \in Manifest /\ StageOf(n) = stage
        BY <1>3, StageManifests, StageOfIs DEF Here
      <3> QED
        BY <1>3, <1>4, <3>2, <3>3 DEF Processed
    <2>6. UnlistedBehind(m)'
      <3>1. \A f : Lists(mfs, m, f)' <=> f \in DOMAIN Stored(mem[m])
        BY <1>2 DEF Lists
      <3> QED
        BY <1>0, <2>5, <3>1, SameSource, SameBegan DEF UnlistedBehind
    <2> QED
      BY <2>4, <2>6
  <1>11. Result'
    <2>1. ASSUME NEW n \in Manifest, Done(n)', n # m PROVE Done(n)
      BY <1>0, <1>2, <2>1, SameSource DEF Done
    <2>2. outcome' # "whole"
      BY <1>0 DEF RunInv, Phases
    <2> QED
      BY <1>0, <1>2, <1>10, <2>1, <2>2, SameResult DEF RunInv, Result
  <1> QED
    BY <1>5, <1>6, <1>7, <1>8, <1>9, <1>11 DEF RunInv

(* A stage is through: what is not written has no updated entry.           *)
LEMMA StageDoneStep ==
    ASSUME Base, RunInv, StageDone
    PROVE  RunInv'
  <1>0. /\ InStage /\ ~InStage' /\ pc = "update" /\ pc' = "load" /\ expected = {}
        /\ UNCHANGED <<source, mfs, cache, expected, began, outcome>> /\ stage' = stage + 1
        /\ DOMAIN mem' = {} /\ DOMAIN todo' = {}
        /\ \A m \in DOMAIN todo : todo[m] = {}
        /\ \A m \in DOMAIN mem : \A f \in DOMAIN mem[m] : ~mem[m][f].updated
    BY DEF StageDone, InStage, disk, hist, Unwritten, AnyUpdated
  <1>1. /\ DOMAIN todo = Members(Here) /\ DOMAIN mem \subseteq Members(Here) /\ ~Skipped(stage)
        /\ stage \in DOMAIN Stages
    BY <1>0 DEF RunInv, Phases, Base, TypeOK
  <1>2. \A m \in Manifest : StageOf(m) \in Nat /\ stage \in Nat
    BY StageOfIs, StageManifests DEF Base, TypeOK
  <1>3. Stable' /\ Phases'
    BY <1>0 DEF RunInv, Stable, Phases
  <1>4. Untouched'
    BY <1>0, <1>2 DEF RunInv, Untouched, Unread
  <1>5. Cached'
    <2>1. \A n \in Manifest : \A f : Read(n, f) => Read(n, f)'
      BY <1>0, <1>2, SameSource DEF Read
    <2> QED
      BY <1>0, <2>1, SameSource, SameBegan DEF RunInv, Cached
  <1>6. ASSUME outcome = "running", NEW m \in DOMAIN mem PROVE StaleBehind(m) /\ UnlistedBehind(m)
    <2>1. m \in Manifest /\ StageOf(m) = stage /\ todo[m] = {}
      BY <1>0, <1>1, StageManifests, StageOfIs DEF Here
    <2>2. mfs[m] = began[m]
      BY <1>0, <1>2, <2>1 DEF RunInv, Untouched, Unread
    <2>3. ASSUME NEW f \in DOMAIN mem[m], Readable(f) PROVE Right(m, f) \/ Behind(m, f)
      BY <1>0, <1>6, <2>1, <2>3 DEF RunInv, Witness
    <2>4. StaleBehind(m)
      <3> SUFFICES ASSUME NEW f \in DOMAIN mfs[m].files, Readable(f), ~Fresh(mfs, m, f)
                   PROVE  Behind(m, f)
        BY DEF StaleBehind
      <3>1. f \in DOMAIN mem[m]
        BY <2>2 DEF RunInv, AsFound
      <3>2. ~Right(m, f)
        BY <2>2 DEF Right, Fresh, Lists
      <3> QED
        BY <2>3, <3>1, <3>2
    <2>5. UnlistedBehind(m)
      <3> SUFFICES ASSUME NEW f \in Listed(m), Readable(f), ~Lists(mfs, m, f)
                   PROVE  \E n \in Processed \ {m} : \/ Before(n, m) /\ Right(n, f)
                                                     \/ StageOf(n) = StageOf(m) /\ Had(n, f)
        BY DEF UnlistedBehind
      <3>1. ~Right(m, f)
        BY <2>2 DEF Right, Fresh, Lists
      <3>2. CASE f \in DOMAIN mem[m]
        <4>1. PICK n \in Processed : Before(n, m) /\ Right(n, f)
          BY <2>3, <3>1, <3>2 DEF Behind
        <4>2. n # m
          BY <2>1, <4>1, BeforeIs
        <4> QED
          BY <4>1, <4>2
      <3>3. CASE f \notin DOMAIN mem[m]
        <4>1. PICK n \in Members(Here) \ {m} : Had(n, f)
          BY <1>0, <3>3 DEF RunInv, Found
        <4>2. n \in Manifest /\ StageOf(n) = stage
          BY <1>1, StageManifests, StageOfIs DEF Here
        <4> QED
          BY <1>1, <2>1, <4>1, <4>2 DEF Processed
      <3> QED
        BY <3>2, <3>3
    <2> QED
      BY <2>4, <2>5
  <1>7. Result'
    <2>1. ASSUME NEW n \in Manifest, Done(n)' PROVE n \in DOMAIN mem \/ Done(n)
      BY <1>0, <1>2, <2>1, SameSource DEF Done
    <2>2. outcome' # "whole"
      BY <1>0 DEF RunInv, Phases
    <2> QED
      BY <1>0, <1>6, <2>1, <2>2, SameResult DEF RunInv, Result
  <1> QED
    BY <1>0, <1>3, <1>4, <1>5, <1>7, Outside DEF RunInv

(* Every step keeps the invariant.                                         *)
LEMMA RunNext == Base /\ RunInv /\ [Next]_vars => RunInv'
  <1> SUFFICES ASSUME Base, RunInv, [Next]_vars PROVE RunInv'
    OBVIOUS
  <1>1. CASE UNCHANGED vars
    <2>1. UNCHANGED <<source, mfs, pc, stage, mem, cache, todo, expected, job, began, outcome>>
      BY <1>1 DEF vars, disk, tool, hist
    <2>2. (InStage' <=> InStage) /\ Here' = Here
      BY <2>1 DEF InStage, Here
    <2>3. Phases' /\ Stable' /\ Untouched' /\ AsFound' /\ InTurn' /\ Settled'
      BY <2>1, <2>2, SameSource DEF RunInv, Phases, Stable, Untouched, Unread, AsFound, InTurn, Settled
    <2>4. Found' /\ Witness'
      BY <2>1, <2>2, SameSource, SameBegan DEF RunInv, Found, Witness
    <2>5. Pending'
      BY <2>1, <2>2, SameSource DEF RunInv, Pending, Place, Turn
    <2>6. Cached'
      <3>1. \A n, g : Read(n, g) => Read(n, g)'
        BY <2>1, <2>2, SameSource DEF Read
      <3> QED
        BY <2>1, <3>1, SameSource, SameBegan DEF RunInv, Cached
    <2>7. Result'
      <3>1. \A m : Done(m)' => Done(m)
        BY <2>1, <2>2, SameSource DEF Done
      <3> QED
        BY <2>1, <3>1, SameSource, SameResult DEF RunInv, Result
    <2> QED
      BY <2>3, <2>4, <2>5, <2>6, <2>7 DEF RunInv
  <1>2. CASE Prepares
    BY <1>2, PreparesIs, PrepareStep
  <1> QED
    BY <1>1, <1>2, EditStep, StartStep, SkipStep, LoadStep, StopStep, CompressStep, EntryKept,
       WriteOpenStep, WriteEndStep, StageDoneStep DEF Next, Prepares

(* The invariant of a run holds in every reachable state.                  *)
LEMMA RunInvariant == Spec => []RunInv
  <1>1. Spec => []Base
    BY Typed, PTL DEF Base
  <1> QED
    BY <1>1, RunInit, RunNext, PTL DEF Spec

(* Whatever edits, failures and crashes came before: a run that ends well  *)
(* leaves an entry stale only if a manifest it read earlier was right      *)
(* about the file before the run, in any layout of stages.                 *)
THEOREM StaleEntriesAreShadowed == Spec => []StaleOnlyBehindFresh
  <1>1. RunInv => StaleOnlyBehindFresh
    BY DEF RunInv, Result, StaleBehind, Behind, Right, StaleOnlyBehindFresh
  <1> QED
    BY <1>1, RunInvariant, PTL

(* And it leaves a file out of a manifest only for that reason, or because *)
(* another manifest of the stage had it.                                   *)
THEOREM UnlistedFilesAreShadowed == Spec => []UnlistedOnlyBehindOthers
  <1>1. RunInv => UnlistedOnlyBehindOthers
    BY DEF RunInv, Result, UnlistedBehind, Right, Had, UnlistedOnlyBehindOthers
  <1> QED
    BY <1>1, RunInvariant, PTL
-----------------------------------------------------------------------------
(* What a history of whole runs leaves behind.  The manifests agree about  *)
(* the files they share: a file has one entry, and every manifest that     *)
(* wants the file has it, but for files that were only referred to.        *)
Wanted(m) == Wants[m] \cup Refs[m]
AllRefs   == UNION {Refs[m] : m \in Manifest}
Agree(c) == \A m, n \in Manifest : \A f \in DOMAIN c[m].files :
    /\ f \in Wanted(m)
    /\ f \in DOMAIN c[n].files => c[n].files[f] = c[m].files[f]
    /\ f \in Wanted(n) /\ (c[m].files[f].hash # Zero \/ f \notin AllRefs) => f \in DOMAIN c[n].files
    /\ f \in Refs[n] => f \in DOMAIN c[n].files

(* The download of an entry is on disk and unpacks to what was hashed.     *)
Good(e, f) == e.hash # Zero =>
    /\ e.down = e.hash /\ e.packed = (e.hash \in Compressible)
    /\ e.packed => gz[f] = e.hash
AllGood == \A m \in Manifest : \A f \in DOMAIN mfs[m].files : Good(mfs[m].files[f], f)

(* The entries the run has not come to are still good.                     *)
Intact == \A m \in Manifest : \A f \in DOMAIN began[m].files \ DOMAIN cache :
    (pc = "compress" /\ f = job.file) \/ Good(began[m].files[f], f)

(* What a settled entry says: it is as the run found it in every manifest  *)
(* that had it, or marked as updated, and of a file that is not there it   *)
(* is deleted, or new and empty.                                           *)
Judged(f, e) ==
    /\ Good(e, f)
    /\ e.deleted => e.updated
    /\ ~e.updated => /\ \E n \in Manifest : Had(n, f)
                     /\ \A n \in Manifest : Had(n, f) => began[n].files[f] = e
    /\ ~Exists(f) => e.deleted \/ (e.hash = Zero /\ \A n \in Manifest : ~Had(n, f))
Verdicts == \A f \in DOMAIN cache : Judged(f, cache[f])

(* Why an entry is in memory, and why a file is to be added.               *)
Reasons ==
    /\ \A m \in DOMAIN mem : \A f \in DOMAIN mem[m] : Had(m, f) \/ f \in Listed(m)
    /\ InStage => \A f \in expected : \E m \in Members(Here) : f \in Listed(m)

(* A manifest the run is through with holds what data_cache holds of the   *)
(* files it had and of the files it wants.                                 *)
Through(m) ==
    StageOf(m) < stage \/ (InStage /\ StageOf(m) = stage /\ m \notin DOMAIN mem)
Saved(e) == [e EXCEPT !.updated = FALSE]
Final(m) == \A f \in File :
    /\ Lists(mfs, m, f) => /\ f \in DOMAIN cache /\ ~cache[f].deleted
                           /\ mfs[m].files[f] = Saved(cache[f])
                           /\ Had(m, f) \/ f \in Listed(m)
    /\ Had(m, f) \/ f \in Listed(m) => f \in DOMAIN cache
    /\ f \in DOMAIN cache /\ ~cache[f].deleted /\ (Had(m, f) \/ (cache[f].updated /\ f \in Listed(m)))
         => Lists(mfs, m, f)

Running == /\ outcome = "running" /\ Agree(began) /\ Intact /\ Verdicts /\ Reasons
           /\ \A m \in Manifest : Through(m) => Final(m)
Rested  == /\ Agree(mfs) /\ AllGood
           /\ outcome = "whole" => \A m \in Manifest : Described(m)
UpInv   == clean => (pc = "idle" => Rested) /\ (pc # "idle" => Running)

(* There are no entries at first.                                          *)
LEMMA UpInit == Init => UpInv
  <1> SUFFICES ASSUME Init PROVE UpInv
    OBVIOUS
  <1>1. \A m \in Manifest : DOMAIN mfs[m].files = {}
    BY Nothing DEF Init, Missing
  <1>2. Agree(mfs) /\ AllGood
    BY <1>1 DEF Agree, AllGood
  <1> QED
    BY <1>2 DEF Init, UpInv, Rested

(* When all of a stage is settled, a manifest of it in memory has every    *)
(* file it is to list.  Another one of the stage may have kept the file    *)
(* from being added, but then the manifests agreed about it, or it is a    *)
(* file that no two manifests of a stage want.                             *)
LEMMA ListedInMem ==
    ASSUME Base, RunInv, InStage, Agree(began), expected = {},
           NEW m \in DOMAIN mem, NEW f \in Listed(m)
    PROVE  f \in DOMAIN mem[m]
  <1>1. stage \in DOMAIN Stages /\ m \in Members(Here) /\ Members(Here) \subseteq Manifest
    BY StageManifests DEF Base, TypeOK, InStage, RunInv, Phases, Here
  <1>2. f \in Wanted(m)
    BY DEF Listed, Wanted
  <1>3. ASSUME NEW n \in Members(Here) \ {m}, Had(n, f) PROVE f \in DOMAIN mem[m]
    <2>1. f \in DOMAIN began[n].files /\ n \in Manifest /\ m \in Manifest
      BY <1>1, <1>3 DEF Had, Lists
    <2>2. f \in Wanted(n)
      BY <2>1 DEF Agree
    <2>3. f \notin AllRefs
      <3> SUFFICES ASSUME f \in AllRefs PROVE FALSE
        OBVIOUS
      <3>1. PICK i \in DOMAIN Stages[stage] : Stages[stage][i] = m
        BY <1>1 DEF Here, Members
      <3>2. PICK j \in DOMAIN Stages[stage] : Stages[stage][j] = n
        BY <1>3 DEF Here, Members
      <3>3. i = j
        BY <1>1, <1>2, <2>1, <2>2, <3>1, <3>2, ReferAssumption DEF AllRefs, Wanted
      <3> QED
        BY <3>1, <3>2, <3>3
    <2>4. f \in DOMAIN began[m].files
      BY <1>2, <2>1, <2>3 DEF Agree
    <2> QED
      BY <2>4 DEF RunInv, AsFound
  <1> QED
    BY <1>3 DEF RunInv, Found

(* What the cache has gained since does not change what it says of a       *)
(* manifest the run is through with.                                       *)
LEMMA FinalKept ==
    ASSUME source' = source, began' = began, NEW m, mfs'[m] = mfs[m], Final(m),
           DOMAIN cache \subseteq DOMAIN cache', \A g \in DOMAIN cache : cache'[g] = cache[g]
    PROVE  Final(m)'
  <1>1. \A f : (Lists(mfs, m, f)' <=> Lists(mfs, m, f)) /\ (Had(m, f)' <=> Had(m, f))
    BY DEF Lists, Had
  <1>2. Listed(m)' = Listed(m)
    BY SameSource
  <1> SUFFICES ASSUME NEW f \in File
               PROVE  /\ Lists(mfs, m, f)' => /\ f \in DOMAIN cache' /\ ~cache'[f].deleted
                                              /\ mfs'[m].files[f] = Saved(cache[f])'
                                              /\ Had(m, f)' \/ f \in Listed(m)'
                      /\ Had(m, f)' \/ f \in Listed(m)' => f \in DOMAIN cache'
                      /\ /\ f \in DOMAIN cache' /\ ~cache'[f].deleted
                         /\ Had(m, f)' \/ (cache'[f].updated /\ f \in Listed(m)')
                         => Lists(mfs, m, f)'
    BY Zenon DEF Final
  <1>3. ASSUME Lists(mfs, m, f)
        PROVE  /\ f \in DOMAIN cache' /\ ~cache'[f].deleted
               /\ mfs'[m].files[f] = Saved(cache[f])' /\ (Had(m, f) \/ f \in Listed(m))
    BY <1>3 DEF Final, Saved
  <1>4. Had(m, f) \/ f \in Listed(m) => f \in DOMAIN cache
    BY DEF Final
  <1>5. f \in DOMAIN cache /\ ~cache[f].deleted /\ (Had(m, f) \/ (cache[f].updated /\ f \in Listed(m)))
          => Lists(mfs, m, f)
    BY DEF Final
  <1> QED
    BY <1>1, <1>2, <1>3, <1>4, <1>5

(* Entries that do not change are judged as before.                        *)
LEMMA JudgedKept ==
    ASSUME source' = source, began' = began, NEW f, NEW e, gz'[f] = gz[f]
    PROVE  (Good(e, f)' <=> Good(e, f)) /\ (Judged(f, e)' <=> Judged(f, e))
  <1>1. Good(e, f)' <=> Good(e, f)
    BY DEF Good
  <1> QED
    BY <1>1, SameSource, SameBegan DEF Judged

(* process_python and encrypt_file.                                        *)
LEMMA UpPrepare ==
    ASSUME Base, RunInv, RunInv', Running, pc \in {"python", "encrypt", "rewriting"},
           pc' \in {"encrypt", "rewriting", "load"},
           UNCHANGED <<gz, mfs, stage, mem, cache, todo, began, outcome>>
    PROVE  Running'
  <1>1. stage = 1 /\ cache = NoEntries /\ DOMAIN mem = {} /\ ~InStage'
    BY DEF RunInv, Phases, InStage
  <1>2. Agree(began)' /\ Verdicts' /\ Reasons'
    BY <1>1, Nothing DEF Running, Agree, Verdicts, Reasons
  <1>3. Intact'
    BY DEF Running, Intact, Good
  <1>4. \A m \in Manifest : ~Through(m)'
    BY <1>1, StageOfIs, StageManifests DEF Through
  <1> QED
    BY <1>2, <1>3, <1>4 DEF Running

(* A run starts from what the last one left.                               *)
LEMMA UpStart ==
    ASSUME Base, RunInv, RunInv', Rested, Start
    PROVE  Running'
  <1>0. /\ pc' = "python" /\ stage' = 1 /\ outcome' = "running" /\ cache' = NoEntries
        /\ began' = mfs /\ gz' = gz
    BY DEF Start, disk
  <1>1. DOMAIN mem' = {} /\ ~InStage'
    BY <1>0 DEF RunInv, Phases, InStage
  <1>2. Agree(began)' /\ Verdicts' /\ Reasons'
    BY <1>0, <1>1, Nothing DEF Rested, Agree, Verdicts, Reasons
  <1>3. Intact'
    BY <1>0 DEF Rested, AllGood, Intact, Good
  <1>4. \A m \in Manifest : ~Through(m)'
    BY <1>0, <1>1, StageOfIs, StageManifests DEF Through
  <1> QED
    BY <1>0, <1>2, <1>3, <1>4 DEF Running

(* A stage is loaded.                                                      *)
LEMMA UpLoad ==
    ASSUME Base, RunInv, RunInv', Running, Load
    PROVE  Running'
  <1>1. /\ pc = "load" /\ pc' = "update" /\ stage <= Len(Stages)
        /\ UNCHANGED <<source, gz, mfs, stage, cache, job, began, outcome>>
        /\ expected' = UNION {Listed(m) : m \in Members(Here)}
        /\ DOMAIN mem' = Members(Here) /\ DOMAIN todo' = Members(Here)
        /\ \A m \in Members(Here) : mem'[m] = mfs[m].files
    BY DEF Load, disk, hist
  <1>2. ~InStage /\ InStage' /\ Here' = Here
    BY <1>1 DEF InStage, Here
  <1>3. stage \in DOMAIN Stages
    BY <1>1, LayoutAssumption, LenProperties DEF Base, TypeOK
  <1>4. Members(Here) \subseteq Manifest /\ \A m \in Members(Here) : StageOf(m) = stage
    BY <1>3, StageManifests, StageOfIs DEF Here
  <1>5. \A m \in Members(Here) : mfs[m] = began[m]
    BY <1>1, <1>2, <1>4 DEF RunInv, Untouched, Unread, Base, TypeOK
  <1>6. Reasons'
    BY <1>1, <1>2, <1>5, SameSource DEF Reasons, Had, Lists
  <1>7. Agree(began)' /\ Intact'
    BY <1>1 DEF Running, Agree, Intact, Good
  <1>8. Verdicts'
    BY <1>1, JudgedKept DEF Running, Verdicts
  <1>9. ASSUME NEW m \in Manifest, Through(m)' PROVE Final(m)'
    <2>1. StageOf(m) = stage => m \in Members(Here)
      BY StageOfIs DEF Here
    <2>2. Through(m)
      BY <1>1, <1>2, <1>9, <2>1 DEF Through
    <2> QED
      BY <1>1, <2>2, FinalKept DEF Running
  <1> QED
    BY <1>1, <1>6, <1>7, <1>8, <1>9 DEF Running

(* Settling an entry that says what it should.  For the manifests the run  *)
(* is through with nothing changes: what they had or want has been settled *)
(* before.                                                                 *)
LEMMA UpSettle ==
    ASSUME Base, RunInv, Running, NEW f \in File, NEW info \in FileInfo, NEW into \in SUBSET Manifest,
           pc \in {"update", "compress"}, pc = "compress" => f = job.file, pc' = "update",
           Settle(f, info, into), Place(f, into),
           UNCHANGED <<source, mfs, stage, began, outcome>>,
           \A g \in File \ {f} : gz'[g] = gz[g],
           \/ f \in DOMAIN cache /\ info = cache[f] /\ gz'[f] = gz[f]
           \/ f \notin DOMAIN cache /\ Judged(f, info)'
    PROVE  Running'
  <1>0. TypeOK /\ InStage /\ InStage' /\ Here' = Here
    BY DEF Base, InStage, Here
  <1>1. /\ DOMAIN cache' = DOMAIN cache \cup {f} /\ cache'[f] = info
        /\ \A g \in DOMAIN cache : cache'[g] = cache[g]
    BY <1>0, SettleCache
  <1>2. /\ DOMAIN mem' = DOMAIN mem /\ expected' = expected \ {f}
        /\ \A m \in DOMAIN mem : m \notin into => mem'[m] = mem[m]
        /\ \A m \in DOMAIN mem \cap into : DOMAIN mem'[m] = DOMAIN mem[m] \cup {f}
    BY <1>0, SettleTodo, SettleMem
  <1>3. DOMAIN cache \subseteq File /\ \A m \in Manifest : DOMAIN began[m].files \subseteq File
    BY <1>0, EntriesAre, LayoutAssumption DEF TypeOK, Running, Agree, Wanted
  <1>4. Agree(began)'
    BY DEF Running, Agree
  <1>5. Intact'
    <2> SUFFICES ASSUME NEW m \in Manifest, NEW g \in DOMAIN began[m].files \ DOMAIN cache'
                 PROVE  Good(began[m].files[g], g)'
      BY DEF Intact, Good
    <2>1. g \notin DOMAIN cache /\ g # f
      BY <1>1
    <2>2. Good(began[m].files[g], g)
      BY <2>1 DEF Running, Intact
    <2>3. gz'[g] = gz[g]
      BY <1>3, <2>1
    <2> QED
      BY <2>2, <2>3 DEF Good
  <1>6. Verdicts'
    <2>1. ASSUME NEW g \in DOMAIN cache', NEW e, e = cache'[g] PROVE Judged(g, e)'
      <3>1. CASE g \in DOMAIN cache
        <4>1. Judged(g, e) /\ gz'[g] = gz[g]
          BY <1>1, <1>3, <2>1, <3>1 DEF Running, Verdicts
        <4> QED
          BY <4>1, JudgedKept
      <3>2. CASE g \notin DOMAIN cache
        <4>1. g = f /\ e = info
          BY <1>1, <2>1, <3>2
        <4> QED
          BY <3>2, <4>1
      <3> QED
        BY <3>1, <3>2
    <2> QED
      BY <2>1 DEF Verdicts, Judged, Good
  <1>7. Reasons'
    <2>1. ASSUME NEW m \in DOMAIN mem, m \in into PROVE Had(m, f) \/ f \in Listed(m)
      BY <2>1 DEF Place, RunInv, AsFound, Had, Lists
    <2>2. ASSUME NEW m \in DOMAIN mem, NEW g \in DOMAIN mem'[m] PROVE Had(m, g) \/ g \in Listed(m)
      BY <1>2, <2>1, <2>2 DEF Running, Reasons
    <2>3. \A g \in expected' : \E m \in Members(Here) : g \in Listed(m)
      BY <1>0, <1>2 DEF Running, Reasons
    <2> QED
      BY <1>0, <1>2, <2>2, <2>3, SameSource, SameBegan DEF Reasons
  <1>8. ASSUME NEW m \in Manifest, Through(m)' PROVE Final(m)'
    <2>1. Through(m)
      BY <1>0, <1>2, <1>8 DEF Through
    <2> QED
      BY <1>1, <2>1, FinalKept DEF Running
  <1> QED
    BY <1>4, <1>5, <1>6, <1>7, <1>8 DEF Running

(* A file has changed, and its .gz is begun.                               *)
LEMMA UpRecompress ==
    ASSUME Base, RunInv, Running, NEW f \in File, NEW info \in FileInfo, NEW into \in SUBSET Manifest,
           pc = "update", Recompress(f, info, into), f \notin DOMAIN cache
    PROVE  Running'
  <1>0. /\ InStage /\ InStage' /\ Here' = Here /\ pc' = "compress"
        /\ UNCHANGED <<source, mfs, stage, mem, cache, todo, expected, began, outcome>>
        /\ \A g \in File \ {f} : gz'[g] = gz[g]
    BY DEF Recompress, InStage, Here, hist, Base, TypeOK
  <1>1. PICK x \in FileInfo : x = [info EXCEPT !.hash = source[f]]
    BY InfoTypes DEF Recompress, Readable
  <1>2. job' = Job0(f, x, into)
    BY <1>1 DEF Recompress
  <1>3. job'.file = f
    BY <1>2, JobOf
  <1>4. DOMAIN cache \subseteq File /\ \A m \in Manifest : DOMAIN began[m].files \subseteq File
    BY EntriesAre, LayoutAssumption DEF Base, TypeOK, Running, Agree, Wanted
  <1>5. Agree(began)' /\ Reasons'
    BY <1>0, SameSource, SameBegan DEF Running, Agree, Reasons
  <1>6. Intact'
    <2> SUFFICES ASSUME NEW m \in Manifest, NEW g \in DOMAIN began[m].files \ DOMAIN cache, g # f
                 PROVE  Good(began[m].files[g], g)'
      BY <1>0, <1>3 DEF Intact, Good
    <2>1. Good(began[m].files[g], g)
      BY DEF Running, Intact
    <2>2. gz'[g] = gz[g]
      BY <1>0, <1>4
    <2> QED
      BY <1>0, <2>1, <2>2 DEF Good
  <1>7. Verdicts'
    BY <1>0, <1>4, JudgedKept DEF Running, Verdicts
  <1>8. \A m \in Manifest : Through(m)' => Final(m)'
    BY <1>0, FinalKept DEF Running, Through
  <1> QED
    BY <1>0, <1>5, <1>6, <1>7, <1>8 DEF Running

(* An entry that is marked as deleted keeps its hashes.                    *)
LEMMA DeletedInfo ==
    ASSUME NEW info \in FileInfo, NEW x, x = MarkDeleted(info)
    PROVE  /\ x.deleted = TRUE /\ x.updated = TRUE
           /\ x.hash = info.hash /\ x.down = info.down /\ x.packed = info.packed
  BY DEF MarkDeleted, FileInfo

(* What is settled of a file the run meets for the first time says what it *)
(* should: the entry is the one every manifest had that had any, or it is  *)
(* marked as deleted, or new; and a new one of a file that is not there    *)
(* is of a file that is referred to and that no manifest had.              *)
LEMMA FirstJudged ==
    ASSUME Base, RunInv, Running, NEW f \in File, pc = "update", f \notin DOMAIN cache,
           NEW info \in FileInfo, NEW notFound \in FileInfo, NEW into,
           FirstMet(f, info, notFound, into),
           NEW x, x = IF Exists(f) THEN info ELSE notFound
    PROVE  Judged(f, x)
  <1>1. CASE /\ info = NewInfo /\ notFound = NewInfo
             /\ f \in expected /\ \A m \in DOMAIN todo : todo[m] = {}
    <2>1. x.hash = Zero /\ x.updated = TRUE /\ x.deleted = FALSE
      BY <1>1 DEF NewInfo
    <2>2. ASSUME ~Exists(f), NEW k \in Manifest, Had(k, f) PROVE FALSE
      <3>0. InStage /\ stage \in DOMAIN Stages
        BY DEF InStage, Base, TypeOK
      <3>1. PICK m \in Members(Here) : f \in Listed(m)
        BY <1>1, <3>0 DEF Running, Reasons
      <3>2. f \in Refs[m] /\ m \in Manifest /\ m \in DOMAIN todo
        BY <2>2, <3>0, <3>1, StageManifests DEF Listed, RunInv, Phases, Here
      <3>3. Had(m, f)
        BY <2>2, <3>2 DEF Running, Agree, Had, Lists
      <3> QED
        BY <1>1, <3>0, <3>2, <3>3 DEF RunInv, Found
    <2> QED
      BY <2>1, <2>2 DEF Judged, Good
  <1>2. ASSUME NEW m \in DOMAIN mem, f \in todo[m], info = mem[m][f], notFound = MarkDeleted(info)
        PROVE  Judged(f, x)
    <2>1. m \in Manifest /\ f \in DOMAIN began[m].files /\ info = began[m].files[f]
      BY <1>2 DEF Base, TypeOK, RunInv, AsFound
    <2>2. ~info.updated /\ ~info.deleted
      BY <2>1 DEF RunInv, Stable, Plain
    <2>3. Good(info, f)
      BY <2>1 DEF Running, Intact
    <2>4. Had(m, f) /\ \A n \in Manifest : Had(n, f) => began[n].files[f] = info
      BY <2>1 DEF Running, Agree, Had, Lists
    <2>5. CASE Exists(f)
      BY <2>1, <2>2, <2>3, <2>4, <2>5 DEF Judged
    <2>6. CASE ~Exists(f)
      <3>1. /\ x.deleted = TRUE /\ x.updated = TRUE
            /\ x.hash = info.hash /\ x.down = info.down /\ x.packed = info.packed
        BY <1>2, <2>6, DeletedInfo
      <3>2. Good(x, f)
        BY <2>3, <3>1 DEF Good
      <3> QED
        BY <3>1, <3>2 DEF Judged
    <2> QED
      BY <2>5, <2>6
  <1> QED
    BY <1>1, <1>2 DEF FirstMet

(* update_cache_file and create_cache_file.                                *)
LEMMA UpEntry ==
    ASSUME Base, RunInv, Running, NEW f \in File,
           CreateCacheFile(f) \/ \E m \in Manifest : UpdateCacheFile(m, f)
    PROVE  Running'
  <1>1. pc = "update" /\ TypeOK /\ Listing
    BY EntrySteps DEF Base
  <1>2. PICK into \in SUBSET Manifest : Place(f, into) /\ EntryStep(f, into)
    BY <1>1, EntrySteps
  <1>3. ASSUME NEW x \in FileInfo, Kept(f, x, into),
               (f \in DOMAIN cache /\ x = cache[f]) \/ (f \notin DOMAIN cache /\ Judged(f, x))
        PROVE  Running'
    <2>1. /\ Settle(f, x, into) /\ pc' = "update"
          /\ UNCHANGED <<source, gz, mfs, stage, began, outcome>>
      BY <1>1, <1>3 DEF Kept, disk, hist
    <2>2. Judged(f, x)' <=> Judged(f, x)
      BY <2>1, JudgedKept
    <2> QED
      BY <1>1, <1>2, <1>3, <2>1, <2>2, UpSettle
  <1>4. CASE f \in DOMAIN cache /\ \E info \in FileInfo : info = cache[f] /\ Kept(f, info, into)
    BY <1>3, <1>4
  <1>5. ASSUME f \notin DOMAIN cache, NEW info \in FileInfo, NEW notFound \in FileInfo,
               Update(f, info, notFound, into), FirstMet(f, info, notFound, into)
        PROVE  Running'
    <2>1. CASE Recompress(f, info, into)
      BY <1>1, <1>5, <2>1, UpRecompress
    <2>2. ASSUME NEW x \in {info, notFound}, x = IF Exists(f) THEN info ELSE notFound, Kept(f, x, into)
          PROVE  Running'
      <3>1. Judged(f, x)
        BY <1>1, <1>5, <2>2, FirstJudged
      <3> QED
        BY <1>3, <1>5, <2>2, <3>1
    <2> QED
      BY <1>1, <1>5, <2>1, <2>2, UpdateCases
  <1> QED
    BY <1>2, <1>4, <1>5 DEF EntryStep

(* The entry x is of a file with the hash h, compressed from the bytes c.  *)
PackedAs(x, h, c) ==
    /\ x.hash = h /\ x.down = c /\ x.updated
    /\ x.packed = (c \in Compressible)

(* What compressing makes of an entry.                                     *)
LEMMA CompressedFields ==
    ASSUME NEW info \in FileInfo, NEW c \in Content
    PROVE  PackedAs(Compressed(info, c), info.hash, c)
  <1> DEFINE p == c \in Compressible
             x == Compressed(info, c)
  <1>1. x = [info EXCEPT !.down = c, !.packed = p, !.updated = TRUE]
    BY DEF Compressed
  <1> HIDE DEF p, x
  <1>2. x.hash = info.hash /\ x.down = c /\ x.packed = p /\ x.updated = TRUE
    BY <1>1 DEF FileInfo
  <1>3. x.packed = (c \in Compressible)
    BY <1>2 DEF p
  <1> QED
    BY <1>2, <1>3, Zenon DEF PackedAs, x

(* The .gz is finished.                                                    *)
LEMMA UpCompress ==
    ASSUME Base, RunInv, Running, Compress
    PROVE  Running'
  <1>1. /\ pc = "compress" /\ pc' = "update" /\ UNCHANGED <<source, mfs, stage, began, outcome>>
    BY DEF Compress, hist
  <1>2. PICK f \in File, t \in SUBSET Manifest, i \in FileInfo, c \in Content :
          f = job.file /\ t = job.into /\ i = job.info /\ c = source[f]
    BY <1>1 DEF Base, TypeOK, Job, Listing, Readable
  <1>3. Place(f, t) /\ f \notin DOMAIN cache /\ ~i.deleted /\ i.hash = c
    BY <1>1, <1>2 DEF RunInv, Pending, Place
  <1>4. PICK x \in FileInfo : x = Compressed(i, c)
    BY InfoTypes
  <1>5. PackedAs(x, c, c) /\ ~x.deleted
    <2>1. PackedAs(x, i.hash, c)
      BY <1>4, CompressedFields
    <2>2. x.deleted = i.deleted
      BY <1>4, CompressedInfo
    <2> QED
      BY <1>3, <2>1, <2>2
  <1>6. Settle(f, x, t)
    BY <1>2, <1>4 DEF Compress, Settle
  <1>7. (\A g \in File \ {f} : gz'[g] = gz[g]) /\ (c \in Compressible => gz'[f] = c)
    BY <1>2 DEF Compress, Base, TypeOK
  <1>8. Judged(f, x)'
    <2>1. Exists(f)'
      BY <1>1, <1>2, ContentAssumption DEF Exists
    <2>2. Good(x, f)'
      BY <1>5, <1>7 DEF Good, PackedAs
    <2> QED
      BY <1>5, <2>1, <2>2 DEF Judged, PackedAs
  <1> QED
    BY <1>1, <1>2, <1>3, <1>6, <1>7, <1>8, UpSettle

(* A manifest is opened for writing.                                       *)
LEMMA UpWriteOpen ==
    ASSUME Base, RunInv, Running, NEW m \in Manifest, WriteOpen(m)
    PROVE  Running'
  <1>0. /\ InStage /\ InStage' /\ Here' = Here /\ pc = "update" /\ pc' = "writing"
        /\ UNCHANGED <<source, gz, stage, mem, cache, todo, expected, began, outcome>>
        /\ m \in DOMAIN mem /\ \A n \in Manifest \ {m} : mfs'[n] = mfs[n]
    BY DEF WriteOpen, Unwritten, InStage, Here, hist, Base, TypeOK
  <1>1. StageOf(m) = stage /\ stage \in Nat
    BY <1>0, StageOfIs DEF RunInv, Phases, Base, TypeOK, InStage, Here
  <1>2. Agree(began)' /\ Reasons'
    BY <1>0, SameSource, SameBegan DEF Running, Agree, Reasons
  <1>3. Intact'
    BY <1>0 DEF Running, Intact, Good
  <1>4. Verdicts'
    BY <1>0, JudgedKept DEF Running, Verdicts
  <1>5. ASSUME NEW n \in Manifest, Through(n)' PROVE Final(n)'
    <2>1. Through(n) /\ n # m
      BY <1>0, <1>1, <1>5 DEF Through
    <2> QED
      BY <1>0, <2>1, FinalKept DEF Running
  <1> QED
    BY <1>0, <1>2, <1>3, <1>4, <1>5 DEF Running

(* What is stored of the entries in memory.                                *)
LEMMA StoredAre ==
    ASSUME NEW e \in Entries
    PROVE  /\ DOMAIN Stored(e) = {f \in DOMAIN e : ~e[f].deleted}
           /\ \A f \in DOMAIN Stored(e) : Stored(e)[f] = Saved(e[f])
  BY DEF Stored, Saved

(* A manifest is written, and holds what the cache holds.                  *)
LEMMA UpWriteEnd ==
    ASSUME Base, RunInv, Running, NEW m \in Manifest, WriteEnd(m)
    PROVE  Running'
  <1>0. /\ InStage /\ InStage' /\ Here' = Here /\ pc = "writing" /\ pc' = "update" /\ expected = {}
        /\ UNCHANGED <<source, gz, stage, cache, todo, expected, began, outcome>> /\ m \in job.into
    BY DEF WriteEnd, InStage, Here, hist, RunInv, Phases
  <1>1. m \in DOMAIN mem /\ mem[m] \in Entries /\ m \in DOMAIN todo /\ todo[m] = {}
    BY <1>0 DEF Base, TypeOK, Listing, RunInv, Phases
  <1>2. /\ DOMAIN mem' = DOMAIN mem \ {m} /\ \A n \in DOMAIN mem' : mem'[n] = mem[n]
        /\ mfs'[m].files = Stored(mem[m]) /\ \A n \in Manifest \ {m} : mfs'[n] = mfs[n]
    BY DEF WriteEnd, Base, TypeOK
  <1>3. Agree(began)' /\ Reasons'
    BY <1>0, <1>2, SameSource, SameBegan DEF Running, Agree, Reasons
  <1>4. Intact'
    BY <1>0 DEF Running, Intact, Good
  <1>5. Verdicts'
    BY <1>0, JudgedKept DEF Running, Verdicts
  <1>6. Final(m)'
    <2> SUFFICES ASSUME NEW f \in File
                 PROVE  /\ Lists(mfs, m, f)' => /\ f \in DOMAIN cache' /\ ~cache'[f].deleted
                                                /\ mfs'[m].files[f] = Saved(cache[f])'
                                                /\ Had(m, f)' \/ f \in Listed(m)'
                        /\ Had(m, f)' \/ f \in Listed(m)' => f \in DOMAIN cache'
                        /\ /\ f \in DOMAIN cache' /\ ~cache'[f].deleted
                           /\ Had(m, f)' \/ (cache'[f].updated /\ f \in Listed(m)')
                           => Lists(mfs, m, f)'
      BY Zenon DEF Final
    <2>1. (Had(m, f)' <=> Had(m, f)) /\ Listed(m)' = Listed(m)
      BY <1>0, SameSource, SameBegan
    <2>2. Had(m, f) \/ f \in Listed(m) <=> f \in DOMAIN mem[m]
      <3>1. f \in Listed(m) => f \in DOMAIN mem[m]
        BY <1>0, <1>1, ListedInMem DEF Running
      <3>2. Had(m, f) => f \in DOMAIN mem[m]
        BY <1>1 DEF RunInv, AsFound, Had, Lists
      <3>3. f \in DOMAIN mem[m] => Had(m, f) \/ f \in Listed(m)
        BY <1>1 DEF Running, Reasons
      <3> QED
        BY <3>1, <3>2, <3>3
    <2>3. f \in DOMAIN mem[m] => f \in DOMAIN cache /\ mem[m][f] = cache[f]
      BY <1>1 DEF RunInv, Settled
    <2>4. Lists(mfs, m, f)' <=> f \in DOMAIN mem[m] /\ ~mem[m][f].deleted
      BY <1>1, <1>2, StoredAre DEF Lists
    <2>5. Lists(mfs, m, f)' => mfs'[m].files[f] = Saved(cache[f])'
      <3>1. f \in DOMAIN Stored(mem[m]) => Stored(mem[m])[f] = Saved(mem[m][f])
        BY <1>1, StoredAre
      <3>2. Lists(mfs, m, f)' => mfs'[m].files[f] = Saved(mem[m][f])
        BY <1>2, <3>1 DEF Lists
      <3> QED
        BY <1>0, <2>3, <2>4, <3>2 DEF Saved
    <2> QED
      BY <1>0, <2>1, <2>2, <2>3, <2>4, <2>5
  <1>7. ASSUME NEW n \in Manifest, Through(n)', n # m PROVE Final(n)'
    <2>1. Through(n)
      BY <1>0, <1>2, <1>7 DEF Through
    <2> QED
      BY <1>0, <1>2, <1>7, <2>1, FinalKept DEF Running
  <1> QED
    BY <1>0, <1>3, <1>4, <1>5, <1>6, <1>7 DEF Running

(* A stage is through.  A manifest that is not written has only entries    *)
(* that are not marked as updated, and so are the ones the run found in    *)
(* it.                                                                     *)
LEMMA UpStageDone ==
    ASSUME Base, RunInv, Running, StageDone
    PROVE  Running'
  <1>0. /\ InStage /\ ~InStage' /\ pc = "update" /\ pc' = "load" /\ expected = {}
        /\ UNCHANGED <<source, gz, mfs, cache, expected, began, outcome>> /\ stage' = stage + 1
        /\ DOMAIN mem' = {} /\ DOMAIN todo' = {}
        /\ \A m \in DOMAIN todo : todo[m] = {}
        /\ \A m \in DOMAIN mem : \A f \in DOMAIN mem[m] : ~mem[m][f].updated
    BY DEF StageDone, InStage, disk, hist, Unwritten, AnyUpdated
  <1>1. /\ DOMAIN todo = Members(Here) /\ DOMAIN mem \subseteq Members(Here) /\ stage \in DOMAIN Stages
    BY <1>0 DEF RunInv, Phases, Base, TypeOK
  <1>2. \A m \in Manifest : StageOf(m) \in Nat /\ stage \in Nat
    BY StageOfIs, StageManifests DEF Base, TypeOK
  <1>3. Agree(began)' /\ Reasons'
    BY <1>0 DEF Running, Agree, Reasons
  <1>4. Intact'
    BY <1>0 DEF Running, Intact, Good
  <1>5. Verdicts'
    BY <1>0, JudgedKept DEF Running, Verdicts
  <1>6. ASSUME NEW m \in DOMAIN mem PROVE Final(m)
    <2>1. m \in Manifest /\ StageOf(m) = stage /\ todo[m] = {}
      BY <1>0, <1>1, StageManifests, StageOfIs DEF Here
    <2>2. mfs[m] = began[m]
      BY <1>0, <1>2, <2>1 DEF RunInv, Untouched, Unread
    <2>3. ASSUME NEW f \in DOMAIN mem[m] PROVE f \in DOMAIN cache /\ mem[m][f] = cache[f] /\ ~cache[f].updated
      BY <1>0, <2>1 DEF RunInv, Settled
    <2>4. \A f : Lists(mfs, m, f) <=> Had(m, f)
      BY <2>2 DEF Had, Lists
    <2>5. \A f : Had(m, f) => f \in DOMAIN mem[m]
      BY DEF RunInv, AsFound, Had, Lists
    <2>6. \A f \in Listed(m) : f \in DOMAIN mem[m]
      BY <1>0, ListedInMem DEF Running
    <2>7. ASSUME NEW f \in File, Had(m, f)
          PROVE  ~cache[f].deleted /\ mfs[m].files[f] = Saved(cache[f])
      <3>1. f \in DOMAIN cache /\ ~cache[f].updated
        BY <2>3, <2>5, <2>7
      <3>2. ~cache[f].deleted /\ began[m].files[f] = cache[f]
        BY <2>1, <2>7, <3>1 DEF Running, Verdicts, Judged
      <3>3. cache[f] \in FileInfo
        BY <3>1, EntriesAre DEF Base, TypeOK
      <3>4. Saved(cache[f]) = cache[f]
        BY <3>1, <3>3 DEF Saved, FileInfo
      <3> QED
        BY <2>2, <3>2, <3>4
    <2> QED
      BY <2>3, <2>4, <2>5, <2>6, <2>7 DEF Final
  <1>7. ASSUME NEW m \in Manifest, Through(m)' PROVE Final(m)'
    <2>1. m \in DOMAIN mem \/ Through(m)
      BY <1>0, <1>2, <1>7 DEF Through
    <2>2. Final(m)
      BY <1>6, <2>1 DEF Running
    <2> QED
      BY <1>0, <2>2, FinalKept
  <1> QED
    BY <1>0, <1>3, <1>4, <1>5, <1>7 DEF Running

(* Saving an entry keeps its hashes.                                       *)
LEMMA SavedFields ==
    ASSUME NEW e \in FileInfo
    PROVE  /\ Saved(e).hash = e.hash /\ Saved(e).down = e.down /\ Saved(e).packed = e.packed
           /\ ~e.updated => Saved(e) = e
  BY DEF Saved, FileInfo

(* When the run is through with every manifest, they agree again, their    *)
(* downloads are good, and they describe the files there are.              *)
LEMMA AllThrough ==
    ASSUME Base, RunInv, Running, pc # "idle", \A m \in Manifest : Final(m)
    PROVE  Agree(mfs) /\ AllGood /\ \A m \in Manifest : Described(m)
  <1>0. Agree(began) /\ outcome = "running"
    BY DEF Running
  <1>1. ASSUME NEW m \in Manifest, NEW f \in DOMAIN mfs[m].files
        PROVE  /\ f \in File /\ f \in DOMAIN cache /\ ~cache[f].deleted /\ cache[f] \in FileInfo
               /\ mfs[m].files[f] = Saved(cache[f])
               /\ Had(m, f) \/ f \in Listed(m)
    <2>1. f \in File
      BY EntriesAre DEF Base, TypeOK
    <2> QED
      BY <2>1, EntriesAre DEF Final, Lists, Base, TypeOK
  <1>2. ASSUME NEW m \in Manifest, NEW f \in File, f \in DOMAIN cache, ~cache[f].deleted,
               Had(m, f) \/ (cache[f].updated /\ f \in Listed(m))
        PROVE  f \in DOMAIN mfs[m].files
    BY <1>2 DEF Final, Lists
  <1>3. ASSUME NEW f \in DOMAIN cache PROVE Judged(f, cache[f])
    BY DEF Running, Verdicts
  <1>4. ASSUME NEW f \in DOMAIN cache, ~cache[f].updated
        PROVE  \E k \in Manifest : Had(k, f) /\ began[k].files[f] = cache[f]
    BY <1>3, <1>4 DEF Judged
  <1>5. \A m \in Manifest : Listed(m) \subseteq Wanted(m)
    BY DEF Listed, Wanted
  <1>6. Agree(mfs)
    <2> SUFFICES ASSUME NEW m \in Manifest, NEW n \in Manifest, NEW f \in DOMAIN mfs[m].files
                 PROVE  /\ f \in Wanted(m)
                        /\ f \in DOMAIN mfs[n].files => mfs[n].files[f] = mfs[m].files[f]
                        /\ f \in Wanted(n) /\ (mfs[m].files[f].hash # Zero \/ f \notin AllRefs)
                             => f \in DOMAIN mfs[n].files
                        /\ f \in Refs[n] => f \in DOMAIN mfs[n].files
      BY DEF Agree
    <2>1. f \in Wanted(m)
      BY <1>0, <1>1, <1>5 DEF Agree, Had, Lists
    <2>2. f \in DOMAIN mfs[n].files => mfs[n].files[f] = mfs[m].files[f]
      BY <1>1
    <2>3. ASSUME f \in Wanted(n), mfs[m].files[f].hash # Zero \/ f \notin AllRefs
          PROVE  f \in DOMAIN mfs[n].files
      <3>0. cache[f].hash # Zero \/ f \notin AllRefs
        BY <1>1, <2>3, SavedFields
      <3>1. CASE ~cache[f].updated
        <4>1. PICK k \in Manifest : Had(k, f) /\ began[k].files[f] = cache[f]
          BY <1>1, <1>4, <3>1
        <4>2. Had(n, f)
          BY <1>0, <2>3, <3>0, <4>1 DEF Agree, Had, Lists
        <4> QED
          BY <1>1, <1>2, <4>2
      <3>2. CASE cache[f].updated /\ Exists(f)
        BY <1>1, <1>2, <2>3, <3>2 DEF Listed, Wanted
      <3>3. CASE ~Exists(f)
        <4>1. cache[f].hash = Zero /\ ~Had(m, f)
          BY <1>1, <1>3, <3>3 DEF Judged
        <4>2. f \in Refs[m]
          BY <1>1, <3>3, <4>1 DEF Listed
        <4> QED
          BY <3>0, <4>1, <4>2 DEF AllRefs
      <3> QED
        BY <3>1, <3>2, <3>3
    <2>4. ASSUME f \in Refs[n] PROVE f \in DOMAIN mfs[n].files
      <3>1. CASE cache[f].updated
        BY <1>1, <1>2, <2>4, <3>1 DEF Listed
      <3>2. CASE ~cache[f].updated
        <4>1. PICK k \in Manifest : Had(k, f)
          BY <1>1, <1>4, <3>2
        <4>2. Had(n, f)
          BY <1>0, <2>4, <4>1 DEF Agree, Had, Lists
        <4> QED
          BY <1>1, <1>2, <4>2
      <3> QED
        BY <3>1, <3>2
    <2> QED
      BY <2>1, <2>2, <2>3, <2>4
  <1>7. AllGood
    <2> SUFFICES ASSUME NEW m \in Manifest, NEW f \in DOMAIN mfs[m].files
                 PROVE  Good(mfs[m].files[f], f)
      BY DEF AllGood
    <2>1. Good(cache[f], f)
      BY <1>1, <1>3 DEF Judged
    <2> QED
      BY <1>1, <2>1, SavedFields DEF Good
  <1>8. ASSUME NEW m \in Manifest PROVE Described(m)
    <2>1. ASSUME NEW f \in Listed(m), Readable(f) PROVE Fresh(mfs, m, f) /\ Sound(m, f)
      <3>0. f \in File /\ Exists(f) /\ source[f] # Zero
        BY <2>1, LayoutAssumption, ContentAssumption DEF Listed, Readable, Exists
      <3>1. f \in DOMAIN cache
        BY <3>0 DEF Final
      <3>2. cache[f].hash = source[f] /\ ~cache[f].deleted
        BY <1>0, <2>1, <3>0, <3>1 DEF RunInv, Cached
      <3>3. f \in DOMAIN mfs[m].files
        <4>1. CASE cache[f].updated
          BY <1>2, <3>0, <3>1, <3>2, <4>1
        <4>2. CASE ~cache[f].updated
          <5>1. PICK k \in Manifest : Had(k, f) /\ began[k].files[f] = cache[f]
            BY <1>4, <3>1, <4>2
          <5>2. Had(m, f)
            BY <1>0, <1>5, <3>0, <3>2, <5>1 DEF Agree, Had, Lists
          <5> QED
            BY <1>2, <3>0, <3>1, <3>2, <5>2
        <4> QED
          BY <4>1, <4>2
      <3>4. mfs[m].files[f].hash = source[f]
        BY <1>1, <3>2, <3>3, SavedFields
      <3>5. Good(mfs[m].files[f], f)
        BY <1>7, <3>3 DEF AllGood
      <3>6. Sound(m, f)
        BY <3>0, <3>4, <3>5 DEF Good, Sound
      <3> QED
        BY <3>3, <3>4, <3>6 DEF Fresh, Lists
    <2>2. ASSUME NEW f \in DOMAIN mfs[m].files PROVE Exists(f) \/ f \in Refs[m]
      <3>1. ~Exists(f) => ~Had(m, f)
        BY <1>1, <1>3 DEF Judged
      <3> QED
        BY <1>1, <3>1 DEF Listed
    <2> QED
      BY <2>1, <2>2 DEF Described
  <1> QED
    BY <1>6, <1>7, <1>8

(* A run ends well.                                                        *)
LEMMA UpFinish ==
    ASSUME Base, RunInv, Running, Finish
    PROVE  Rested'
  <1>1. pc = "load" /\ stage > Len(Stages) /\ UNCHANGED <<source, gz, mfs>>
    BY DEF Finish, disk
  <1>2. ASSUME NEW m \in Manifest PROVE Final(m)
    <2>1. StageOf(m) <= Len(Stages) /\ StageOf(m) \in Nat /\ Len(Stages) \in Nat
      BY StageOfIs, StageManifests, LayoutAssumption, LenProperties
    <2>2. StageOf(m) < stage
      BY <1>1, <2>1 DEF Base, TypeOK
    <2> QED
      BY <2>2 DEF Running, Through
  <1>3. Agree(mfs) /\ AllGood /\ \A m \in Manifest : Described(m)
    BY <1>1, <1>2, AllThrough
  <1>4. Agree(mfs)' /\ AllGood'
    BY <1>1, <1>3 DEF Agree, AllGood, Good
  <1>5. ASSUME NEW m \in Manifest PROVE Described(m)'
    <2>1. \A f : (Fresh(mfs, m, f)' <=> Fresh(mfs, m, f)) /\ (Sound(m, f)' <=> Sound(m, f))
      BY <1>1 DEF Fresh, Sound, Lists
    <2> QED
      BY <1>1, <1>3, <2>1, SameSource DEF Described
  <1> QED
    BY <1>4, <1>5 DEF Rested

(* Every step keeps the invariant: one that is cut short or skips a stage  *)
(* ends the history it is about.                                           *)
LEMMA UpNext == Base /\ RunInv /\ RunInv' /\ UpInv /\ [Next]_vars => UpInv'
  <1> SUFFICES ASSUME Base, RunInv, RunInv', UpInv, [Next]_vars PROVE UpInv'
    OBVIOUS
  <1>1. CASE UNCHANGED vars
    <2>0. UNCHANGED clean
      BY <1>1 DEF vars, hist
    <2>1. UNCHANGED <<source, gz, mfs, pc, stage, mem, cache, todo, expected, job, began, outcome>>
      BY <1>1 DEF vars, disk, tool, hist
    <2>2. (InStage' <=> InStage) /\ Here' = Here
      BY <2>1 DEF InStage, Here
    <2>3. Rested => Rested'
      <3>1. \A m, f : (Fresh(mfs, m, f)' <=> Fresh(mfs, m, f)) /\ (Sound(m, f)' <=> Sound(m, f))
        BY <2>1 DEF Fresh, Sound, Lists
      <3>2. \A m : Described(m)' <=> Described(m)
        BY <2>1, <3>1, SameSource DEF Described
      <3> QED
        BY <2>1, <3>2 DEF Rested, Agree, AllGood, Good
    <2>4. ASSUME Running PROVE Running'
      <3>1. Agree(began)' /\ Reasons'
        BY <2>1, <2>2, <2>4, SameSource, SameBegan DEF Running, Agree, Reasons
      <3>2. Intact'
        BY <2>1, <2>4 DEF Running, Intact, Good
      <3>3. Verdicts'
        BY <2>1, <2>4, JudgedKept DEF Running, Verdicts
      <3>4. \A m \in Manifest : Through(m)' => Final(m)'
        BY <2>1, <2>2, <2>4, FinalKept DEF Running, Through
      <3> QED
        BY <2>1, <2>4, <3>1, <3>2, <3>3, <3>4 DEF Running
    <2> QED
      BY <2>0, <2>1, <2>3, <2>4 DEF UpInv
  <1>2. ASSUME NEW f \in File, Edit(f) PROVE UpInv'
    <2>1. pc = "idle" /\ pc' = "idle" /\ outcome' = "edited" /\ UNCHANGED <<gz, mfs, clean>>
      BY <1>2 DEF Edit
    <2> QED
      BY <2>1 DEF UpInv, Rested, Agree, AllGood, Good
  <1>3. CASE Start
    <2>1. pc = "idle" /\ pc' = "python" /\ clean' = clean
      BY <1>3 DEF Start
    <2> QED
      BY <1>3, <2>1, UpStart DEF UpInv
  <1>4. CASE Prepares
    BY <1>4, PreparesIs, UpPrepare DEF UpInv
  <1>5. CASE Skip \/ LoadFails \/ CompressFails \/ Crash
    <2>1. clean' = FALSE
      BY <1>5 DEF Skip, LoadFails, CompressFails, Crash
    <2> QED
      BY <2>1 DEF UpInv
  <1>6. CASE Finish
    <2>1. pc = "load" /\ pc' = "idle" /\ clean' = clean
      BY <1>6 DEF Finish, Stop
    <2> QED
      BY <1>6, <2>1, UpFinish DEF UpInv
  <1>7. ASSUME pc \in {"load", "update", "compress", "writing"}, clean' = clean, pc' # "idle",
               Running => Running'
        PROVE  UpInv'
    BY <1>7 DEF UpInv
  <1>8. CASE Load
    BY <1>7, <1>8, UpLoad DEF Load, hist
  <1>9. CASE Compress
    BY <1>7, <1>9, UpCompress DEF Compress, hist
  <1>10. CASE StageDone
    BY <1>7, <1>10, UpStageDone DEF StageDone, hist
  <1>11. ASSUME NEW m \in Manifest, WriteOpen(m) PROVE UpInv'
    BY <1>7, <1>11, UpWriteOpen DEF WriteOpen, hist
  <1>12. ASSUME NEW m \in Manifest, WriteEnd(m) PROVE UpInv'
    BY <1>7, <1>12, UpWriteEnd DEF WriteEnd, hist
  <1>13. ASSUME NEW f \in File, CreateCacheFile(f) \/ \E m \in Manifest : UpdateCacheFile(m, f)
         PROVE  UpInv'
    <2>1. pc = "update" /\ TypeOK /\ Listing
      BY <1>13, EntrySteps DEF Base
    <2>2. PICK into \in SUBSET Manifest : EntryStep(f, into)
      BY <1>13, <2>1, EntrySteps
    <2>3. \A x \in FileInfo : Kept(f, x, into) => pc' = "update" /\ clean' = clean
      BY <2>1 DEF Kept, hist
    <2>4. \A x \in FileInfo : Recompress(f, x, into) => pc' = "compress" /\ clean' = clean
      BY DEF Recompress, hist
    <2>5. ASSUME NEW info \in FileInfo, NEW notFound \in FileInfo, Update(f, info, notFound, into)
          PROVE  pc' # "idle" /\ clean' = clean
      BY <2>1, <2>3, <2>4, <2>5, UpdateCases
    <2>6. pc' # "idle" /\ clean' = clean
      BY <2>2, <2>3, <2>5 DEF EntryStep
    <2> QED
      BY <1>7, <1>13, <2>1, <2>6, UpEntry
  <1> QED
    BY <1>1, <1>2, <1>3, <1>4, <1>5, <1>6, <1>8, <1>9, <1>10, <1>11, <1>12, <1>13 DEF Next, Prepares

(* As long as no run was cut short and none skipped a stage, a run leaves  *)
(* every manifest listing exactly the files there are, with their hashes   *)
(* and with downloads that unpack to them (cache_clients over any history  *)
(* of edits, in any layout of ages and clients).                           *)
THEOREM WholeRunsDescribeTheDisk == Spec => []UpToDate
  <1>1. RunInv /\ UpInv => UpToDate
    BY DEF RunInv, Phases, UpInv, Rested, UpToDate
  <1>2. Spec => []Base
    BY Typed, PTL DEF Base
  <1>3. Spec => []UpInv
    BY <1>2, RunInvariant, UpInit, UpNext, PTL DEF Spec
  <1> QED
    BY <1>1, <1>3, RunInvariant, PTL

-----------------------------------------------------------------------------
(* A manifest that a crash has left torn.  from_cache fails on it, so a    *)
(* run that comes to its stage ends there, before anything of that stage   *)
(* is written.                                                             *)
WasTorn(m) == began[m].kind = "torn"

(* What is torn when a run begins is torn when it ends, and the run is not *)
(* whole unless the stage of the manifest was skipped (write_cache and     *)
(* from_cache of src/file_srv/manifest.rs): nothing the tool does mends it. *)
TornForGood == \A m \in Manifest : WasTorn(m) =>
    /\ mfs[m].kind = "torn"
    /\ outcome = "whole" => m \notin Processed

TornInv == \A m \in Manifest : WasTorn(m) =>
    /\ mfs[m].kind = "torn"
    /\ InStage => StageOf(m) # stage
    /\ pc # "idle" /\ StageOf(m) < stage => Skipped(StageOf(m))
    /\ outcome = "whole" => Skipped(StageOf(m))

(* No manifest is torn at first.                                           *)
LEMMA TornInit == Init => TornInv
  BY DEF Init, TornInv, WasTorn, Missing

(* The step of a run that writes no manifest and goes to no other stage.   *)
LEMMA TornKept ==
    ASSUME TornInv, source' = source, began' = began, stage' = stage, outcome' # "whole",
           pc # "idle", InStage' => InStage,
           \A m \in Manifest : mfs'[m] = mfs[m] \/ (InStage /\ StageOf(m) = stage)
    PROVE  TornInv'
  <1> SUFFICES ASSUME NEW m \in Manifest, WasTorn(m)
               PROVE  /\ mfs'[m].kind = "torn"
                      /\ InStage' => StageOf(m) # stage
                      /\ StageOf(m) < stage => Skipped(StageOf(m))'
    BY DEF TornInv, WasTorn
  <1> QED
    BY SameSource DEF TornInv

(* Every step keeps it.                                                    *)
LEMMA TornNext == Base /\ RunInv /\ RunInv' /\ TornInv /\ [Next]_vars => TornInv'
  <1> SUFFICES ASSUME Base, RunInv, RunInv', TornInv, [Next]_vars PROVE TornInv'
    OBVIOUS
  <1>s. \A m \in Manifest : StageOf(m) \in Nat \ {0} /\ stage \in Nat /\ StageOf(m) <= Len(Stages)
    BY StageOfIs, StageManifests DEF Base, TypeOK
  <1>1. CASE UNCHANGED vars
    <2>1. UNCHANGED <<source, mfs, pc, stage, began, outcome>> /\ (InStage' <=> InStage)
      BY <1>1 DEF vars, disk, tool, hist, InStage
    <2> QED
      BY <2>1, SameSource DEF TornInv, WasTorn
  <1>2. ASSUME NEW f \in File, Edit(f) PROVE TornInv'
    <2>1. pc' = "idle" /\ ~InStage' /\ outcome' = "edited" /\ UNCHANGED <<mfs, began>>
      BY <1>2 DEF Edit, InStage
    <2> QED
      BY <2>1 DEF TornInv, WasTorn
  <1>3. CASE Start
    <2>1. ~InStage' /\ stage' = 1 /\ outcome' = "running" /\ began' = mfs /\ mfs' = mfs
      BY <1>3 DEF Start, InStage, disk
    <2> QED
      BY <1>s, <2>1 DEF TornInv, WasTorn
  <1>4. CASE Prepares
    <2>1. stage = 1 /\ outcome' # "whole" /\ ~InStage' /\ UNCHANGED <<mfs, stage, began>>
      BY <1>4, PreparesIs DEF RunInv, Phases, InStage
    <2> QED
      BY <1>s, <2>1 DEF TornInv, WasTorn
  <1>5. CASE Skip
    <2>1. /\ pc = "load" /\ pc' = "load" /\ Skipped(stage) /\ stage' = stage + 1
          /\ UNCHANGED <<source, mfs, began, outcome>> /\ ~InStage'
      BY <1>5 DEF Skip, disk, InStage
    <2>2. outcome # "whole"
      BY <2>1 DEF RunInv, Phases
    <2> QED
      BY <1>s, <2>1, <2>2, SameSource DEF TornInv, WasTorn
  <1>6. CASE Load
    <2>1. /\ pc = "load" /\ pc' = "update" /\ ~Unparsed
          /\ UNCHANGED <<source, mfs, stage, began, outcome>>
      BY <1>6 DEF Load, disk, hist
    <2>2. outcome # "whole"
      BY <2>1 DEF RunInv, Phases
    <2>3. ASSUME NEW m \in Manifest, mfs[m].kind = "torn" PROVE StageOf(m) # stage
      BY <2>1, <2>3, StageOfIs DEF Unparsed, Here
    <2> QED
      BY <2>1, <2>2, <2>3, SameSource DEF TornInv, WasTorn
  <1>7. CASE LoadFails \/ Finish \/ Crash
    <2>1. PICK how : Stop(how)
      BY <1>7, Zenon DEF LoadFails, Finish, Crash
    <2>2. /\ UNCHANGED <<source, mfs, began>>
          /\ \/ outcome' = "failed"
             \/ outcome' = "whole" /\ stage > Len(Stages) /\ pc = "load"
      BY <1>7 DEF LoadFails, Finish, Crash, Stop, disk
    <2>3. pc' = "idle" /\ ~InStage'
      BY <2>1 DEF Stop, InStage
    <2>4. Len(Stages) \in Nat
      BY LayoutAssumption, LenProperties
    <2> QED
      BY <1>s, <2>2, <2>3, <2>4, SameSource DEF TornInv, WasTorn
  <1>8. CASE Compress \/ CompressFails
    <2>1. /\ pc = "compress" /\ UNCHANGED <<source, mfs, stage, began>>
          /\ outcome' \in {outcome, "failed"}
      BY <1>8 DEF Compress, CompressFails, disk, hist
    <2>2. outcome # "whole" /\ InStage
      BY <2>1 DEF RunInv, Phases, InStage
    <2> QED
      BY <2>1, <2>2, TornKept
  <1>9. CASE StageDone
    <2>1. /\ pc = "update" /\ pc' = "load" /\ stage' = stage + 1
          /\ UNCHANGED <<source, mfs, began, outcome>> /\ InStage /\ ~InStage'
      BY <1>9 DEF StageDone, disk, hist, InStage
    <2>2. outcome # "whole"
      BY <2>1 DEF RunInv, Phases
    <2> QED
      BY <1>s, <2>1, <2>2, SameSource DEF TornInv, WasTorn
  <1>10. ASSUME NEW m \in Manifest, WriteOpen(m) \/ WriteEnd(m) PROVE TornInv'
    <2>1. pc \in {"update", "writing"} /\ UNCHANGED <<source, stage, began, outcome>> /\ InStage
      BY <1>10 DEF WriteOpen, WriteEnd, hist, InStage
    <2>2. m \in DOMAIN mem /\ \A n \in Manifest \ {m} : mfs'[n] = mfs[n]
      BY <1>10 DEF WriteOpen, WriteEnd, Unwritten, Base, Listing, TypeOK
    <2>3. StageOf(m) = stage
      BY <2>1, <2>2, StageOfIs DEF RunInv, Phases, Base, TypeOK, InStage, Here
    <2>4. outcome # "whole" /\ pc # "idle"
      BY <2>1 DEF RunInv, Phases
    <2> QED
      BY <2>1, <2>2, <2>3, <2>4, TornKept
  <1>11. ASSUME NEW f \in File, CreateCacheFile(f) \/ \E m \in Manifest : UpdateCacheFile(m, f)
         PROVE  TornInv'
    <2>1. pc = "update" /\ TypeOK /\ Listing /\ InStage
      BY <1>11, EntrySteps DEF Base, InStage
    <2>2. PICK into \in SUBSET Manifest : EntryStep(f, into)
      BY <1>11, <2>1, EntrySteps
    <2>3. \A x \in FileInfo : Kept(f, x, into) => UNCHANGED <<source, mfs, stage, began, outcome>>
      BY DEF Kept, disk, hist
    <2>4. \A x \in FileInfo : Recompress(f, x, into) => UNCHANGED <<source, mfs, stage, began, outcome>>
      BY DEF Recompress, hist
    <2>5. ASSUME NEW info \in FileInfo, NEW notFound \in FileInfo, Update(f, info, notFound, into)
          PROVE  UNCHANGED <<source, mfs, stage, began, outcome>>
      BY <2>1, <2>3, <2>4, <2>5, UpdateCases
    <2>6. UNCHANGED <<source, mfs, stage, began, outcome>>
      BY <2>2, <2>3, <2>5 DEF EntryStep
    <2>7. outcome # "whole" /\ pc # "idle"
      BY <2>1 DEF RunInv, Phases
    <2> QED
      BY <2>1, <2>6, <2>7, TornKept
  <1> QED
    BY <1>1, <1>2, <1>3, <1>4, <1>5, <1>6, <1>7, <1>8, <1>9, <1>10, <1>11 DEF Next, Prepares

(* After a crash inside write_cache no run mends the manifest, and none    *)
(* that comes to it is whole: since a run begins with what the last one    *)
(* left, that is so of all later runs, until somebody deletes the file.    *)
THEOREM TornManifestsAreForGood == Spec => []TornForGood
  <1>1. TornInv => TornForGood
    BY DEF TornInv, TornForGood, Processed
  <1>2. Spec => []Base
    BY Typed, PTL DEF Base
  <1>3. Spec => []TornInv
    BY <1>2, RunInvariant, TornInit, TornNext, PTL DEF Spec
  <1> QED
    BY <1>1, <1>3, PTL
=============================================================================
