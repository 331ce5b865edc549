---------------------------- MODULE BackupCatalog ----------------------------
(***************************************************************************)
(* The Backup Center of an installation on SQLite: the copies of the       *)
(* database in the backup folder (and in the folder used before it), the   *)
(* catalogue that describes them (metadata.json), and the ways to restore  *)
(* the database from a copy or from an upload.                             *)
(*                                                                         *)
(* The catalogue is read whole and written whole, without a lock, and a    *)
(* write first empties the file: loading, emptying and writing are steps   *)
(* of their own.  A worker may be killed between any two steps.  Looking   *)
(* through the folders and testing the files found is one step, so is the  *)
(* copying of one file.  A file is what the database was when it was       *)
(* copied, or Torn, or Empty.  Display names, notes, sizes and times are   *)
(* left out; PostgreSQL turns every operation away and is not modelled.    *)
(***************************************************************************)
EXTENDS Naturals, FiniteSets, SequencesExt

CONSTANTS
  Workers,
  Snapshots,  \* what the database may hold
  Torn,       \* a file with pages of several moments
  Empty,      \* a file without a table
  NoFile,     \* what is found where there is no file
  Exts,       \* bound: extensions of uploads, "sqlite3" among them or not
  MaxUuids,   \* bound: identifiers drawn
  MaxJobs,    \* bound: jobs begun
  MaxSecond   \* bound: the last second that names are made from

ASSUME BackupConstants ==
  /\ Torn # Empty /\ NoFile \notin {Torn, Empty}
  /\ {Torn, Empty, NoFile} \intersect Snapshots = {}
  /\ Snapshots # {} /\ MaxUuids \in Nat /\ MaxJobs \in Nat /\ MaxSecond \in Nat \ {0}

VARIABLES
  db,         \* the database the application runs on
  folder,     \* the files of BACKUP_FOLDER
  oldFolder,  \* the files of the folder used before
  uploaded,   \* restore_temp.sqlite
  catalogue,  \* metadata.json of BACKUP_FOLDER
  second,     \* the clock, as far as names go
  drawn,      \* identifiers drawn so far
  begun,      \* jobs begun so far
  work        \* what each worker is about to do

files == <<folder, oldFolder, uploaded>>
clock == <<second, drawn, begun>>
vars == <<db, files, catalogue, clock, work>>

Nothing == <<>>
NoSum == NoFile
Contents == Snapshots \union {Torn, Empty}

(* A file is known by the kind of its name and the second, or the          *)
(* identifier, the name is made from.  The scan skips *.sqlite3.           *)
Backup(sec) == [kind |-> "backup", of |-> sec]
Import(sec, ext) == [kind |-> "import", of |-> sec, ext |-> ext]
Upload(ext, id) == [kind |-> "upload", of |-> id, ext |-> ext]
Old == [kind |-> "old"]
Scanned(name) == name.kind \in {"import", "upload"} => name.ext # "sqlite3"

(* metadata.json of the old folder: read with the other, never written.    *)
OldEntries == [id \in {0} |-> [file |-> Old, status |-> "Valid", sum |-> NoSum]]

Whole(entries) == [text |-> "whole", entries |-> entries]
Blank == [text |-> "blank", entries |-> Nothing]
Garbled == [text |-> "garbled", entries |-> Nothing]

(* f with the pairs of g where f has none.                                 *)
Over(f, g) == [x \in DOMAIN f \union DOMAIN g |-> IF x \in DOMAIN f THEN f[x] ELSE g[x]]
Single(x, y) == [z \in {x} |-> y]
Without(f, x) == [y \in DOMAIN f \ {x} |-> f[y]]

(* A file that cannot be read is passed over; entries of the old one win.  *)
Loaded == Over(OldEntries, catalogue.entries)

Present == DOMAIN folder \union DOMAIN oldFolder
Place(name) == IF name \in DOMAIN oldFolder \ DOMAIN folder THEN "old" ELSE "new"
Content(name) ==
  CASE name \in DOMAIN folder -> folder[name]
    [] name \in DOMAIN oldFolder \ DOMAIN folder -> oldFolder[name]
    [] OTHER -> NoFile
Integrity(content) ==
  CASE content = NoFile -> "File Missing"
    [] content \in Snapshots -> "Valid"
    [] OTHER -> "Invalid"

Idle == [at |-> "idle", job |-> "none", alone |-> TRUE, id |-> 0, file |-> Nothing,
         place |-> "new", tested |-> FALSE, data |-> Nothing, todo |-> Nothing, sum |-> NoSum]

Init ==
  /\ db \in Snapshots
  /\ folder = Nothing
  /\ \E copy \in Snapshots : oldFolder = Single(Old, copy)
  /\ uploaded = NoFile
  /\ catalogue = Whole(Nothing)
  /\ second = 1
  /\ drawn = 0
  /\ begun = 0
  /\ work = [w \in Workers |-> Idle]

-----------------------------------------------------------------------------
(* A worker begins a job.  alone is history: it stays true as long as no   *)
(* other worker is at work.                                                *)
Begin(w, job) ==
  /\ work[w] = Idle
  /\ begun < MaxJobs
  /\ begun' = begun + 1
  /\ work' = [v \in Workers |->
       IF v = w THEN [job EXCEPT !.alone = \A u \in Workers \ {w} : work[u] = Idle]
       ELSE IF work[v] = Idle THEN Idle ELSE [work[v] EXCEPT !.alone = FALSE]]

Goes(w, job) == work' = [work EXCEPT ![w] = job]
Ends(w) == Goes(w, Idle)

(* The next name is made in the second of the last one, or in a later one. *)
TimePasses ==
  /\ second' \in {second, second + 1}
  /\ second' <= MaxSecond

Draw ==
  /\ drawn < MaxUuids
  /\ drawn' = drawn + 1

(* BackupRepository.save: load, set one entry, write the whole.            *)
Save(w) ==
  /\ work[w].at = "save"
  /\ Goes(w, [work[w] EXCEPT !.at = "truncate", !.data = Over(work[w].data, Loaded)])
  /\ UNCHANGED <<db, files, catalogue, clock>>

Truncate(w) ==
  /\ work[w].at = "truncate"
  /\ catalogue' = Blank
  /\ Goes(w, [work[w] EXCEPT !.at = "write"])
  /\ UNCHANGED <<db, files, clock>>

(* Over the text of another writer, a shorter one leaves the other's end.  *)
Write(w) ==
  /\ work[w].at = "write"
  /\ \/ catalogue' = Whole(work[w].data)
     \/ catalogue # Blank /\ catalogue' = Garbled
  /\ IF work[w].job = "upload"
     THEN Goes(w, [work[w] EXCEPT !.at = "check", !.data = Nothing])
     ELSE Ends(w)
  /\ UNCHANGED <<db, files, clock>>

-----------------------------------------------------------------------------
(* create_backup: copy the file, then register it, untested.  While the    *)
(* database is being written, or the copying fails, the copy is torn.  The *)
(* application has written to the database since; only copies tell.        *)
Create(w) ==
  /\ Draw
  /\ TimePasses
  /\ db' \in IF db \in Snapshots THEN Snapshots ELSE {db}
  /\ \E copy \in {db', Torn} : folder' = Over(Single(Backup(second'), copy), folder)
  /\ Begin(w, [Idle EXCEPT !.at = "save", !.job = "create",
       !.data = Single(drawn', [file |-> Backup(second'), status |-> "Valid", sum |-> NoSum])])
  /\ UNCHANGED <<oldFolder, uploaded, catalogue>>

(* sync_backups, on every visit to the settings page.                      *)
Sync(w) ==
  /\ Begin(w, [Idle EXCEPT !.at = "scan", !.job = "sync", !.data = Loaded])
  /\ UNCHANGED <<db, files, catalogue, second, drawn>>

Found == {n \in Present : Scanned(n)}

Unregistered(entries) == Found \ {entries[id].file : id \in DOMAIN entries}

Registered(entries) ==
  LET new == SetToSeq(Unregistered(entries))
  IN Over(entries, [id \in drawn + 1 .. drawn + Len(new) |->
       [file |-> new[id - drawn], status |-> Integrity(Content(new[id - drawn])), sum |-> NoSum]])

(* Mutant: a file that is gone leaves its entry as it was.                 *)
RetestedIfFound(entries) ==
  [id \in DOMAIN entries |-> [entries[id] EXCEPT !.status =
     IF entries[id].file \in Found THEN Integrity(Content(entries[id].file)) ELSE @]]

Retested(entries) ==
  [id \in DOMAIN entries |-> [entries[id] EXCEPT !.status =
     IF entries[id].file \in Found
     THEN Integrity(Content(entries[id].file)) ELSE "File Missing"]]

Scan(w) ==
  /\ work[w].at = "scan"
  /\ drawn' = drawn + Cardinality(Unregistered(work[w].data))
  /\ drawn' <= MaxUuids
  /\ LET synced == Retested(Registered(work[w].data))
     IN IF synced = work[w].data THEN Ends(w)
        ELSE Goes(w, [work[w] EXCEPT !.at = "truncate", !.data = synced])
  /\ UNCHANGED <<db, files, catalogue, second, begun>>

(* delete_backup: remove the file, passing over a failure, then drop the   *)
(* entry from what the catalogue has become.                               *)
Delete(w, id) ==
  /\ id \in DOMAIN Loaded
  /\ LET name == Loaded[id].file
     IN \/ Place(name) = "new" /\ folder' = Without(folder, name) /\ UNCHANGED oldFolder
        \/ Place(name) = "old" /\ oldFolder' = Without(oldFolder, name) /\ UNCHANGED folder
        \/ UNCHANGED <<folder, oldFolder>>
  /\ Begin(w, [Idle EXCEPT !.at = "drop", !.job = "delete", !.id = id])
  /\ UNCHANGED <<db, uploaded, catalogue, second, drawn>>

Drop(w) ==
  /\ work[w].at = "drop"
  /\ IF work[w].id \in DOMAIN Loaded
     THEN Goes(w, [work[w] EXCEPT !.at = "truncate", !.data = Without(Loaded, work[w].id)])
     ELSE Ends(w)
  /\ UNCHANGED <<db, files, catalogue, clock>>

(* update_notes saves the entry as it was read.                            *)
EditNotes(w, id) ==
  /\ id \in DOMAIN Loaded
  /\ Begin(w, [Idle EXCEPT !.at = "save", !.job = "notes", !.data = Single(id, Loaded[id])])
  /\ UNCHANGED <<db, files, catalogue, second, drawn>>

-----------------------------------------------------------------------------
(* upload_backup keeps the upload in the backup folder while it inspects   *)
(* it and looks for the same contents among the backups.                   *)
UploadFile(w, content, ext) ==
  /\ Draw
  /\ folder' = Over(Single(Upload(ext, drawn'), content), folder)
  /\ Begin(w, [Idle EXCEPT !.at = "inspect", !.job = "upload", !.id = drawn',
                           !.file = Upload(ext, drawn')])
  /\ UNCHANGED <<db, oldFolder, uploaded, catalogue, second>>

Refused(w) ==
  /\ folder' = Without(folder, work[w].file)
  /\ Ends(w)
  /\ UNCHANGED <<db, oldFolder, uploaded, catalogue, clock>>

Inspect(w) ==
  /\ work[w].at = "inspect"
  /\ \/ Integrity(Content(work[w].file)) # "Valid" /\ Refused(w)
     \/ /\ Integrity(Content(work[w].file)) = "Valid"
        /\ Goes(w, [work[w] EXCEPT !.at = "check", !.todo = Loaded,
                                   !.sum = Content(work[w].file)])
        /\ UNCHANGED <<db, files, catalogue, clock>>

(* An entry without a checksum gets it, which saves the catalogue.         *)
CheckOther(w, id) ==
  /\ work[w].at = "check"
  /\ id \in DOMAIN work[w].todo
  /\ LET other == work[w].todo[id]
         sum == IF other.sum = NoSum THEN Content(other.file) ELSE other.sum
         summed == [other EXCEPT !.sum = sum]
     IN \/ /\ other.sum = NoSum /\ sum # NoFile
           /\ Goes(w, [work[w] EXCEPT !.at = "save", !.data = Single(id, summed),
                                      !.todo[id] = summed])
           /\ UNCHANGED <<db, files, catalogue, clock>>
        \/ other.sum = sum /\ sum = work[w].sum /\ Refused(w)
        \/ /\ other.sum = sum /\ sum # work[w].sum
           /\ Goes(w, [work[w] EXCEPT !.todo = Without(@, id)])
           /\ UNCHANGED <<db, files, catalogue, clock>>

(* The upload gets its name, and is registered.                            *)
Accept(w) ==
  /\ work[w].at = "check"
  /\ work[w].job = "upload"
  /\ work[w].todo = Nothing
  /\ \/ work[w].file \notin DOMAIN folder /\ Refused(w)
     \/ /\ work[w].file \in DOMAIN folder
        /\ TimePasses
        /\ LET name == Import(second', work[w].file.ext)
           IN /\ folder' = Over(Single(name, folder[work[w].file]), Without(folder, work[w].file))
              /\ Goes(w, [work[w] EXCEPT !.at = "save", !.job = "import", !.data =
                   Single(work[w].id, [file |-> name, status |-> "Valid", sum |-> work[w].sum])])
        /\ UNCHANGED <<db, oldFolder, uploaded, catalogue, drawn, begun>>

-----------------------------------------------------------------------------
(* Mutant: the status in the catalogue is taken for a test.                *)
RestoreByStatus(w, id) ==
  /\ id \in DOMAIN Loaded
  /\ Loaded[id].status = "Valid" /\ Loaded[id].file \in Present
  /\ Begin(w, [Idle EXCEPT !.at = "restore", !.job = "restore", !.tested = TRUE,
                 !.file = Loaded[id].file, !.place = Place(Loaded[id].file)])
  /\ UNCHANGED <<db, files, catalogue, second, drawn>>

(* restore_from_backup tests the file, restore_wizard_confirm does not.    *)
Restore(w, id) ==
  /\ id \in DOMAIN Loaded
  /\ Integrity(Content(Loaded[id].file)) = "Valid"
  /\ Begin(w, [Idle EXCEPT !.at = "restore", !.job = "restore", !.tested = TRUE,
                 !.file = Loaded[id].file, !.place = Place(Loaded[id].file)])
  /\ UNCHANGED <<db, files, catalogue, second, drawn>>

Confirm(w, id) ==
  /\ id \in DOMAIN Loaded
  /\ Loaded[id].file \in Present
  /\ Begin(w, [Idle EXCEPT !.at = "restore", !.job = "restore",
                 !.file = Loaded[id].file, !.place = Place(Loaded[id].file)])
  /\ UNCHANGED <<db, files, catalogue, second, drawn>>

(* restore_database of the routes: every upload goes to one path.          *)
RestoreUpload(w, content) ==
  /\ uploaded' = content
  /\ Begin(w, [Idle EXCEPT !.at = "restore", !.job = "restore", !.place = "upload"])
  /\ UNCHANGED <<db, folder, oldFolder, catalogue, second, drawn>>

At(job) ==
  CASE job.place = "upload" -> uploaded
    [] job.place = "new" /\ job.file \in DOMAIN folder -> folder[job.file]
    [] job.place = "old" /\ job.file \in DOMAIN oldFolder -> oldFolder[job.file]
    [] OTHER -> NoFile

(* validate_backup_file sees whether there is a database in the file, not  *)
(* whether it is whole.                                                    *)
Validate(w) ==
  /\ work[w].at = "restore"
  /\ \/ /\ At(work[w]) \in Snapshots \union {Torn}
        /\ Goes(w, [work[w] EXCEPT !.at = "copy"])
        /\ UNCHANGED uploaded
     \/ /\ At(work[w]) \notin Snapshots
        /\ uploaded' = IF work[w].place = "upload" THEN NoFile ELSE uploaded
        /\ Ends(w)
  /\ UNCHANGED <<db, folder, oldFolder, catalogue, clock>>

(* SQLite makes an empty database where it finds no file, and copies it.   *)
Copy(w) ==
  /\ work[w].at = "copy"
  /\ LET source == At(work[w])
     IN /\ db' = IF source = NoFile THEN Empty ELSE source
        /\ folder' = IF source = NoFile /\ work[w].place = "new"
                     THEN Over(Single(work[w].file, Empty), folder) ELSE folder
        /\ oldFolder' = IF source = NoFile /\ work[w].place = "old"
                        THEN Over(Single(work[w].file, Empty), oldFolder) ELSE oldFolder
        /\ uploaded' = IF work[w].place = "upload" THEN NoFile ELSE uploaded
  /\ Ends(w)
  /\ UNCHANGED <<catalogue, clock>>

-----------------------------------------------------------------------------
(* A worker is killed.                                                     *)
Crash(w) ==
  /\ work[w] # Idle
  /\ Ends(w)
  /\ UNCHANGED <<db, files, catalogue, clock>>

Uuids == 0 .. MaxUuids

Next ==
  \E w \in Workers :
       \/ Save(w) \/ Truncate(w) \/ Write(w) \/ Crash(w)
       \/ Create(w) \/ Sync(w) \/ Scan(w) \/ Drop(w)
       \/ Inspect(w) \/ Accept(w) \/ Validate(w) \/ Copy(w)
       \/ \E id \in Uuids :
            \/ Delete(w, id) \/ EditNotes(w, id) \/ CheckOther(w, id)
            \/ Restore(w, id) \/ Confirm(w, id)
       \/ \E content \in Snapshots \union {Torn} :
            \/ RestoreUpload(w, content)
            \/ \E ext \in Exts : UploadFile(w, content, ext)

Spec == Init /\ [][Next]_vars

-----------------------------------------------------------------------------
(* Whatever was lost before (entries to another writer, the catalogue to a *)
(* crash, files to a deletion half done), one visit to the settings page   *)
(* that nothing disturbs leaves a catalogue that names every backup the    *)
(* scan can see and says of each one it names whether it is there and      *)
(* whole.  The entries of the old catalogue are never rewritten.           *)
SyncEnds(w) ==
  /\ work[w].job = "sync"
  /\ work[w].alone
  /\ work'[w] = Idle
  /\ Scan(w) \/ Write(w)

TellsTheTruth ==
  /\ \A name \in Present : Scanned(name) =>
       \E id \in DOMAIN Loaded : Loaded[id].file = name
  /\ \A id \in DOMAIN Loaded \ DOMAIN OldEntries : Scanned(Loaded[id].file) =>
       /\ Loaded[id].status = "File Missing" <=> Loaded[id].file \notin Present
       /\ Loaded[id].status = "Valid" <=> Content(Loaded[id].file) \in Snapshots

SyncRepairs == [][\A w \in Workers : SyncEnds(w) => TellsTheTruth']_vars

(* The database is damaged only by a restore that another worker           *)
(* interfered with, or by one of the two kinds that do not test the file.  *)
Interfered(w) == work[w].at = "copy" /\ (~work[w].tested \/ ~work[w].alone)

RestoresKeepWhole ==
  [][(db \in Snapshots /\ db' \notin Snapshots) => \E w \in Workers : Interfered(w)]_vars
=============================================================================
