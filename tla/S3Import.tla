------------------------------ MODULE S3Import ------------------------------
(***************************************************************************)
(* Import of the statistics and recordings that TB-Loaders upload          *)
(* (src/scripts/v2_log_reader: S3Driver.process_objects and                *)
(* S3Importer.do_import).  A run, started by cron or by hand, lists the    *)
(* collected files and takes them one by one: it parses a file, puts what  *)
(* it extracts into S3, inserts its rows table by table, each committed    *)
(* on its own, and at last copies the file to the archive and deletes it.  *)
(*                                                                         *)
(*   idle --Start--> next --Fetch--> work --Put, Insert--> work            *)
(*             ^       |               |--Copy--> copied --Delete--> next  *)
(*             +-------+ (Finish)      +--Leave--> next                    *)
(*                                                                         *)
(* Every exception ends the whole run: process_objects catches none.       *)
(* Nothing keeps two runs from overlapping.                                *)
(*                                                                         *)
(* A run writes its copies in processed-data.v2 and in archived-data.v2    *)
(* under the date on which it was started (S3Importer.py:119-121, 381 and  *)
(* 597), so that one file can have several.                                *)
(***************************************************************************)
EXTENDS Naturals

CONSTANTS
  Files,        \* names of collected files (a name is an upload)
  Key,          \* file -> its place in the listing of the bucket
  Untimed,      \* files whose name holds no timestamp: is_valid is false
  Broken,       \* files whose parsing throws
  Tables,       \* file -> the tables it has rows for (uf_messages apart)
  Recordings,   \* file -> its user recordings
  Named,        \* recordings that come with a MESSAGE_UUID
  Rejected,     \* tables with a NOT NULL column that files do not fill
  Runs,         \* runs that may be in progress at once
  Modes,        \* sets of options a run can be started with
  MaxFaults,    \* bound: failed calls and crashes
  MaxManual,    \* bound: runs started with options
  MaxDrawn,     \* bound: times uuids are drawn for a file
  MaxDays,      \* bound: the last day, counted from 0
  NoFile

Options == {"dry_run", "no_db", "no_uf", "no_s3", "no_archive", "uf_only",
            "archive_only", "reimport"}
DataTables == {"tbscollected", "tbsdeployed", "playstatistics", "surveys",
               "survey_responses"}
AllRecordings == UNION {Recordings[f] : f \in Files}

ASSUME FilesAssumption ==
  /\ NoFile \notin Files /\ Untimed \cup Broken \subseteq Files
  /\ Key \in [Files -> Nat]
ASSUME KeyAssumption == \A f, g \in Files : Key[f] = Key[g] => f = g
ASSUME TablesAssumption == Tables \in [Files -> SUBSET DataTables]
ASSUME RecordingsAssumption == Named \subseteq AllRecordings
ASSUME ModesAssumption == Modes \subseteq SUBSET Options /\ {} \in Modes
ASSUME BoundsAssumption ==
  /\ MaxFaults \in Nat /\ MaxManual \in Nat
  /\ MaxDrawn \in Nat /\ MaxDays \in Nat

VARIABLES
  uploaded,  \* files a TB-Loader has uploaded
  source,    \* files in collected-data.v2
  archive,   \* [file, day, mode]: what has copies in archived-data.v2, and
             \* (history) the options of the run that made the copy
  store,     \* [kind, of, id]: what is in processed-data.v2, in amplio-uf
             \* and in the database
  drawn,     \* file -> times uuids were drawn for its recordings
  today,     \* the date
  phase,     \* run -> idle, next, work, copied
  mode,      \* run -> its options
  day,       \* run -> the date on which it was started: now
  queue,     \* run -> listed files it has not taken yet
  file,      \* run -> the file it works on
  draw,      \* run -> the number of the uuids it drew for the file
  pending,   \* run -> [kind, of]: what is to be written for the file
  failed,    \* run -> _s3_write_errors is not zero
  faults,    \* failed calls and crashes so far (bound)
  manual     \* runs started with options so far (bound)

run == <<phase, mode, day, queue, file, draw, pending, failed>>
vars ==
  <<uploaded, source, archive, store, drawn, today, run, faults, manual>>

\* set_action_flags.
SavesDb(m)  == m \cap {"dry_run", "no_db", "uf_only", "archive_only"} = {}
SavesUf(m)  == m \cap {"dry_run", "no_uf", "archive_only"} = {}
SavesS3(m)  == m \cap {"dry_run", "no_s3", "uf_only", "archive_only"} = {}
\* re_import_stats.py sets no_archive.
Archives(m) == m \cap {"dry_run", "uf_only", "no_archive", "reimport"} = {}

Puts  == {"processed", "mp3", "properties"}
Kinds == Puts \cup DataTables \cup {"uf_messages"}
Item  == [kind : Kinds, of : Files \cup AllRecordings]
Entry == [kind : Kinds, of : Files \cup AllRecordings, id : Nat]
Copies == [file : Files, day : 0 .. MaxDays, mode : Modes]

\* What is to be written for a file.  "processed" stands for all the copies
\* under the file's timestamp in processed-data.v2.
Wanted(f, m) ==
  LET Of(kinds, things) == [kind : kinds, of : things] IN
    (IF SavesS3(m) THEN Of({"processed"}, {f}) ELSE {})
    \cup (IF SavesS3(m) /\ SavesUf(m) THEN Of({"mp3"}, Recordings[f]) ELSE {})
    \cup (IF SavesUf(m) THEN Of({"properties"}, Recordings[f]) ELSE {})
    \cup (IF SavesUf(m) /\ Recordings[f] # {}
          THEN Of({"uf_messages"}, {f}) ELSE {})
    \cup (IF SavesDb(m) THEN Of(Tables[f], {f}) ELSE {})

\* put_processed_data comes first, then the tables in update_database.
Rank(item) ==
  CASE item.kind = "processed"        -> 1
    [] item.kind = "mp3"              -> 2
    [] item.kind = "properties"       -> 2
    [] item.kind = "tbscollected"     -> 3
    [] item.kind = "tbsdeployed"      -> 4
    [] item.kind = "playstatistics"   -> 5
    [] item.kind = "uf_messages"      -> 6
    [] item.kind = "surveys"          -> 7
    [] item.kind = "survey_responses" -> 8

\* A recording keeps its uuid if it has one; otherwise every parsing of the
\* file draws one (uuid4).
Uuid(recording, n) == IF recording \in Named THEN 0 ELSE n

Draws(f) == ~ (Recordings[f] \subseteq Named)

\* What writing an item leaves in the store, if n numbers the uuids drawn and
\* d is the date of the run.
Writes(item, n, d) ==
  IF item.kind = "uf_messages"
  THEN {[kind |-> "uf_messages", of |-> r, id |-> Uuid(r, n)] :
           r \in Recordings[item.of]}
  ELSE {[kind |-> item.kind, of |-> item.of,
         id |-> CASE item.kind \in {"mp3", "properties"} -> Uuid(item.of, n)
                  [] item.kind = "processed" -> d
                  [] OTHER -> 0]}

TypeOK ==
  /\ uploaded \in SUBSET Files
  /\ source \in SUBSET Files
  /\ archive \in SUBSET Copies
  /\ store \in SUBSET Entry
  /\ drawn \in [Files -> 0 .. MaxDrawn]
  /\ today \in 0 .. MaxDays
  /\ phase \in [Runs -> {"idle", "next", "work", "copied"}]
  /\ mode \in [Runs -> Modes]
  /\ day \in [Runs -> 0 .. MaxDays]
  /\ queue \in [Runs -> SUBSET Files]
  /\ file \in [Runs -> Files \cup {NoFile}]
  /\ draw \in [Runs -> 0 .. MaxDrawn]
  /\ pending \in [Runs -> SUBSET Item]
  /\ failed \in [Runs -> BOOLEAN]
  /\ faults \in 0 .. MaxFaults
  /\ manual \in 0 .. MaxManual

Init ==
  /\ uploaded = {} /\ source = {} /\ archive = {} /\ store = {}
  /\ drawn = [f \in Files |-> 0]
  /\ today = 0
  /\ phase = [r \in Runs |-> "idle"]
  /\ mode = [r \in Runs |-> {}]
  /\ day = [r \in Runs |-> 0]
  /\ queue = [r \in Runs |-> {}]
  /\ file = [r \in Runs |-> NoFile]
  /\ draw = [r \in Runs |-> 0]
  /\ pending = [r \in Runs |-> {}]
  /\ failed = [r \in Runs |-> FALSE]
  /\ faults = 0 /\ manual = 0

-----------------------------------------------------------------------------
(* The surroundings: TB-Loaders, cron and the operator.                    *)

Upload(f) ==
  /\ f \notin uploaded
  /\ uploaded' = uploaded \cup {f}
  /\ source' = source \cup {f}
  /\ UNCHANGED <<archive, store, drawn, today, run, faults, manual>>

Midnight ==
  /\ today < MaxDays
  /\ today' = today + 1
  /\ UNCHANGED <<uploaded, source, archive, store, drawn, run, faults, manual>>

\* The run works on nothing any more.
Drop(r) ==
  /\ file' = [file EXCEPT ![r] = NoFile]
  /\ draw' = [draw EXCEPT ![r] = 0]
  /\ pending' = [pending EXCEPT ![r] = {}]
  /\ failed' = [failed EXCEPT ![r] = FALSE]
  /\ UNCHANGED mode

\* The run ends: there is nothing left, or an exception was raised.
Stop(r) ==
  /\ Drop(r)
  /\ phase' = [phase EXCEPT ![r] = "idle"]
  /\ queue' = [queue EXCEPT ![r] = {}]
  /\ day' = [day EXCEPT ![r] = 0]

Fault == faults < MaxFaults /\ faults' = faults + 1

\* Where the run finds its files.
Found(m) ==
  IF "reimport" \in m THEN {f \in Files : \E c \in archive : c.file = f}
  ELSE source

\* A re-import lists what was archived on one day: any of the archived files.
Start(r, m, listed) ==
  /\ phase[r] = "idle"
  /\ IF m = {} THEN UNCHANGED manual
     ELSE manual < MaxManual /\ manual' = manual + 1
  /\ listed # {} /\ listed \subseteq Found(m)
  /\ "reimport" \notin m => listed = source
  /\ phase' = [phase EXCEPT ![r] = "next"]
  /\ mode' = [mode EXCEPT ![r] = m]
  /\ day' = [day EXCEPT ![r] = today]
  /\ queue' = [queue EXCEPT ![r] = listed \ Untimed]
  /\ UNCHANGED <<uploaded, source, archive, store, drawn, today, file, draw,
                 pending, failed, faults>>

\* The machine is rebooted, or the process killed.
Crash(r) ==
  /\ phase[r] # "idle"
  /\ Fault
  /\ Stop(r)
  /\ UNCHANGED <<uploaded, source, archive, store, drawn, today, manual>>

-----------------------------------------------------------------------------
(* S3Driver.process_objects and S3Importer.do_import.                      *)

\* Mutant: the listing is taken from its end.
Last(files, f) == f \in files /\ \A g \in files : Key[f] >= Key[g]

First(files, f) == f \in files /\ \A g \in files : Key[f] <= Key[g]

\* get_object and the parsing.  A file that is gone or cannot be parsed
\* throws; so does summary.programid if get_object answers with an error.
Fetch(r, f) ==
  /\ phase[r] = "next"
  /\ First(queue[r], f)
  /\ \/ /\ f \in Found(mode[r]) \ Broken
        /\ Draws(f) => drawn[f] < MaxDrawn
        /\ phase' = [phase EXCEPT ![r] = "work"]
        /\ queue' = [queue EXCEPT ![r] = @ \ {f}]
        /\ file' = [file EXCEPT ![r] = f]
        /\ drawn' = [drawn EXCEPT ![f] = IF Draws(f) THEN @ + 1 ELSE @]
        /\ draw' = [draw EXCEPT ![r] = drawn'[f]]
        /\ pending' = [pending EXCEPT ![r] = Wanted(f, mode[r])]
        /\ UNCHANGED <<mode, day, failed, faults>>
     \/ /\ f \notin Found(mode[r]) \ Broken
        /\ Stop(r)
        /\ UNCHANGED <<drawn, faults>>
     \/ /\ Fault
        /\ Stop(r)
        /\ UNCHANGED drawn
  /\ UNCHANGED <<uploaded, source, archive, store, today, manual>>

Finish(r) ==
  /\ phase[r] = "next"
  /\ queue[r] = {}
  /\ Stop(r)
  /\ UNCHANGED <<uploaded, source, archive, store, drawn, today, faults,
                 manual>>

IsNext(item, items) ==
  item \in items /\ \A other \in items : Rank(item) <= Rank(other)

\* put_s3_object: an error status is counted, and the import goes on.
Put(r, item) ==
  /\ phase[r] = "work"
  /\ IsNext(item, pending[r])
  /\ item.kind \in Puts
  /\ \/ /\ store' = store \cup Writes(item, draw[r], day[r])
        /\ pending' = [pending EXCEPT ![r] = @ \ {item}]
        /\ UNCHANGED <<phase, mode, day, queue, file, draw, failed,
                       faults>>
     \/ /\ Fault
        /\ failed' = [failed EXCEPT ![r] = TRUE]
        /\ pending' = [pending EXCEPT ![r] = @ \ {item}]
        /\ UNCHANGED <<phase, mode, day, queue, file, draw, store>>
     \/ /\ Fault
        /\ Stop(r)
        /\ UNCHANGED store
  /\ UNCHANGED <<uploaded, source, archive, drawn, today, manual>>

\* insert_rows: one INSERT ... ON CONFLICT DO UPDATE per table, committed.
\* Columns of the table that a row does not have are inserted as NULL.
Insert(r, item) ==
  /\ phase[r] = "work"
  /\ IsNext(item, pending[r])
  /\ item.kind \notin Puts
  /\ \/ /\ item.kind \notin Rejected
        /\ store' = store \cup Writes(item, draw[r], day[r])
        /\ pending' = [pending EXCEPT ![r] = @ \ {item}]
        /\ UNCHANGED <<phase, mode, day, queue, file, draw, failed,
                       faults>>
     \/ /\ item.kind \in Rejected
        /\ Stop(r)
        /\ UNCHANGED <<store, faults>>
     \/ /\ Fault
        /\ Stop(r)
        /\ UNCHANGED store
  /\ UNCHANGED <<uploaded, source, archive, drawn, today, manual>>

\* To the next file.
Proceed(r) ==
  /\ Drop(r)
  /\ phase' = [phase EXCEPT ![r] = "next"]
  /\ UNCHANGED <<queue, day>>

\* archive_collected_data decides not to move the file.
Leave(r) ==
  /\ phase[r] = "work"
  /\ pending[r] = {}
  /\ ~ Archives(mode[r]) \/ failed[r]
  /\ Proceed(r)
  /\ UNCHANGED <<uploaded, source, archive, store, drawn, today, faults,
                 manual>>

\* Mutant: _s3_write_errors is not looked at.
MayMoveFailed(r) ==
  phase[r] = "work" /\ pending[r] = {} /\ Archives(mode[r])

MayMove(r) ==
  phase[r] = "work" /\ pending[r] = {} /\ Archives(mode[r]) /\ ~ failed[r]

ArchiveCopy(r) == [file |-> file[r], day |-> day[r], mode |-> mode[r]]

\* Mutant: a copy that failed is taken to be there.
CopyUnchecked(r) ==
  /\ MayMove(r)
  /\ phase' = [phase EXCEPT ![r] = "copied"]
  /\ \/ /\ archive' = archive \cup {ArchiveCopy(r)}
        /\ UNCHANGED faults
     \/ Fault /\ UNCHANGED archive
  /\ UNCHANGED <<uploaded, source, store, drawn, today, mode, day, queue,
                 file, draw, pending, failed, manual>>

\* copy_object; it throws if the file is gone.
Copy(r) ==
  /\ MayMove(r)
  /\ \/ /\ file[r] \in source
        /\ archive' = archive \cup {ArchiveCopy(r)}
        /\ phase' = [phase EXCEPT ![r] = "copied"]
        /\ UNCHANGED <<mode, day, queue, file, draw, pending, failed,
                       faults>>
     \/ /\ file[r] \notin source
        /\ Stop(r)
        /\ UNCHANGED <<archive, faults>>
     \/ /\ Fault
        /\ Proceed(r) \/ Stop(r)
        /\ UNCHANGED archive
  /\ UNCHANGED <<uploaded, source, store, drawn, today, manual>>

\* delete_object, which succeeds as well if the file is gone.
Delete(r) ==
  /\ phase[r] = "copied"
  /\ \/ /\ source' = source \ {file[r]}
        /\ Proceed(r)
        /\ UNCHANGED faults
     \/ /\ Fault
        /\ Proceed(r) \/ Stop(r)
        /\ UNCHANGED source
  /\ UNCHANGED <<uploaded, archive, store, drawn, today, manual>>

Step(r) ==
  \/ \E f \in Files : Fetch(r, f)
  \/ Finish(r)
  \/ \E item \in pending[r] : Put(r, item) \/ Insert(r, item)
  \/ Leave(r) \/ Copy(r) \/ Delete(r)

Next ==
  \/ \E f \in Files : Upload(f)
  \/ Midnight
  \/ \E r \in Runs :
       \/ \E m \in Modes, listed \in SUBSET Files : Start(r, m, listed)
       \/ Step(r)
       \/ Crash(r)

Spec == Init /\ [][Next]_vars

\* cron starts a run every four hours, and a process that runs gets on.
CronStart == \E r \in Runs : Start(r, {}, source)

FairSpec == Spec /\ WF_vars(CronStart) /\ \A r \in Runs : WF_vars(Step(r))

-----------------------------------------------------------------------------
(* Properties.                                                             *)

\* A collected file is never lost: it is deleted only when a copy of it is in
\* the archive (lines 602-612), whatever crashes, fails or overlaps.
NothingLost ==
  \A f \in uploaded : f \in source \/ \E c \in archive : c.file = f

Has(kind, of, id) == [kind |-> kind, of |-> of, id |-> id] \in store

\* Some parsing of the recording got everything stored that the run was to
\* store, all under one uuid, its own if it came with one.
RecordingImported(rec, m) ==
  \E n \in 0 .. MaxDrawn :
    /\ rec \in Named => n = 0
    /\ Has("uf_messages", rec, n) /\ Has("properties", rec, n)
    /\ SavesS3(m) => Has("mp3", rec, n)

\* What is in the archive has been imported: no file is moved away before its
\* rows are committed and its recordings are stored, unless the run was told
\* not to store them.
ArchivedIsImported ==
  \A c \in archive :
    /\ SavesS3(c.mode) => Has("processed", c.file, c.day)
    /\ SavesDb(c.mode) => \A t \in Tables[c.file] : Has(t, c.file, 0)
    /\ SavesUf(c.mode) =>
         \A rec \in Recordings[c.file] : RecordingImported(rec, c.mode)

\* The run works on a file that a run without options has archived.
Repeats(r) ==
  phase[r] = "work" /\ \E c \in archive : c.file = file[r] /\ c.mode = {}

\* A copy in processed-data.v2 under another date than it was archived on.
OfAnotherDay(r, entry) ==
  /\ entry.kind = "processed" /\ entry.of = file[r]
  /\ \A c \in archive : c.file = file[r] /\ c.mode = {} => c.day # entry.id

\* Part of a recording that came without a uuid, under the one just drawn.
UnderNewUuid(r, entry) ==
  /\ entry.kind \in {"mp3", "properties", "uf_messages"}
  /\ entry.of \in Recordings[file[r]] \ Named
  /\ entry.id = draw[r]

\* Importing a file once more, after a crash between copy and delete, in an
\* overlapping run or in a re-import of the archive, adds no row to any table
\* and nothing of a recording that came with its uuid.  It may only add the
\* processed copies once more under another date, and recordings that came
\* without a uuid once more under another uuid.
RepeatAddsOnlyCopies ==
  [][\A r \in Runs :
       Repeats(r) /\ pending'[r] # pending[r] =>
         \A entry \in store' \ store :
           OfAnotherDay(r, entry) \/ UnderNewUuid(r, entry)]_vars

\* Files whose import throws each time, and ends the run.
Blocking(f) == f \in Broken \/ Tables[f] \cap Rejected # {}

\* Every exception ends the whole run, and the next run begins with the same
\* file.  Yet all files listed before the first file that cannot be imported
\* are eventually moved to the archive.
Reached(f) ==
  f \notin Untimed /\ \A g \in Files : Blocking(g) => Key[f] < Key[g]

EventuallyArchived ==
  \A f \in Files :
    Reached(f) => (f \in source ~> \E c \in archive : c.file = f)
=============================================================================
