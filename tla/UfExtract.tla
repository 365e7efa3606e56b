------------------------------ MODULE UfExtract ------------------------------
(***************************************************************************)
(* The life of a recording from the .a18 file of a Talking Book to a       *)
(* published bundle (src/scripts/userfeedback_utility: the extract_uf and  *)
(* import commands of ufUtility.py, A18Processor, A18File, UfMetadata and  *)
(* DbUtils), with the bundling of UfBundler.                               *)
(*                                                                         *)
(* extract_uf takes the files one by one: it completes the properties file *)
(* that lies beside a recording (its "sidecar"), converts the audio, and   *)
(* saves audio and properties under program, deployment and uuid; the rows *)
(* are inserted at the end, in one transaction.  import inserts the rows   *)
(* from the saved properties.  An operator uploads the audio to S3.        *)
(***************************************************************************)
EXTENDS UfBundler

CONSTANTS
  Sidecars,     \* recording -> the DEPLOYMENT_NUMBER its sidecar came with
  Imported,     \* messages that the import from S3 has brought
  NoFile

\* NotYet: the sidecar has no DEPLOYMENT_NUMBER.
Recordings == DOMAIN Sidecars
NotYet == ""
Numbers == {NotYet, Right, "None"}

ASSUME RecordingsAssumption ==
  /\ Recordings \subseteq Messages /\ Imported \subseteq Messages
  /\ Sidecars \in [Recordings -> {NotYet, Right}]
  /\ NoFile \notin Recordings

VARIABLES
  known,     \* the deployments table has the deployment
  sidecar,   \* recording -> DEPLOYMENT_NUMBER in its sidecar
  saved,     \* <<recording, number>>: audio and properties that were saved
  extract,   \* the extract_uf command: phase, files to take, the file, the
             \* rows collected, and whether its transaction is aborted
  early      \* history: recordings whose sidecar was completed before the
             \* deployment was known

vars == <<size, rows, stored, zips, copies, run, drawn, troubles, excused,
          known, sidecar, saved, extract, early>>
extraction == <<known, sidecar, saved, extract, early>>

NotRunning == [phase |-> "idle", files |-> {}, file |-> NoFile, props |-> {},
               aborted |-> FALSE]

TypeOK ==
  /\ rows \in [Messages -> Row \cup {NoRow}]
  /\ stored \subseteq Messages /\ copies \subseteq Messages
  /\ \A z \in zips : /\ z.uuid \in Uuids \cup {Empty}
                     /\ z.language \in Languages /\ z.messages \subseteq Messages
  /\ \A r \in Runs : run[r].phase \in {"idle", "read", "publish"}
  /\ drawn \in 0 .. MaxDrawn /\ troubles \in 0 .. MaxTroubles
  /\ sidecar \in [Recordings -> Numbers]
  /\ saved \subseteq Recordings \X {Right, "None"}
  /\ extract.phase \in {"idle", "file", "export"}

Init ==
  /\ stored \in SUBSET Imported
  /\ rows = [m \in Messages |-> IF m \in Imported
                                THEN [number |-> Right, bundle |-> Null]
                                ELSE NoRow]
  /\ troubles = 0
  /\ BundlerInit
  /\ known = FALSE
  /\ sidecar = Sidecars
  /\ saved = {}
  /\ extract = NotRunning
  /\ early = {}

-----------------------------------------------------------------------------
(* The extract_uf command.                                                 *)

StartExtract ==
  /\ extract.phase = "idle"
  /\ Recordings # {}
  /\ \E m \in Recordings : rows[m] = NoRow
  /\ extract' = [NotRunning EXCEPT !.phase = "file", !.files = Recordings]
  /\ UNCHANGED <<rows, stored, troubles, known, sidecar, saved, early,
                 bundler>>

\* To the next file, with some more rows collected.
NextFile(props) ==
  extract' = [extract EXCEPT !.phase = "file", !.file = NoFile,
                             !.props = @ \cup props]

\* query_deployment_number answers None if it finds no deployment, which
\* save_sidecar writes as the text 'None'.
NumberOf(m) ==
  IF sidecar[m] # NotYet THEN sidecar[m] ELSE IF known THEN Right ELSE "None"

\* update_sidecar.  A number that was not found stops the file in this run,
\* but not in the next one.  A query that throws aborts the transaction of
\* the session; that of the recipient, the second, is caught.
Sidecar(m) ==
  LET asks == sidecar[m] = NotYet IN
  /\ extract.phase = "file" /\ m \in extract.files
  /\ asks => ~extract.aborted
  /\ sidecar' = [sidecar EXCEPT ![m] = NumberOf(m)]
  /\ early' = IF asks /\ ~known THEN early \cup {m} ELSE early
  /\ \E aborted \in {extract.aborted, TRUE} :
       /\ IF aborted = extract.aborted THEN UNCHANGED troubles ELSE Trouble
       /\ extract' = [extract EXCEPT
                        !.files = @ \ {m}, !.aborted = aborted,
                        !.file = IF asks /\ ~known THEN NoFile ELSE m,
                        !.phase = IF asks /\ ~known THEN "file" ELSE "export"]
  /\ UNCHANGED <<rows, stored, known, saved, bundler>>

\* The query of the number throws, as it always does in a transaction that is
\* aborted.
QueryThrows(m) ==
  /\ extract.phase = "file" /\ m \in extract.files
  /\ sidecar[m] = NotYet
  /\ IF extract.aborted THEN UNCHANGED troubles ELSE Trouble

\* Mutant: an exception is taken for the answer that there is no deployment.
LeaveOutAsNone(m) ==
  /\ QueryThrows(m)
  /\ sidecar' = [sidecar EXCEPT ![m] = "None"]
  /\ extract' = [extract EXCEPT !.files = @ \ {m}, !.aborted = TRUE]
  /\ UNCHANGED <<rows, stored, known, saved, early, bundler>>

\* update_sidecar catches the exception: the file is left out, its sidecar
\* stays as it was.
LeaveOut(m) ==
  /\ QueryThrows(m)
  /\ extract' = [extract EXCEPT !.files = @ \ {m}, !.aborted = TRUE]
  /\ UNCHANGED <<rows, stored, known, sidecar, saved, early, bundler>>

\* export_audio and save_sidecar.  A conversion that fails leaves the file
\* out; if Docker is not running the command ends.
Export ==
  LET m == extract.file IN
  /\ extract.phase = "export"
  /\ \/ /\ saved' = saved \cup {<<m, sidecar[m]>>}
        /\ NextFile({<<m, sidecar[m]>>})
        /\ UNCHANGED troubles
     \/ /\ Trouble
        /\ NextFile({}) \/ extract' = NotRunning
        /\ UNCHANGED saved
  /\ UNCHANGED <<rows, stored, known, sidecar, early, bundler>>

\* insert_uf_records: a message that has a row keeps it.  The bundle of a
\* new row is '', not NULL: _add_props overwrites what the function for the
\* column gave.
Inserted(props) ==
  [m \in Messages |->
     IF rows[m] = NoRow /\ \E p \in props : p[1] = m
     THEN [number |-> (CHOOSE p \in props : p[1] = m)[2], bundle |-> Empty]
     ELSE rows[m]]

\* UfMetadata.commit, after a rollback.
Commit ==
  /\ extract.phase = "file" /\ extract.files = {}
  /\ extract' = NotRunning
  /\ \/ rows' = Inserted(extract.props) /\ UNCHANGED troubles
     \/ Trouble /\ UNCHANGED rows
  /\ UNCHANGED <<stored, known, sidecar, saved, early, bundler>>

CrashExtract ==
  /\ extract.phase # "idle"
  /\ Trouble
  /\ extract' = NotRunning
  /\ UNCHANGED <<rows, stored, known, sidecar, saved, early, bundler>>

-----------------------------------------------------------------------------
(* The import command, and what goes on around the utility.                *)

\* add_from_files and commit, for all properties that were saved.
Import ==
  /\ Inserted(saved) # rows
  /\ rows' = Inserted(saved)
  /\ UNCHANGED <<stored, troubles, extraction, bundler>>

\* An operator uploads the audio of the deployment.
UploadAudio ==
  /\ stored' = stored \cup {m \in Recordings : <<m, Right>> \in saved}
  /\ stored' # stored
  /\ UNCHANGED <<rows, troubles, extraction, bundler>>

\* A deployment is published, and its metadata imported.
Deploy ==
  /\ ~known
  /\ known' = TRUE
  /\ UNCHANGED <<rows, stored, troubles, sidecar, saved, extract, early,
                 bundler>>

\* S3Importer takes a file once more.  The audio is put first, and a put that
\* fails is only counted.  With upsert, which main.py sets, the row is
\* overwritten with what the file holds, and its bundle with NULL.
ImportAgain(m) ==
  /\ Trouble
  /\ rows' = [rows EXCEPT ![m] = [number |-> Right, bundle |-> Null]]
  /\ excused' = excused \cup {m}
  /\ stored' \in {stored, stored \cup {m}}
  /\ UNCHANGED <<size, zips, copies, run, drawn, known, sidecar, saved, extract,
                 early>>

Next ==
  \/ StartExtract \/ CrashExtract
  \/ \E m \in Recordings : Sidecar(m) \/ LeaveOut(m)
  \/ Export \/ Commit
  \/ Import \/ UploadAudio \/ Deploy
  \/ \E m \in Imported : ImportAgain(m)
  \/ BundlerNext /\ UNCHANGED extraction

Spec == Init /\ [][Next]_vars

-----------------------------------------------------------------------------
(* Properties.                                                             *)

\* A row names a deployment that is none only if extract_uf met the recording
\* before its deployment was known: a run that fails or is repeated at
\* another time does not bring one about.
WrongNumberOnlyIfEarly ==
  \A m \in Messages :
    rows[m] # NoRow /\ rows[m].number # Right => m \in early
=============================================================================
