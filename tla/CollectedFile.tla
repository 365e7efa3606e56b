---------------------------- MODULE CollectedFile ----------------------------
(***************************************************************************)
(* What an import extracts from one collected file before it writes        *)
(* anything (S3Importer.do_import up to put_processed_data): the rows of   *)
(* the operation (TbCollectedData), of the plays counted from the logs     *)
(* (LogReader), of the user recordings and of the surveys (S3UfImporter).  *)
(*                                                                         *)
(*  opdata -> process -> plays -> operations -> files -> recordings        *)
(*         -> emit -> messages -> surveys -> parsed                        *)
(*                                                                         *)
(* Some exceptions are swallowed and leave rows out; all others end the    *)
(* run (raised).  In S3Import this is the step Fetch: what is raised here  *)
(* makes a file Broken there, and the rows are its Tables and Recordings.  *)
(***************************************************************************)
EXTENDS FiniteSets

CONSTANTS
  Recordings,  \* stems of the files of user recordings
  Zips         \* contents of collected files

ZipContents == [
  garbled  : SUBSET {"outer",   \* the zip or a file of OperationalData
                     "inner"},  \* TalkingBookData.zip, or the timestamp
  csv      : SUBSET {"tbscollected", "tbsdeployed"}, \* in OperationalData
  inner    : BOOLEAN,   \* has a TalkingBookData.zip
  image    : BOOLEAN,   \* with a readable packages_data.txt
  props    : {"missing", "garbled", "undeployed", "complete"},
               \* stats_collected.properties; undeployed: no deployment_...
  inside   : BOOLEAN,   \* they are in TalkingBookData, not OperationalData
  tbdata   : BOOLEAN,   \* tbData.log has one line, of a real collection
  deployed : BOOLEAN,   \* deployments.log has a usable line
  statsOnly: BOOLEAN,   \* ACTION=stats...
  played   : BOOLEAN,   \* the logs hold plays that count
  number   : {"props", "database", "unknown"}, \* where its deployment's
               \* number is found
  keyRow   : BOOLEAN,   \* uf_keys has the private key of the deployment
  files    : [Recordings -> SUBSET {".wav", ".enc", ".key"}],
  key      : [Recordings -> {"good", "short", "garbled"}],
               \* short: not two lines of ASCII; garbled: the key, or what it
               \* is to decrypt, does not decrypt
  sound    : [Recordings -> {"good", "short", "rateless"}],
               \* short: under 44 bytes; rateless: 0 bytes per second
  describe : [Recordings -> {"properties", "blank", "none"}],
               \* its .properties (one that is not UTF-8 counts as none)
  name     : [Recordings -> {"listed", "unlisted", "other"}],
               \* uf_pkg..., of a package of packages_data or not; or other
  survey   : {"none", "empty", "answered", "garbled"},
  answers  : SUBSET Recordings ]  \* recordings its answers name

ASSUME ZipsAssumption == Zips \subseteq ZipContents

VARIABLES
  zip,       \* the file
  stage,
  packages,  \* _packages_data has been read
  props,     \* _stats_collected_properties_data
  counted,   \* _play_statistics holds plays
  rows,      \* tables the file has rows for
  todo,      \* recordings that are still to be converted
  named,     \* _fn_stem_to_uuid_map
  mp3,       \* recordings converted
  failed,    \* history: recordings that lame failed on
  messages,  \* recordings with a row for uf_messages
  refers     \* recordings whose uuid stands in an answer

read == <<packages, props, counted>>
sound == <<todo, named, mp3, failed>>
vars == <<zip, stage, read, rows, sound, messages, refers>>

Stages == {"opdata", "process", "plays", "operations", "files", "recordings",
           "emit", "messages", "surveys", "parsed", "raised"}

TypeOK ==
  /\ zip \in Zips
  /\ stage \in Stages
  /\ packages \in BOOLEAN /\ counted \in BOOLEAN
  /\ props \in {"missing", "undeployed", "complete"}
  /\ rows \in SUBSET {"tbscollected", "tbsdeployed", "playstatistics"}
  /\ todo \in SUBSET Recordings /\ named \in SUBSET Recordings
  /\ mp3 \in SUBSET named /\ failed \in SUBSET named
  /\ messages \in SUBSET mp3 /\ refers \in SUBSET Recordings

Init ==
  /\ zip \in Zips
  /\ stage = "opdata"
  /\ packages = FALSE /\ props = "missing" /\ counted = FALSE
  /\ rows = {}
  /\ todo = Recordings
  /\ named = {} /\ mp3 = {} /\ failed = {} /\ messages = {} /\ refers = {}

At(s) == stage = s
GoTo(s) == stage' = s

\* import_operational_data: the rows the TB-Loader has written itself.
OpData ==
  /\ At("opdata")
  /\ IF "outer" \in zip.garbled
     THEN GoTo("raised") /\ UNCHANGED rows
     ELSE GoTo("process") /\ rows' = zip.csv
  /\ UNCHANGED <<zip, read, sound, messages, refers>>

\* Mutant: the properties are found without packages_data.txt.
ProcessEasily ==
  /\ At("process")
  /\ \/ /\ zip.inner
        /\ GoTo("plays")
        /\ packages' = zip.image
        /\ props' = IF zip.props = "garbled" THEN "missing" ELSE zip.props
        /\ counted' = (packages' /\ props' # "missing" /\ zip.played)
     \/ /\ ~ zip.inner
        /\ GoTo("files")
        /\ UNCHANGED read
  /\ UNCHANGED <<zip, rows, sound, messages, refers>>

\* TbCollectedData: the properties of the collection are looked for outside,
\* where garbled ones raise, and only after packages_data.txt in the image of
\* the Talking Book.  There, what cannot be read is as if it were missing,
\* and nothing is counted: process_tb_collected_data swallows the exception.
Process ==
  /\ At("process")
  /\ \/ /\ zip.inner
        /\ "inner" \in zip.garbled \/ (zip.props = "garbled" /\ ~ zip.inside)
        /\ GoTo("raised")
        /\ UNCHANGED read
     \/ /\ zip.inner
        /\ "inner" \notin zip.garbled
        /\ zip.props = "garbled" => zip.inside
        /\ GoTo("plays")
        /\ packages' = zip.image
        /\ props' = IF zip.props = "garbled" \/ (zip.inside /\ ~ zip.image)
                    THEN "missing" ELSE zip.props
        /\ counted' = (packages' /\ props' # "missing" /\ zip.played)
     \/ /\ ~ zip.inner
        /\ GoTo("files")
        /\ UNCHANGED read
  /\ UNCHANGED <<zip, rows, sound, messages, refers>>

\* as_dict raises without deployment_PACKAGE and TIMESTAMP.
CanDescribePlays == props = "complete"

\* playstatistics: an exception is an empty list.
PlayStatistics ==
  /\ At("plays") /\ GoTo("operations")
  /\ rows' = IF counted /\ CanDescribePlays
             THEN rows \cup {"playstatistics"} ELSE rows
  /\ UNCHANGED <<zip, read, sound, messages, refers>>

\* tbscollected and tbsdeployed, unless the TB-Loader has sent them; the
\* first needs the properties, the second only a line in deployments.log.
Operations ==
  /\ At("operations") /\ GoTo("files")
  /\ rows' = rows
       \cup (IF zip.tbdata /\ props # "missing" THEN {"tbscollected"} ELSE {})
       \cup (IF zip.deployed /\ ~ (zip.statsOnly /\ props # "missing")
             THEN {"tbsdeployed"} ELSE {})
  /\ UNCHANGED <<zip, read, sound, messages, refers>>

\* import_userrecordings reads all .properties and .survey files first.
ReadFiles ==
  /\ At("files")
  /\ GoTo(IF zip.survey = "garbled" THEN "raised" ELSE "recordings")
  /\ UNCHANGED <<zip, read, rows, sound, messages, refers>>

LeaveOut == UNCHANGED <<stage, named, mp3, failed>>
Raise == GoTo("raised") /\ UNCHANGED <<named, mp3, failed>>

\* get_props: without .properties some are made up from the packages, for
\* the name of a listed one; without packages that raises.
Guessing(r) == zip.describe[r] = "none" /\ zip.name[r] # "other"
Identified(r) ==
  \/ zip.describe[r] = "properties"
  \/ zip.describe[r] = "none" /\ zip.name[r] = "listed"

\* convert_wav_to_mp3.  The uuid is noted before the conversion; lame may
\* fail, and the length is divided by the rate only if it does not.
ConvertWav(r) ==
  IF zip.sound[r] = "short" THEN LeaveOut
  ELSE IF Guessing(r) /\ ~ packages THEN Raise
  ELSE IF ~ Identified(r) THEN LeaveOut
  ELSE /\ named' = named \cup {r}
       /\ \/ failed' = failed \cup {r} /\ UNCHANGED <<stage, mp3>>
          \/ /\ zip.sound[r] = "rateless"
             /\ GoTo("raised") /\ UNCHANGED <<mp3, failed>>
          \/ /\ zip.sound[r] = "good"
             /\ mp3' = mp3 \cup {r} /\ UNCHANGED <<stage, failed>>

\* A lone .enc is not looked at, and a .wav beside both only compared.
Encrypted(r) == {".enc", ".key"} \subseteq zip.files[r]

\* get_private_key: DynamoDB takes no empty key.
NoKeyName == props # "complete" \/ zip.number # "props"

\* decrypt_and_convert: without the private key, nothing is decrypted.
Decrypt(r) ==
  IF zip.key[r] = "short" \/ NoKeyName THEN Raise
  ELSE IF ~ zip.keyRow THEN LeaveOut
  ELSE IF zip.key[r] = "garbled" THEN Raise
  ELSE ConvertWav(r)

\* import_userrecordings, for one of the recordings.
Convert(r) ==
  /\ At("recordings") /\ r \in todo
  /\ todo' = todo \ {r}
  /\ IF Encrypted(r) THEN Decrypt(r)
     ELSE IF ".wav" \in zip.files[r] THEN ConvertWav(r) ELSE LeaveOut
  /\ UNCHANGED <<zip, read, rows, messages, refers>>

Recorded ==
  /\ At("recordings") /\ todo = {} /\ GoTo("emit")
  /\ UNCHANGED <<zip, read, rows, sound, messages, refers>>

\* Mutant: emit_statistics swallows what playstatistics swallows.
EmitQuietly ==
  /\ At("emit") /\ GoTo("messages")
  /\ UNCHANGED <<zip, read, rows, sound, messages, refers>>

\* emit_statistics, with the same as_dict and no handler.
Emit ==
  /\ At("emit")
  /\ GoTo(IF counted /\ ~ CanDescribePlays THEN "raised" ELSE "messages")
  /\ UNCHANGED <<zip, read, rows, sound, messages, refers>>

\* What fill_userrecordings_metadata looks up for a recording: the deployment
\* and, for a name that tells of a package, the packages.
CanDescribe(r) ==
  /\ props = "complete" /\ zip.number # "unknown"
  /\ zip.name[r] # "other" => packages

\* fill_userrecordings_metadata: one recording that cannot be described
\* raises for all of them.
Messages ==
  /\ At("messages")
  /\ IF \A r \in mp3 : CanDescribe(r)
     THEN GoTo("surveys") /\ messages' = mp3
     ELSE GoTo("raised") /\ UNCHANGED messages
  /\ UNCHANGED <<zip, read, rows, sound, refers>>

\* fill_survey_metadata takes the properties before it looks at any answer.
CanPlace ==
  CASE zip.survey = "none"  -> TRUE
    [] zip.survey = "empty" -> props # "missing"
    [] OTHER                -> props = "complete"
Answered == IF zip.survey = "answered" THEN zip.answers ELSE {}

\* Mutant: an answer gets the uuid of every recording it names.
SurveysAny ==
  /\ At("surveys")
  /\ IF CanPlace THEN GoTo("parsed") /\ refers' = Answered
     ELSE GoTo("raised") /\ UNCHANGED refers
  /\ UNCHANGED <<zip, read, rows, sound, messages>>

\* fill_survey_metadata: the name of a recording becomes its uuid.
Surveys ==
  /\ At("surveys")
  /\ IF CanPlace THEN GoTo("parsed") /\ refers' = Answered \cap named
     ELSE GoTo("raised") /\ UNCHANGED refers
  /\ UNCHANGED <<zip, read, rows, sound, messages>>

Next ==
  \/ OpData \/ Process \/ PlayStatistics \/ Operations \/ ReadFiles
  \/ \E r \in Recordings : Convert(r)
  \/ Recorded \/ Emit \/ Messages \/ Surveys

Spec == Init /\ [][Next]_vars

-----------------------------------------------------------------------------
(* Properties.                                                             *)

\* process_tb_collected_data and playstatistics swallow every exception, so
\* that plays could be counted and yet vanish with the file in the archive.
\* They do not: a file that is parsed has a row for them, or its logs were
\* not read, because packages_data.txt or the properties could not be.
PlaysNotDropped ==
  stage = "parsed" =>
    /\ counted <=> "playstatistics" \in rows
    /\ zip.played /\ zip.inner /\ zip.image
         /\ zip.props \in {"undeployed", "complete"}
         => "playstatistics" \in rows

\* What the file itself tells: of its properties, of its deployment, and the
\* image of its Talking Book.
Image == zip.inner /\ zip.image
HasProps == zip.inner /\ zip.props \in {"undeployed", "complete"}
                /\ (zip.inside => zip.image)
Attributed == HasProps /\ zip.props = "complete"

\* A recording whose sound reaches the conversion; one that has all it needs
\* to become a message, unless lame fails; and what is looked up for it.
Audible(r) ==
  /\ IF Encrypted(r) THEN zip.keyRow ELSE ".wav" \in zip.files[r]
  /\ zip.sound[r] # "short"
Convertible(r) == Audible(r) /\ Identified(r)
Describable(r) ==
  Attributed /\ zip.number # "unknown" /\ (zip.name[r] # "other" => Image)

\* What makes the import of a file raise, in whatever stage it does.  All
\* but a failure of lame is in the file and in the database, so it does so
\* every time, and the file blocks the run (S3Import!Blocking): parts that
\* cannot be read, ...
Unreadable ==
  \/ "outer" \in zip.garbled
  \/ zip.inner /\ "inner" \in zip.garbled
  \/ zip.inner /\ zip.props = "garbled" /\ ~ zip.inside
  \/ zip.survey = "garbled"
\* ... plays or answers that no deployment is known for, ...
Unattributed ==
  \/ Image /\ zip.props = "undeployed" /\ zip.played
  \/ zip.survey = "empty" /\ ~ HasProps
  \/ zip.survey = "answered" /\ ~ Attributed
\* ... and a recording that cannot be decrypted, or is found to tell nothing
\* where no packages are, or cannot be measured or described.
Undeciphered(r) ==
  /\ Encrypted(r)
  /\ \/ zip.key[r] = "short"
     \/ ~ Attributed \/ zip.number # "props"
     \/ zip.keyRow /\ zip.key[r] = "garbled"
Unguessed(r) == Audible(r) /\ Guessing(r) /\ ~ Image
Undescribed(r) ==
  /\ Convertible(r) /\ r \notin failed
  /\ zip.sound[r] = "rateless" \/ ~ Describable(r)

Blocks ==
  \/ Unreadable \/ Unattributed
  \/ \E r \in Recordings : Undeciphered(r) \/ Unguessed(r) \/ Undescribed(r)

RaisesOnlyIfBlocked ==
  /\ stage = "raised" => Blocks
  /\ stage = "parsed" => ~ Blocks

\* The messages of a parsed file are its convertible recordings, less those
\* lame failed on: no other step, of the same recording or of another, takes
\* one away.  And the answers of its survey name messages, except again for
\* the recordings lame failed on, whose uuid is already noted.
RecordingsKept ==
  stage = "parsed" =>
    /\ messages = {r \in Recordings : Convertible(r)} \ failed
    /\ refers = Answered \cap (messages \cup failed)

\* "Translate filenames to message_uuids" (S3UfImporter.py:416): what an
\* answer is given is the uuid of a message.
AnswersNameMessages == stage = "parsed" => refers \subseteq messages

=============================================================================
