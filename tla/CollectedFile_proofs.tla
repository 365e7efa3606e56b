------------------------ MODULE CollectedFile_proofs -------------------------
(***************************************************************************)
(* Theorems about what an import extracts from one collected file: about   *)
(* CollectedFile for any set of files and any number of recordings, and    *)
(* about LogReader for any deployment, clock, log and number of log files. *)
(***************************************************************************)
EXTENDS CollectedFile, LogReader, FiniteSetTheorems, TLAPS

-----------------------------------------------------------------------------
(* The inductive invariant: what each stage knows of the file.             *)

\* Each stage that the file is past has found it readable.
ReadableSoFar ==
  stage # "raised" =>
    /\ stage # "opdata" => "outer" \notin zip.garbled
    /\ stage \notin {"opdata", "process"} /\ zip.inner
         => "inner" \notin zip.garbled /\ (zip.props = "garbled" => zip.inside)
    /\ stage \notin {"opdata", "process", "plays", "operations", "files"}
         => zip.survey # "garbled"

\* What was read is what the file holds, once TbCollectedData is through.
ReadKnown ==
  stage # "raised" =>
    IF stage \in {"opdata", "process"}
    THEN packages = FALSE /\ props = "missing" /\ counted = FALSE
    ELSE /\ packages <=> Image
         /\ props # "missing" <=> HasProps
         /\ props = "complete" <=> Attributed
         /\ counted <=> Image /\ HasProps /\ zip.played

RowsKnown ==
  stage # "raised" =>
    IF stage \in {"opdata", "process", "plays"}
    THEN "playstatistics" \notin rows
    ELSE "playstatistics" \in rows <=> counted /\ props = "complete"

Emitted ==
  stage \in {"messages", "surveys", "parsed"} => (counted => props = "complete")

\* A recording that the conversion is through with.
Dealt(r) ==
  /\ r \in named <=> Convertible(r)
  /\ r \in mp3 => zip.sound[r] = "good"
  /\ ~ Undeciphered(r) /\ ~ Unguessed(r)

SoundKnown ==
  /\ todo \cap named = {} /\ mp3 \cap failed = {}
  /\ stage # "raised" =>
       named = mp3 \cup failed /\ \A r \in Recordings \ todo : Dealt(r)
  /\ stage \in {"emit", "messages", "surveys", "parsed"} => todo = {}

MessagesKnown ==
  /\ stage \in {"surveys", "parsed"}
       => messages = mp3 /\ \A r \in mp3 : Describable(r)
  /\ stage \notin {"surveys", "parsed", "raised"} => messages = {}

Placed ==
  /\ zip.survey = "empty" => HasProps
  /\ zip.survey = "answered" => Attributed

SurveysKnown ==
  IF stage = "parsed" THEN Placed /\ refers = Answered \cap named
  ELSE refers = {}

RaisedKnown == stage = "raised" => Blocks

IInv == /\ TypeOK
        /\ ReadableSoFar /\ ReadKnown /\ RowsKnown /\ Emitted
        /\ SoundKnown /\ MessagesKnown /\ SurveysKnown /\ RaisedKnown

-----------------------------------------------------------------------------
(* What the definitions above depend on.                                   *)

LEMMA ZipType ==
  ASSUME TypeOK
  PROVE  /\ zip.csv \subseteq {"tbscollected", "tbsdeployed"}
         /\ zip.props \in {"missing", "garbled", "undeployed", "complete"}
         /\ zip.image \in BOOLEAN /\ zip.inner \in BOOLEAN
         /\ zip.survey \in {"none", "empty", "answered", "garbled"}
         /\ \A r \in Recordings : zip.sound[r] \in {"good", "short", "rateless"}
<1>1. zip \in ZipContents
  BY ZipsAssumption DEF TypeOK
<1>2. zip.sound \in [Recordings -> {"good", "short", "rateless"}]
  BY <1>1 DEF ZipContents
<1>3. QED
  BY <1>1, <1>2 DEF ZipContents

LEMMA SameZip ==
  ASSUME UNCHANGED zip
  PROVE  /\ Image' = Image /\ HasProps' = HasProps
         /\ Attributed' = Attributed /\ Answered' = Answered
         /\ Placed' = Placed /\ Unreadable' = Unreadable
         /\ Unattributed' = Unattributed
         /\ \A r : /\ Encrypted(r)' = Encrypted(r)
                   /\ Audible(r)' = Audible(r)
                   /\ Convertible(r)' = Convertible(r)
                   /\ Describable(r)' = Describable(r)
                   /\ Undeciphered(r)' = Undeciphered(r)
                   /\ Unguessed(r)' = Unguessed(r)
<1>1. /\ Image' = Image /\ HasProps' = HasProps
      /\ Attributed' = Attributed
  BY DEF Image, HasProps, Attributed
<1>2. Answered' = Answered /\ Unreadable' = Unreadable
  BY DEF Answered, Unreadable
<1>3. Placed' = Placed /\ Unattributed' = Unattributed
  BY <1>1 DEF Placed, Unattributed
<1>4. \A r : Encrypted(r)' = Encrypted(r) /\ Audible(r)' = Audible(r)
  BY DEF Encrypted, Audible
<1>5. \A r : /\ Convertible(r)' = Convertible(r)
             /\ Describable(r)' = Describable(r)
             /\ Undeciphered(r)' = Undeciphered(r)
             /\ Unguessed(r)' = Unguessed(r)
  BY <1>1, <1>4 DEF Convertible, Identified, Describable, Undeciphered, Unguessed,
     Guessing
<1>6. QED
  BY <1>1, <1>2, <1>3, <1>4, <1>5

\* Of the variables, they read only what became of the recordings.
LEMMA SameFile ==
  ASSUME UNCHANGED <<zip, named, mp3, failed>>
  PROVE  Blocks' = Blocks /\ \A r : Dealt(r)' = Dealt(r)
<1>1. \A r : Undescribed(r)' = Undescribed(r) /\ Dealt(r)' = Dealt(r)
  BY SameZip DEF Undescribed, Dealt
<1>2. QED
  BY <1>1, SameZip DEF Blocks

\* A stage that does not touch the recordings keeps what is known of them.
LEMMA SoundStays ==
  ASSUME SoundKnown, UNCHANGED <<zip, sound>>, stage # "raised",
         stage' \in {"emit", "messages", "surveys", "parsed"} => todo = {}
  PROVE  SoundKnown'
  BY SameFile DEF SoundKnown, sound

-----------------------------------------------------------------------------
(* The steps before the recordings.                                        *)

LEMMA OpDataStep == ASSUME IInv, OpData PROVE IInv'
<1> USE DEF OpData, At, GoTo, read
<1>1. /\ UNCHANGED <<zip, sound>> /\ stage' \in {"raised", "process"}
      /\ UNCHANGED <<named, mp3, failed>>
  BY DEF sound
<1>2. TypeOK'
  BY <1>1, ZipType DEF IInv, TypeOK, Stages, sound
<1>3. ReadableSoFar' /\ ReadKnown' /\ RowsKnown' /\ Emitted'
  BY <1>1, ZipType DEF IInv, ReadableSoFar, ReadKnown, RowsKnown, Emitted
<1>4. SoundKnown'
  BY <1>1, SoundStays DEF IInv
<1>5. MessagesKnown' /\ SurveysKnown'
  BY <1>1 DEF IInv, MessagesKnown, SurveysKnown
<1>6. RaisedKnown'
  BY <1>1, SameFile DEF RaisedKnown, Blocks, Unreadable
<1>7. QED
  BY <1>2, <1>3, <1>4, <1>5, <1>6 DEF IInv

LEMMA ProcessStep == ASSUME IInv, Process PROVE IInv'
<1> USE DEF Process, At, GoTo, read
<1>1. /\ UNCHANGED <<zip, sound>> /\ stage' \in {"raised", "plays", "files"}
      /\ UNCHANGED <<named, mp3, failed>>
  BY DEF sound
<1>2. CASE stage' = "raised"
  <2>1. Unreadable
    BY <1>2 DEF Unreadable
  <2>2. RaisedKnown'
    BY <1>1, <2>1, SameFile DEF RaisedKnown, Blocks
  <2>3. TypeOK'
    BY <1>1, <1>2 DEF IInv, TypeOK, Stages, sound
  <2>4. SoundKnown'
    BY <1>1, <1>2, SoundStays DEF IInv
  <2>5. MessagesKnown' /\ SurveysKnown'
    BY <1>1, <1>2 DEF IInv, MessagesKnown, SurveysKnown
  <2>6. QED
    BY <1>2, <2>2, <2>3, <2>4, <2>5
       DEF IInv, ReadableSoFar, ReadKnown, RowsKnown, Emitted
<1>3. CASE stage' \in {"plays", "files"}
  <2>1. /\ packages' <=> Image
        /\ props' \in {"missing", "undeployed", "complete"}
        /\ props' # "missing" <=> HasProps
        /\ props' = "complete" <=> Attributed
        /\ packages' \in BOOLEAN
    <3>1. CASE zip.inner
      <4>1. packages' = zip.image
        BY <1>3, <3>1
      <4>2. props' = IF zip.props = "garbled" \/ (zip.inside /\ ~ zip.image)
                     THEN "missing" ELSE zip.props
        BY <1>3, <3>1
      <4>3. QED
        BY <3>1, <4>1, <4>2, ZipType DEF IInv, Image, HasProps, Attributed
    <3>2. CASE ~ zip.inner
      <4>1. packages' = FALSE /\ props' = "missing"
        BY <1>3, <3>2, Zenon DEF IInv, ReadKnown
      <4>2. ~ Image /\ ~ HasProps /\ ~ Attributed
        BY <3>2 DEF Image, HasProps, Attributed
      <4>3. QED
        BY <4>1, <4>2
    <3>3. QED
      BY <3>1, <3>2
  <2>2. counted' \in BOOLEAN /\ (counted' <=> Image /\ HasProps /\ zip.played)
    <3>1. CASE zip.inner
      <4>1. counted' = (packages' /\ props' # "missing" /\ zip.played)
        BY <1>3, <3>1
      <4>2. QED
        BY <2>1, <4>1
    <3>2. CASE ~ zip.inner
      <4>1. counted' = FALSE
        BY <1>3, <3>2, Zenon DEF IInv, ReadKnown
      <4>2. QED
        BY <3>2, <4>1 DEF Image
    <3>3. QED
      BY <3>1, <3>2
  <2>3. TypeOK'
    BY <1>1, <1>3, <2>1, <2>2 DEF IInv, TypeOK, Stages, sound
  <2>4. ReadKnown'
    BY <1>1, <1>3, <2>1, <2>2, SameZip DEF ReadKnown
  <2>5. RowsKnown'
    <3>1. "playstatistics" \notin rows'
      BY DEF IInv, RowsKnown
    <3>2. stage' = "files" => ~ counted'
      BY DEF IInv, ReadKnown
    <3>3. QED
      BY <1>3, <3>1, <3>2 DEF RowsKnown
  <2>6. ReadableSoFar'
    BY <1>1, <1>3 DEF IInv, ReadableSoFar
  <2>7. SoundKnown'
    BY <1>1, <1>3, SoundStays DEF IInv
  <2>8. Emitted' /\ MessagesKnown' /\ SurveysKnown' /\ RaisedKnown'
    BY <1>3 DEF IInv, Emitted, MessagesKnown, SurveysKnown, RaisedKnown
  <2>9. QED
    BY <2>3, <2>4, <2>5, <2>6, <2>7, <2>8 DEF IInv
<1>4. QED
  BY <1>1, <1>2, <1>3

LEMMA PlaysStep == ASSUME IInv, PlayStatistics PROVE IInv'
<1> USE DEF PlayStatistics, At, GoTo, read
<1>1. UNCHANGED <<zip, sound>>
  OBVIOUS
<1>2. TypeOK'
  BY DEF IInv, TypeOK, Stages, sound
<1>3. ReadableSoFar' /\ ReadKnown' /\ RowsKnown' /\ Emitted'
  BY SameZip DEF IInv, ReadableSoFar, ReadKnown, RowsKnown, Emitted,
     CanDescribePlays
<1>4. SoundKnown'
  BY <1>1, SoundStays DEF IInv
<1>5. MessagesKnown' /\ SurveysKnown' /\ RaisedKnown'
  BY DEF IInv, MessagesKnown, SurveysKnown, RaisedKnown
<1>6. QED
  BY <1>2, <1>3, <1>4, <1>5 DEF IInv

LEMMA OperationsStep == ASSUME IInv, Operations PROVE IInv'
<1> USE DEF Operations, At, GoTo, read
<1>1. UNCHANGED <<zip, sound>>
  OBVIOUS
<1>2. /\ rows' \in SUBSET {"tbscollected", "tbsdeployed", "playstatistics"}
      /\ "playstatistics" \in rows' <=> "playstatistics" \in rows
  BY DEF IInv, TypeOK
<1>3. TypeOK'
  BY <1>2 DEF IInv, TypeOK, Stages, sound
<1>4. ReadableSoFar' /\ ReadKnown' /\ RowsKnown' /\ Emitted'
  BY <1>2, SameZip DEF IInv, ReadableSoFar, ReadKnown, RowsKnown, Emitted
<1>5. SoundKnown'
  BY <1>1, SoundStays DEF IInv
<1>6. MessagesKnown' /\ SurveysKnown' /\ RaisedKnown'
  BY DEF IInv, MessagesKnown, SurveysKnown, RaisedKnown
<1>7. QED
  BY <1>3, <1>4, <1>5, <1>6 DEF IInv

LEMMA FilesStep == ASSUME IInv, ReadFiles PROVE IInv'
<1> USE DEF ReadFiles, At, GoTo, read
<1>1. /\ UNCHANGED <<zip, sound>> /\ stage' \in {"raised", "recordings"}
      /\ UNCHANGED <<named, mp3, failed>>
  BY DEF sound
<1>2. TypeOK'
  BY <1>1 DEF IInv, TypeOK, Stages, sound
<1>3. ReadableSoFar' /\ ReadKnown' /\ RowsKnown' /\ Emitted'
  BY <1>1, SameZip DEF IInv, ReadableSoFar, ReadKnown, RowsKnown, Emitted
<1>4. SoundKnown'
  BY <1>1, SoundStays DEF IInv
<1>5. MessagesKnown' /\ SurveysKnown'
  BY <1>1 DEF IInv, MessagesKnown, SurveysKnown
<1>6. RaisedKnown'
  BY <1>1, SameFile DEF RaisedKnown, Blocks, Unreadable
<1>7. QED
  BY <1>2, <1>3, <1>4, <1>5, <1>6 DEF IInv

-----------------------------------------------------------------------------
(* One recording.                                                          *)

\* What the conversion may do with a recording: raise, leave it out, or note
\* its uuid and convert it or not.
WavRaised(r) ==
  /\ stage' = "raised" /\ UNCHANGED <<mp3, failed>>
  /\ \/ UNCHANGED named /\ Unguessed(r)
     \/ named' = named \cup {r} /\ Undescribed(r)
LeftOut(r) ==
  UNCHANGED <<stage, named, mp3, failed>> /\ ~ Unguessed(r) /\ ~ Convertible(r)
Noted(r) ==
  /\ UNCHANGED stage /\ named' = named \cup {r}
  /\ ~ Unguessed(r) /\ Convertible(r)
  /\ \/ failed' = failed \cup {r} /\ UNCHANGED mp3
     \/ mp3' = mp3 \cup {r} /\ UNCHANGED failed /\ zip.sound[r] = "good"

LEMMA ConvertWavCases ==
  ASSUME IInv, stage = "recordings", NEW r \in todo, ConvertWav(r),
         IF Encrypted(r) THEN zip.keyRow ELSE ".wav" \in zip.files[r]
  PROVE  WavRaised(r) \/ LeftOut(r) \/ Noted(r)
<1>1. packages <=> Image
  BY DEF IInv, ReadKnown
<1>2. Audible(r) <=> zip.sound[r] # "short"
  BY DEF Audible
<1>3. r \notin failed
  BY DEF IInv, TypeOK, SoundKnown
<1>4. CASE zip.sound[r] = "short"
  BY <1>2, <1>4 DEF ConvertWav, LeaveOut, LeftOut, Unguessed, Convertible
<1>5. CASE zip.sound[r] # "short" /\ Guessing(r) /\ ~ packages
  BY <1>1, <1>2, <1>5 DEF ConvertWav, Raise, GoTo, WavRaised, Unguessed
<1>6. CASE /\ zip.sound[r] # "short" /\ ~ (Guessing(r) /\ ~ packages)
           /\ ~ Identified(r)
  BY <1>1, <1>6 DEF ConvertWav, LeaveOut, LeftOut, Unguessed, Convertible
<1>7. CASE /\ zip.sound[r] # "short" /\ ~ (Guessing(r) /\ ~ packages)
           /\ Identified(r)
  <2>1. ~ Unguessed(r) /\ Convertible(r)
    BY <1>1, <1>2, <1>7 DEF Unguessed, Convertible
  <2>2. /\ named' = named \cup {r}
        /\ \/ failed' = failed \cup {r} /\ UNCHANGED <<stage, mp3>>
           \/ /\ zip.sound[r] = "rateless"
              /\ GoTo("raised") /\ UNCHANGED <<mp3, failed>>
           \/ /\ zip.sound[r] = "good"
              /\ mp3' = mp3 \cup {r} /\ UNCHANGED <<stage, failed>>
    BY <1>7 DEF ConvertWav
  <2>3. QED
    BY <1>3, <2>1, <2>2 DEF GoTo, WavRaised, Noted, Undescribed
<1>8. QED
  BY <1>4, <1>5, <1>6, <1>7

LEMMA ConvertCases ==
  ASSUME IInv, NEW r \in Recordings, Convert(r)
  PROVE  \/ /\ stage' = "raised" /\ UNCHANGED <<named, mp3, failed>>
            /\ Undeciphered(r)
         \/ WavRaised(r)
         \/ ~ Undeciphered(r) /\ (LeftOut(r) \/ Noted(r))
<1>1. stage = "recordings" /\ r \in todo
  BY DEF Convert, At
<1>2. props = "complete" <=> Attributed
  BY <1>1 DEF IInv, ReadKnown
<1>3. CASE ~ Encrypted(r) /\ ".wav" \notin zip.files[r]
  BY <1>3 DEF Convert, LeaveOut, LeftOut, Unguessed, Convertible, Audible,
     Undeciphered
<1>4. CASE ~ Encrypted(r) /\ ".wav" \in zip.files[r]
  BY <1>1, <1>4, ConvertWavCases DEF Convert, Undeciphered
<1>5. CASE Encrypted(r)
  <2>1. Decrypt(r)
    BY <1>5 DEF Convert
  <2>2. CASE zip.key[r] = "short" \/ NoKeyName
    BY <1>2, <1>5, <2>1, <2>2 DEF Decrypt, Raise, GoTo, Undeciphered, NoKeyName
  <2>3. CASE ~ (zip.key[r] = "short" \/ NoKeyName) /\ ~ zip.keyRow
    BY <1>2, <1>5, <2>1, <2>3 DEF Decrypt, LeaveOut, LeftOut, Undeciphered,
       NoKeyName, Unguessed, Convertible, Audible
  <2>4. CASE /\ ~ (zip.key[r] = "short" \/ NoKeyName) /\ zip.keyRow
             /\ zip.key[r] = "garbled"
    BY <1>5, <2>1, <2>4 DEF Decrypt, Raise, GoTo, Undeciphered
  <2>5. CASE /\ ~ (zip.key[r] = "short" \/ NoKeyName) /\ zip.keyRow
             /\ zip.key[r] # "garbled"
    <3>1. ConvertWav(r)
      BY <2>1, <2>5 DEF Decrypt
    <3>2. ~ Undeciphered(r)
      BY <1>2, <2>5 DEF Undeciphered, NoKeyName
    <3>3. QED
      BY <1>1, <1>5, <2>5, <3>1, <3>2, ConvertWavCases
  <2>6. QED
    BY <2>2, <2>3, <2>4, <2>5
<1>6. QED
  BY <1>3, <1>4, <1>5

LEMMA ConvertStep ==
  ASSUME IInv, NEW r \in Recordings, Convert(r)
  PROVE  IInv'
<1>1. /\ stage = "recordings" /\ r \in todo /\ r \notin named
      /\ r \notin mp3 /\ r \notin failed
      /\ todo' = todo \ {r} /\ UNCHANGED <<zip, read, rows, messages, refers>>
  BY DEF Convert, At, IInv, SoundKnown, TypeOK
<1>2. messages = {} /\ refers = {}
  BY <1>1 DEF IInv, MessagesKnown, SurveysKnown
<1>3. CASE stage' = "raised"
  <2>1. /\ mp3' = mp3 /\ failed' = failed
        /\ named' = named \/ named' = named \cup {r}
        /\ Undeciphered(r) \/ Unguessed(r) \/ Undescribed(r)
    BY <1>1, <1>3, ConvertCases DEF WavRaised, LeftOut, Noted
  <2>2. TypeOK'
    BY <1>1, <1>2, <1>3, <2>1 DEF IInv, TypeOK, Stages, read
  <2>3. SoundKnown'
    BY <1>1, <1>3, <2>1 DEF IInv, SoundKnown
  <2>4. RaisedKnown'
    <3>1. /\ Undeciphered(r)' = Undeciphered(r)
          /\ Unguessed(r)' = Unguessed(r)
          /\ Convertible(r)' = Convertible(r)
          /\ Describable(r)' = Describable(r)
      BY <1>1, SameZip
    <3>2. Undescribed(r)' = Undescribed(r)
      BY <1>1, <2>1, <3>1 DEF Undescribed
    <3>3. QED
      BY <2>1, <3>1, <3>2 DEF RaisedKnown, Blocks
  <2>5. MessagesKnown' /\ SurveysKnown'
    BY <1>1, <1>2, <1>3 DEF MessagesKnown, SurveysKnown
  <2>6. QED
    BY <1>3, <2>2, <2>3, <2>4, <2>5
       DEF IInv, ReadableSoFar, ReadKnown, RowsKnown, Emitted
<1>4. CASE stage' # "raised"
  <2>1. ~ Undeciphered(r) /\ (LeftOut(r) \/ Noted(r)) /\ stage' = stage
    BY <1>4, ConvertCases DEF WavRaised, LeftOut, Noted
  <2>2. TypeOK'
    BY <1>1, <1>2, <2>1 DEF IInv, TypeOK, Stages, read, LeftOut, Noted
  <2>3. ReadableSoFar' /\ ReadKnown' /\ RowsKnown' /\ Emitted'
    BY <1>1, <2>1, SameZip
       DEF IInv, ReadableSoFar, ReadKnown, RowsKnown, Emitted, read
  <2>4. Dealt(r)'
    <3>1. /\ Undeciphered(r)' = Undeciphered(r)
          /\ Unguessed(r)' = Unguessed(r)
          /\ Convertible(r)' = Convertible(r)
      BY <1>1, SameZip
    <3>2. CASE LeftOut(r)
      BY <1>1, <2>1, <3>1, <3>2 DEF LeftOut, Dealt
    <3>3. CASE Noted(r)
      BY <1>1, <2>1, <3>1, <3>3 DEF Noted, Dealt
    <3>4. QED
      BY <2>1, <3>2, <3>3
  <2>5. ASSUME NEW o \in Recordings \ todo', o # r PROVE Dealt(o)'
    <3>1. Dealt(o)
      BY <1>1, <2>5 DEF IInv, SoundKnown
    <3>2. /\ o \in named' <=> o \in named
          /\ o \in mp3' <=> o \in mp3
      BY <2>1, <2>5 DEF LeftOut, Noted
    <3>3. /\ Undeciphered(o)' = Undeciphered(o)
          /\ Unguessed(o)' = Unguessed(o)
          /\ Convertible(o)' = Convertible(o)
      BY <1>1, SameZip
    <3>4. QED
      BY <1>1, <3>1, <3>2, <3>3 DEF Dealt
  <2>6. SoundKnown'
    <3>1. todo' \cap named' = {} /\ mp3' \cap failed' = {}
      BY <1>1, <2>1 DEF IInv, SoundKnown, LeftOut, Noted
    <3>2. named' = mp3' \cup failed'
      BY <1>1, <2>1 DEF IInv, SoundKnown, LeftOut, Noted
    <3>3. QED
      BY <1>1, <2>1, <2>4, <2>5, <3>1, <3>2 DEF SoundKnown
  <2>7. MessagesKnown' /\ SurveysKnown' /\ RaisedKnown'
    BY <1>1, <1>2, <1>4, <2>1 DEF MessagesKnown, SurveysKnown, RaisedKnown
  <2>8. QED
    BY <2>2, <2>3, <2>6, <2>7 DEF IInv
<1>5. QED
  BY <1>3, <1>4

-----------------------------------------------------------------------------
(* The steps after the recordings.                                         *)

LEMMA RecordedStep == ASSUME IInv, Recorded PROVE IInv'
<1> USE DEF Recorded, At, GoTo, read
<1>1. UNCHANGED <<zip, sound>>
  OBVIOUS
<1>2. TypeOK'
  BY DEF IInv, TypeOK, Stages, sound
<1>3. ReadableSoFar' /\ ReadKnown' /\ RowsKnown' /\ Emitted'
  BY SameZip DEF IInv, ReadableSoFar, ReadKnown, RowsKnown, Emitted
<1>4. SoundKnown'
  BY <1>1, SoundStays DEF IInv
<1>5. MessagesKnown' /\ SurveysKnown' /\ RaisedKnown'
  BY DEF IInv, MessagesKnown, SurveysKnown, RaisedKnown
<1>6. QED
  BY <1>2, <1>3, <1>4, <1>5 DEF IInv

LEMMA EmitStep == ASSUME IInv, Emit PROVE IInv'
<1> USE DEF Emit, At, GoTo, read
<1>1. /\ UNCHANGED <<zip, sound>> /\ stage' \in {"raised", "messages"}
      /\ UNCHANGED <<named, mp3, failed>> /\ todo = {}
  BY DEF sound, IInv, SoundKnown
<1>2. TypeOK'
  BY <1>1 DEF IInv, TypeOK, Stages, sound
<1>3. ReadableSoFar' /\ ReadKnown' /\ RowsKnown' /\ Emitted'
  BY <1>1, SameZip DEF IInv, ReadableSoFar, ReadKnown, RowsKnown, Emitted,
     CanDescribePlays
<1>4. SoundKnown'
  BY <1>1, SoundStays DEF IInv
<1>5. MessagesKnown' /\ SurveysKnown'
  BY <1>1 DEF IInv, MessagesKnown, SurveysKnown
<1>6. RaisedKnown'
  <2> SUFFICES ASSUME stage' = "raised" PROVE Blocks
    BY <1>1, SameFile DEF RaisedKnown
  <2>1. counted /\ props # "complete"
    BY DEF CanDescribePlays
  <2>2. Image /\ HasProps /\ ~ Attributed /\ zip.played
    BY <2>1 DEF IInv, ReadKnown
  <2>3. QED
    BY <2>2 DEF Blocks, Unattributed, HasProps, Attributed
<1>7. QED
  BY <1>2, <1>3, <1>4, <1>5, <1>6 DEF IInv

LEMMA MessagesStep == ASSUME IInv, Messages PROVE IInv'
<1> USE DEF Messages, At, GoTo, read
<1>1. /\ UNCHANGED <<zip, sound>> /\ stage' \in {"raised", "surveys"}
      /\ UNCHANGED <<named, mp3, failed>> /\ todo = {}
  BY DEF sound, IInv, SoundKnown
<1>2. \A r : CanDescribe(r) <=> Describable(r)
  BY DEF IInv, ReadKnown, CanDescribe, Describable
<1>3. TypeOK'
  BY <1>1 DEF IInv, TypeOK, Stages, sound
<1>4. ReadableSoFar' /\ ReadKnown' /\ RowsKnown' /\ Emitted'
  BY <1>1, SameZip DEF IInv, ReadableSoFar, ReadKnown, RowsKnown, Emitted
<1>5. SoundKnown'
  BY <1>1, SoundStays DEF IInv
<1>6. MessagesKnown' /\ SurveysKnown'
  BY <1>1, <1>2, SameZip DEF IInv, MessagesKnown, SurveysKnown
<1>7. RaisedKnown'
  <2> SUFFICES ASSUME stage' = "raised" PROVE Blocks
    BY <1>1, SameFile DEF RaisedKnown
  <2>1. PICK r \in mp3 : ~ Describable(r)
    BY <1>2
  <2>2. r \in Recordings /\ r \in named /\ r \notin failed
    BY DEF IInv, TypeOK, SoundKnown
  <2>3. Convertible(r)
    BY <1>1, <2>2 DEF IInv, SoundKnown, Dealt
  <2>4. QED
    BY <2>1, <2>2, <2>3 DEF Blocks, Undescribed
<1>8. QED
  BY <1>3, <1>4, <1>5, <1>6, <1>7 DEF IInv

LEMMA SurveysStep == ASSUME IInv, Surveys PROVE IInv'
<1> USE DEF Surveys, At, GoTo, read
<1>1. /\ UNCHANGED <<zip, sound>> /\ stage' \in {"raised", "parsed"}
      /\ UNCHANGED <<named, mp3, failed>> /\ todo = {}
  BY DEF sound, IInv, SoundKnown
<1>2. CanPlace <=> Placed
  <2>1. zip.survey \in {"none", "empty", "answered"}
    BY ZipType DEF IInv, ReadableSoFar
  <2>2. QED
    BY <2>1 DEF IInv, ReadKnown, CanPlace, Placed
<1>3. TypeOK'
  BY <1>1 DEF IInv, TypeOK, Stages, SurveysKnown, sound
<1>4. ReadableSoFar' /\ ReadKnown' /\ RowsKnown' /\ Emitted'
  BY <1>1, SameZip DEF IInv, ReadableSoFar, ReadKnown, RowsKnown, Emitted
<1>5. SoundKnown'
  BY <1>1, SoundStays DEF IInv
<1>6. MessagesKnown' /\ SurveysKnown'
  BY <1>1, <1>2, SameZip DEF IInv, MessagesKnown, SurveysKnown
<1>7. RaisedKnown'
  BY <1>1, <1>2, SameFile DEF RaisedKnown, Blocks, Unattributed, Placed
<1>8. QED
  BY <1>3, <1>4, <1>5, <1>6, <1>7 DEF IInv

-----------------------------------------------------------------------------
LEMMA InitIInv == Init => IInv
<1> SUFFICES ASSUME Init PROVE IInv
  OBVIOUS
<1> USE DEF Init
<1>1. TypeOK
  BY DEF TypeOK, Stages
<1>2. ReadableSoFar /\ ReadKnown /\ RowsKnown /\ Emitted
  BY DEF ReadableSoFar, ReadKnown, RowsKnown, Emitted
<1>3. SoundKnown /\ MessagesKnown /\ SurveysKnown /\ RaisedKnown
  BY DEF SoundKnown, MessagesKnown, SurveysKnown, RaisedKnown
<1>4. QED
  BY <1>1, <1>2, <1>3 DEF IInv

LEMMA StutterIInv == ASSUME IInv, UNCHANGED vars PROVE IInv'
<1> USE DEF vars, read, sound
<1>1. UNCHANGED <<zip, named, mp3, failed>>
  OBVIOUS
<1>2. TypeOK' /\ SoundKnown'
  BY <1>1, SameFile DEF IInv, TypeOK, SoundKnown
<1>3. ReadableSoFar' /\ ReadKnown' /\ RowsKnown' /\ Emitted'
  BY SameZip DEF IInv, ReadableSoFar, ReadKnown, RowsKnown, Emitted
<1>4. MessagesKnown' /\ SurveysKnown' /\ RaisedKnown'
  BY <1>1, SameZip, SameFile DEF IInv, MessagesKnown, SurveysKnown, RaisedKnown
<1>5. QED
  BY <1>2, <1>3, <1>4 DEF IInv

LEMMA NextIInv == IInv /\ [Next]_vars => IInv'
  BY OpDataStep, ProcessStep, PlaysStep, OperationsStep, FilesStep,
     ConvertStep, RecordedStep, EmitStep, MessagesStep, SurveysStep,
     StutterIInv DEF Next

LEMMA Invariance == Spec => []IInv
  BY InitIInv, NextIInv, PTL DEF Spec

\* Every variable keeps its type; in particular only recordings that were
\* converted get a row (S3UfImporter.py:313-401).
THEOREM TypeCorrect == Spec => []TypeOK
<1>1. IInv => TypeOK
  BY DEF IInv
<1>2. QED
  BY <1>1, Invariance, PTL

\* The exceptions that playstatistics swallows never drop the plays of a file
\* that goes on to the database (TbCollectedDataProcessor.py:467-473).
THEOREM PlaysAreKept == Spec => []PlaysNotDropped
<1>1. IInv => PlaysNotDropped
  <2> SUFFICES ASSUME IInv, stage = "parsed" PROVE PlaysNotDropped
    BY DEF PlaysNotDropped
  <2>1. /\ counted => props = "complete"
        /\ "playstatistics" \in rows <=> counted /\ props = "complete"
        /\ counted <=> Image /\ HasProps /\ zip.played
    BY DEF IInv, Emitted, RowsKnown, ReadKnown
  <2>2. QED
    BY <2>1 DEF PlaysNotDropped, Image, HasProps
<1>2. QED
  BY <1>1, Invariance, PTL

\* A file raises exactly if a part of it cannot be read, or something in it
\* cannot be attributed or converted, whatever stage finds it out.
THEOREM RaisesOnlyThen == Spec => []RaisesOnlyIfBlocked
<1>1. IInv => RaisesOnlyIfBlocked
  <2> SUFFICES ASSUME IInv, stage = "parsed" PROVE ~ Blocks
    BY DEF IInv, RaisedKnown, RaisesOnlyIfBlocked
  <2>1. ~ Unreadable
    BY DEF IInv, ReadableSoFar, Unreadable
  <2>2. ~ (Image /\ zip.props = "undeployed" /\ zip.played)
    <3>1. Image /\ zip.props = "undeployed" => HasProps /\ ~ Attributed
      BY DEF Image, HasProps, Attributed
    <3>2. QED
      BY <3>1 DEF IInv, Emitted, ReadKnown
  <2>3. ~ Unattributed
    BY <2>2 DEF IInv, SurveysKnown, Placed, Unattributed
  <2>4. ASSUME NEW r \in Recordings
        PROVE  ~ Undeciphered(r) /\ ~ Unguessed(r) /\ ~ Undescribed(r)
    <3>1. Dealt(r) /\ named = mp3 \cup failed
      BY DEF IInv, SoundKnown
    <3>2. r \in mp3 => Describable(r)
      BY DEF IInv, MessagesKnown
    <3>3. QED
      BY <3>1, <3>2 DEF Dealt, Undescribed
  <2>5. QED
    BY <2>1, <2>3, <2>4 DEF Blocks
<1>2. QED
  BY <1>1, Invariance, PTL

\* A parsed file has exactly the messages it should, and its answers name
\* them, or recordings that lame failed on.
THEOREM RecordingsAreKept == Spec => []RecordingsKept
<1>1. IInv => RecordingsKept
  <2> SUFFICES ASSUME IInv, stage = "parsed" PROVE RecordingsKept
    BY DEF RecordingsKept
  <2>1. /\ messages = mp3 /\ named = mp3 \cup failed /\ mp3 \cap failed = {}
        /\ refers = Answered \cap named
    BY DEF IInv, SoundKnown, MessagesKnown, SurveysKnown
  <2>2. named = {r \in Recordings : Convertible(r)}
    <3>1. \A r \in Recordings : r \in named <=> Convertible(r)
      BY DEF IInv, SoundKnown, Dealt
    <3>2. named \subseteq Recordings
      BY DEF IInv, TypeOK
    <3>3. QED
      BY <3>1, <3>2
  <2>3. messages = {r \in Recordings : Convertible(r)} \ failed
    BY <2>1, <2>2
  <2>4. QED
    BY <2>1, <2>3 DEF RecordingsKept
<1>2. QED
  BY <1>1, Invariance, PTL

-----------------------------------------------------------------------------
(* LogReader.                                                              *)

\* Once the log no longer waits for the time, the time is known: that is what
\* the constructor of every record relies on.
TimeKnown == ~ awaiting => base # NoTime /\ latest # NoTime

LogIInv == LogTypeOK /\ TimeKnown /\ StopsOnlyAtBadReading

-----------------------------------------------------------------------------
LEMMA DayType ==
  ASSUME NEW t \in Times
  PROVE  t \in Int /\ Day(t) \in Int /\ t # NoTime /\ Day(t) # NoTime
  BY TimesAssumption DEF Day

LEMMA BaseType ==
  ASSUME NEW t \in Times
  PROVE  Base(t) \in Int /\ Base(t) # NoTime
  BY DayType, TimesAssumption DEF Base

LEMMA BucketType ==
  ASSUME NEW play
  PROVE  Bucket(play) \in Buckets
  BY DEF Bucket, Buckets

\* What the environment may read, by the kind of the line.
LEMMA LineType ==
  ASSUME NEW line \in Log
  PROVE  /\ line.kind \in {"RTC", "setRTC"} => line.time \in MaybeTime
         /\ line.kind = "ChgPkg" => line.package \in Packages \cup {NoPackage}
         /\ line.kind = "PlayMsg" => /\ line.playlist \in Nat
                                     /\ line.message \in Nat
                                     /\ line.file \in Contents \cup {NoContent}
<1>1. line \in Lines
  BY LogAssumption
<1>2. QED
  BY <1>1 DEF Lines

\* A PlayMsg names a message of the deployment, or none.
LEMMA NamedType ==
  ASSUME NEW pkg \in Packages \cup {NoPackage}, NEW line \in Log,
         line.kind = "PlayMsg"
  PROVE  Named(pkg, line) \in Contents \cup {NoContent}
<1>1. line.file \in Contents \cup {NoContent}
  BY LineType
<1>2. CASE pkg = NoPackage \/ line.playlist \notin DOMAIN Playlists[pkg]
  BY <1>1, <1>2 DEF Named
<1>3. CASE pkg \in Packages /\ line.playlist \in DOMAIN Playlists[pkg]
  <2>1. Playlists[pkg] \in Seq(Seq(Contents))
    BY <1>3, PlaylistsAssumption
  <2>2. Playlists[pkg][line.playlist] \in Seq(Contents)
    BY <2>1, <1>3
  <2>3. line.message \in DOMAIN Playlists[pkg][line.playlist]
          => Playlists[pkg][line.playlist][line.message] \in Contents
    BY <2>2
  <2>4. QED
    BY <1>3, <2>3, NamesAssumption DEF Named
<1>4. QED
  BY <1>2, <1>3

\* The latest time stays known, and its type, where a record advances it.
LEMMA AdvanceFacts ==
  ASSUME LogTypeOK, TimeKnown, NEW e \in Elapsed, Advance(e)
  PROVE  /\ latest' \in Int \cup {NoTime}
         /\ ~ awaiting => latest' # NoTime
<1>1. e \in Int
  BY TimesAssumption
<1>2. CASE awaiting
  BY <1>2 DEF Advance, LogTypeOK
<1>3. CASE ~ awaiting
  <2>1. base \in Int
    BY <1>3 DEF LogTypeOK, TimeKnown
  <2>2. latest' = base + e
    BY <1>3 DEF Advance
  <2>3. latest' \in Int
    BY <1>1, <2>1, <2>2
  <2>4. QED
    BY <2>3, TimesAssumption
<1>4. QED
  BY <1>2, <1>3

-----------------------------------------------------------------------------
(* What one line does to the context, record by record.                    *)

\* The types of what a record may change, and that the time is known.
ContextType ==
  /\ timeOfDay \in BOOLEAN /\ awaiting \in BOOLEAN /\ timed \in BOOLEAN
  /\ base \in Int \cup {NoTime} /\ latest \in Int \cup {NoTime}
  /\ package \in Packages \cup {NoPackage}
  /\ message \in Contents \cup {NoContent}
  /\ tally \in [Contents -> [Buckets -> Nat]]
  /\ TimeKnown

LEMMA RebootContext ==
  ASSUME LogTypeOK, TimeKnown, NEW line \in Log, Reboot(line)
  PROVE  ContextType'
  BY DEF LogTypeOK, TimeKnown, ContextType, Reboot

LEMMA RtcContext ==
  ASSUME LogTypeOK, TimeKnown, NEW line \in Log, Rtc(line)
  PROVE  ContextType'
<1>1. line.time \in MaybeTime
  BY LineType DEF Rtc
<1>2. CASE awaiting /\ line.time # NoTime
           /\ (latest = NoTime \/ line.time >= latest)
  <2>1. line.time \in Times
    BY <1>1, <1>2 DEF MaybeTime
  <2>2. /\ Base(line.time) \in Int /\ Base(line.time) # NoTime
        /\ line.time \in Int /\ line.time # NoTime
    BY <2>1, BaseType, DayType
  <2>3. base' = Base(line.time) /\ latest' = line.time /\ awaiting' = FALSE
    BY <1>2 DEF Rtc
  <2>4. QED
    BY <2>2, <2>3 DEF LogTypeOK, TimeKnown, ContextType, Rtc
<1>3. CASE UNCHANGED <<base, latest, awaiting>>
  BY <1>3 DEF LogTypeOK, TimeKnown, ContextType, Rtc
<1>4. QED
  BY <1>2, <1>3 DEF Rtc

LEMMA SetRtcContext ==
  ASSUME LogTypeOK, TimeKnown, NEW line \in Log, SetRtc(line)
  PROVE  ContextType'
<1>1. line.time \in MaybeTime
  BY LineType DEF SetRtc
<1>2. CASE line.time = NoTime
  BY <1>2 DEF LogTypeOK, TimeKnown, ContextType, SetRtc
<1>3. CASE line.time # NoTime
  <2>1. line.time \in Times
    BY <1>1, <1>3 DEF MaybeTime
  <2>2. /\ Base(line.time) \in Int /\ Base(line.time) # NoTime
        /\ line.time \in Int /\ line.time # NoTime
    BY <2>1, BaseType, DayType
  <2>3. base' = Base(line.time) /\ latest' = line.time
    BY <1>3 DEF SetRtc
  <2>4. QED
    BY <2>2, <2>3 DEF LogTypeOK, TimeKnown, ContextType, SetRtc
<1>4. QED
  BY <1>2, <1>3

LEMMA PlayMsgContext ==
  ASSUME LogTypeOK, TimeKnown, NEW line \in Log, NEW e \in Elapsed,
         PlayMsg(line, e)
  PROVE  ContextType'
<1>1. /\ latest' \in Int \cup {NoTime}
      /\ ~ awaiting => latest' # NoTime
  BY AdvanceFacts DEF PlayMsg
<1>2. Named(package, line) \in Contents \cup {NoContent}
  BY NamedType DEF LogTypeOK, PlayMsg
<1>3. message' \in Contents \cup {NoContent} /\ timed' \in BOOLEAN
  <2>1. message \in Contents \cup {NoContent} /\ timed \in BOOLEAN
    BY DEF LogTypeOK
  <2>2. \/ message' = message /\ timed' = timed
        \/ message' = Named(package, line) /\ timed' = (latest' # NoTime)
    BY DEF PlayMsg
  <2>3. (latest' # NoTime) \in BOOLEAN
    OBVIOUS
  <2>4. timed' \in BOOLEAN
    BY <2>1, <2>2, <2>3, Zenon
  <2>5. message' \in Contents \cup {NoContent}
    BY <1>2, <2>1, <2>2
  <2>6. QED
    BY <2>4, <2>5
<1>4. UNCHANGED <<timeOfDay, base, awaiting, package, tally>>
  BY DEF PlayMsg
<1>5. QED
  BY <1>1, <1>3, <1>4 DEF LogTypeOK, TimeKnown, ContextType

\* MsgDone adds to one bucket of one message.
LEMMA MsgDoneContext ==
  ASSUME LogTypeOK, TimeKnown, NEW line \in Log, NEW e \in Elapsed,
         MsgDone(line, e)
  PROVE  ContextType'
<1>1. /\ latest' \in Int \cup {NoTime}
      /\ ~ awaiting => latest' # NoTime
  BY AdvanceFacts DEF MsgDone
<1>2. tally' \in [Contents -> [Buckets -> Nat]]
  <2>1. CASE line.kind = "MsgDone" /\ message # NoContent /\ timed
    <3> DEFINE B == Bucket(line.play)
    <3>1. B \in Buckets
      BY BucketType
    <3>2. message \in Contents
      BY <2>1 DEF LogTypeOK
    <3>3. tally[message] \in [Buckets -> Nat]
      BY <3>2 DEF LogTypeOK
    <3>4. tally' = [tally EXCEPT ![message] =
                      [tally[message] EXCEPT ![B] = tally[message][B] + 1]]
      BY <2>1, <3>2 DEF MsgDone, LogTypeOK
    <3> HIDE DEF B
    <3>5. [tally[message] EXCEPT ![B] = tally[message][B] + 1]
            \in [Buckets -> Nat]
      BY <3>1, <3>3
    <3>6. QED
      BY <3>2, <3>4, <3>5 DEF LogTypeOK
  <2>2. CASE ~ (line.kind = "MsgDone" /\ message # NoContent /\ timed)
    BY <2>2 DEF MsgDone, LogTypeOK
  <2>3. QED
    BY <2>1, <2>2
<1>3. /\ UNCHANGED <<timeOfDay, base, awaiting, package>>
      /\ message' = NoContent /\ timed' = FALSE
  BY DEF MsgDone
<1>4. QED
  BY <1>1, <1>2, <1>3 DEF LogTypeOK, TimeKnown, ContextType

\* The records that leave message and tally alone.
LEMMA PassingContext ==
  ASSUME LogTypeOK, TimeKnown, NEW line \in Log, NEW e \in Elapsed,
         ChgPkg(line, e) \/ AdjPos(line, e) \/ Other(line, e)
  PROVE  ContextType'
<1>1. /\ latest' \in Int \cup {NoTime}
      /\ ~ awaiting => latest' # NoTime
  BY AdvanceFacts DEF ChgPkg, AdjPos, Other
<1>2. package' \in Packages \cup {NoPackage}
  <2>1. package \in Packages \cup {NoPackage}
    BY DEF LogTypeOK
  <2>2. CASE ChgPkg(line, e)
    BY <2>2, LineType DEF ChgPkg
  <2>3. CASE AdjPos(line, e) \/ Other(line, e)
    BY <2>1, <2>3 DEF AdjPos, Other
  <2>4. QED
    BY <2>2, <2>3
<1>3. timed' \in BOOLEAN
  <2>1. timed \in BOOLEAN /\ (latest' # NoTime) \in BOOLEAN
    BY DEF LogTypeOK
  <2>2. timed' = timed \/ timed' = (latest' # NoTime)
    BY Zenon DEF ChgPkg, AdjPos, Other
  <2>3. QED
    BY <2>1, <2>2, Zenon
<1>4. UNCHANGED <<timeOfDay, base, awaiting, message, tally>>
  BY DEF ChgPkg, AdjPos, Other
<1>5. QED
  BY <1>1, <1>2, <1>3, <1>4 DEF LogTypeOK, TimeKnown, ContextType

-----------------------------------------------------------------------------
(* The inductive invariant.                                                *)

\* Where the time is known no line finds the base missing.
LEMMA BaseIsThere == ASSUME TimeKnown PROVE ~ NoBase
  BY DEF TimeKnown, NoBase

LEMMA ReadStep ==
  ASSUME LogIInv, NEW line \in Log, NEW e \in Elapsed, Read(line, e)
  PROVE  LogIInv'
<1>1. /\ heard \in Seq(Log) /\ heard' = Append(heard, line)
      /\ file' = file /\ earlier' = earlier
  BY DEF LogIInv, LogTypeOK, Read
<1>2. /\ heard' \in Seq(Log) /\ heard' # <<>>
      /\ heard'[Len(heard')] = line
  BY <1>1
<1>3. CASE BadReading(line)
  <2>1. stopped' = TRUE /\ UNCHANGED <<context, tally>>
    BY <1>3 DEF Read
  <2>2. LogTypeOK' /\ TimeKnown'
    BY <1>1, <1>2, <2>1 DEF LogIInv, LogTypeOK, TimeKnown, context
  <2>3. line.kind = "RTC" /\ line.time = NoTime
    BY <1>3 DEF BadReading
  <2>4. StopsOnlyAtBadReading'
    BY <1>2, <2>3 DEF StopsOnlyAtBadReading
  <2>5. QED
    BY <2>2, <2>4 DEF LogIInv
<1>4. CASE ~ BadReading(line)
  <2>1. ~ NoBase
    BY BaseIsThere DEF LogIInv
  <2>2. /\ stopped' = stopped /\ ~ stopped
        /\ \/ Reboot(line) \/ Rtc(line) \/ SetRtc(line)
           \/ ChgPkg(line, e) \/ PlayMsg(line, e) \/ AdjPos(line, e)
           \/ MsgDone(line, e) \/ Other(line, e)
    BY <1>4, <2>1 DEF Read
  <2>3. ContextType'
    BY <2>2, RebootContext, RtcContext, SetRtcContext, PlayMsgContext,
       MsgDoneContext, PassingContext DEF LogIInv
  <2>4. LogTypeOK' /\ TimeKnown'
    BY <1>1, <1>2, <2>2, <2>3 DEF LogIInv, LogTypeOK, ContextType
  <2>5. StopsOnlyAtBadReading'
    BY <2>2 DEF StopsOnlyAtBadReading
  <2>6. QED
    BY <2>4, <2>5 DEF LogIInv
<1>5. QED
  BY <1>3, <1>4

LEMMA NextFileStep ==
  ASSUME LogIInv, NextFile
  PROVE  LogIInv'
<1>1. file' \in DOMAIN Lengths
  <2>1. file \in DOMAIN Lengths /\ file < Len(Lengths) /\ file' = file + 1
    BY DEF LogIInv, LogTypeOK, NextFile
  <2>2. QED
    BY <2>1, BoundsAssumption
<1>2. heard' = <<>> /\ <<>> \in Seq(Log)
  BY DEF NextFile
<1>3. LogTypeOK'
  BY <1>1, <1>2 DEF LogIInv, LogTypeOK, NextFile
<1>4. QED
  BY <1>3 DEF LogIInv, TimeKnown, StopsOnlyAtBadReading, NextFile

LEMMA LogInitIInv == LogInit => LogIInv
<1> SUFFICES ASSUME LogInit PROVE LogIInv
  OBVIOUS
<1>1. 1 \in DOMAIN Lengths /\ <<>> \in Seq(Log)
  BY BoundsAssumption
<1>2. LogTypeOK
  BY <1>1 DEF LogInit, LogTypeOK
<1>3. QED
  BY <1>2 DEF LogInit, LogIInv, TimeKnown, StopsOnlyAtBadReading

LEMMA LogNextIInv == LogIInv /\ [LogNext]_logVars => LogIInv'
<1> SUFFICES ASSUME LogIInv, [LogNext]_logVars PROVE LogIInv'
  OBVIOUS
<1>1. CASE \E line \in Log, e \in Elapsed : Read(line, e)
  BY <1>1, ReadStep
<1>2. CASE NextFile
  BY <1>2, NextFileStep
<1>3. CASE UNCHANGED logVars
  BY <1>3 DEF logVars, context, LogIInv, LogTypeOK, TimeKnown, StopsOnlyAtBadReading
<1>4. QED
  BY <1>1, <1>2, <1>3 DEF LogNext

LEMMA LogInvariance == LogSpec => []LogIInv
  BY LogInitIInv, LogNextIInv, PTL DEF LogSpec

\* Every variable keeps its type: in particular a PlayMsg never names a
\* message that the statistics do not know (logrecord.py:482-525).
THEOREM LogTypeCorrect == LogSpec => []LogTypeOK
<1>1. LogIInv => LogTypeOK
  BY DEF LogIInv
<1>2. QED
  BY <1>1, LogInvariance, PTL

\* No line of any log finds the base of the time stamps missing; only a
\* reading of the clock that is no date ends a file.
THEOREM StopsAtBadReading == LogSpec => []StopsOnlyAtBadReading
<1>1. LogIInv => StopsOnlyAtBadReading
  BY DEF LogIInv
<1>2. QED
  BY <1>1, LogInvariance, PTL
-----------------------------------------------------------------------------
(* What is counted, and what the lines tell.                               *)

\* Both logs have the same first n lines.
Agree(log, other, n) == \A k \in 1 .. n : log[k] = other[k]

LEMMA AppendAgrees ==
  ASSUME NEW log \in Seq(Log), NEW line \in Log
  PROVE  /\ Agree(log, Append(log, line), Len(log))
         /\ Len(Append(log, line)) = Len(log) + 1
         /\ Append(log, line)[Len(log) + 1] = line
         /\ Append(log, line) \in Seq(Log)
  BY DEF Agree

\* Two lines cannot both be the last that selects a package.
LEMMA InForceIs ==
  ASSUME NEW log, NEW i \in Nat, NEW k \in 1 .. i - 1, Selects(log, k, i)
  PROVE  InForce(log, i) = log[k].package
<1> DEFINE c == CHOOSE l \in 1 .. i - 1 : Selects(log, l, i)
<1>1. c \in 1 .. i - 1 /\ Selects(log, c, i)
  OBVIOUS
<1>2. InForce(log, i) = log[c].package
  BY DEF InForce
<1> HIDE DEF c
<1>3. ~ (c < k) /\ ~ (k < c)
  BY <1>1 DEF Selects
<1>4. c = k
  BY <1>1, <1>3
<1>5. QED
  BY <1>2, <1>4

LEMMA SelectsAgrees ==
  ASSUME NEW log, NEW other, NEW n \in Nat, Agree(log, other, n),
         NEW i \in 1 .. n + 1, NEW k \in 1 .. i - 1
  PROVE  Selects(log, k, i) <=> Selects(other, k, i)
  BY DEF Agree, Selects

LEMMA InForceAgrees ==
  ASSUME NEW log, NEW other, NEW n \in Nat, Agree(log, other, n),
         NEW i \in 1 .. n + 1
  PROVE  InForce(log, i) = InForce(other, i)
<1>1. CASE \E k \in 1 .. i - 1 : Selects(log, k, i)
  <2>1. PICK k \in 1 .. i - 1 : Selects(log, k, i)
    BY <1>1
  <2>2. Selects(other, k, i)
    BY <2>1, SelectsAgrees
  <2>3. log[k] = other[k]
    BY DEF Agree
  <2>4. QED
    BY <2>1, <2>2, <2>3, InForceIs
<1>2. CASE ~ \E k \in 1 .. i - 1 : Selects(log, k, i)
  <2>1. ~ \E k \in 1 .. i - 1 : Selects(other, k, i)
    BY <1>2, SelectsAgrees
  <2>2. QED
    BY <1>2, <2>1 DEF InForce
<1>3. QED
  BY <1>1, <1>2

LEMMA HeardAgrees ==
  ASSUME NEW log, NEW other, NEW n \in Nat, Agree(log, other, n),
         NEW i \in 1 .. n
  PROVE  Heard(log, i) = Heard(other, i)
<1>1. log[i] = other[i] /\ InForce(log, i) = InForce(other, i)
  BY InForceAgrees DEF Agree
<1>2. QED
  BY <1>1 DEF Heard

\* What is open before a line depends on the lines before it.
LEMMA OpenAgrees ==
  ASSUME NEW log, NEW other, NEW n \in Nat, Agree(log, other, n),
         NEW j \in 1 .. n + 1, NEW i \in 1 .. j - 1, NEW c
  PROVE  /\ Open(log, i, j, c) <=> Open(other, i, j, c)
         /\ Known(log, i, j) <=> Known(other, i, j)
<1>1. \A k \in 1 .. n : Heard(log, k) = Heard(other, k) /\ log[k] = other[k]
  BY HeardAgrees DEF Agree
<1>2. Open(log, i, j, c) <=> Open(other, i, j, c)
  BY <1>1 DEF Open
<1>3. Known(log, i, j) <=> Known(other, i, j)
  BY <1>1 DEF Known
<1>4. QED
  BY <1>2, <1>3

LEMMA EndsAgrees ==
  ASSUME NEW log, NEW other, NEW n \in Nat, Agree(log, other, n),
         NEW j \in 1 .. n, NEW c
  PROVE  Ends(log, j, c) <=> Ends(other, j, c)
<1>1. \A i \in 1 .. j - 1 : Open(log, i, j, c) /\ Known(log, i, j)
                              <=> Open(other, i, j, c) /\ Known(other, i, j)
  BY OpenAgrees
<1>2. log[j] = other[j]
  BY DEF Agree
<1>3. QED
  BY <1>1, <1>2 DEF Ends

-----------------------------------------------------------------------------
(* The context is what the lines of the file say, as long as it is read.   *)

PackageWell(log, pkg) == pkg = InForce(log, Len(log) + 1)

MessageWell(log, msg, tmd) ==
  /\ msg # NoContent => \E i \in 1 .. Len(log) : Open(log, i, Len(log) + 1, msg)
  /\ \A i \in 1 .. Len(log), c \in Contents :
       Open(log, i, Len(log) + 1, c) =>
         msg = c /\ (tmd <=> Known(log, i, Len(log) + 1))

Told(log) == \E s \in 1 .. Len(log) : Tells(log[s])

ContextInv ==
  ~ stopped => /\ PackageWell(heard, package)
               /\ MessageWell(heard, message, timed)
               /\ (latest # NoTime <=> Told(heard))

LEMMA PackageGrows ==
  ASSUME NEW log \in Seq(Log), NEW line \in Log, NEW pkg, NEW pkg2,
         PackageWell(log, pkg),
         line.kind = "REBOOT" => pkg2 = NoPackage,
         line.kind = "ChgPkg" => pkg2 = line.package,
         line.kind \notin {"REBOOT", "ChgPkg"} => pkg2 = pkg
  PROVE  PackageWell(Append(log, line), pkg2)
<1> DEFINE n == Len(log)
           longer == Append(log, line)
<1>1. /\ n \in Nat /\ Agree(log, longer, n) /\ Len(longer) = n + 1
      /\ longer[n + 1] = line
  BY AppendAgrees
<1> HIDE DEF n, longer
<1>2. InForce(log, n + 1) = pkg
  BY DEF PackageWell, n
<1>3. CASE line.kind = "REBOOT"
  <2>1. \A k \in 1 .. n + 1 : ~ Selects(longer, k, n + 2)
    BY <1>1, <1>3 DEF Selects
  <2>2. InForce(longer, n + 2) = NoPackage
    BY <1>1, <2>1 DEF InForce
  <2>3. QED
    BY <1>1, <1>3, <2>2 DEF PackageWell, longer
<1>4. CASE line.kind = "ChgPkg"
  <2>1. Selects(longer, n + 1, n + 2)
    BY <1>1, <1>4 DEF Selects
  <2>2. InForce(longer, n + 2) = line.package
    BY <1>1, <2>1, InForceIs
  <2>3. QED
    BY <1>1, <1>4, <2>2 DEF PackageWell, longer
<1>5. CASE line.kind \notin {"REBOOT", "ChgPkg"}
  <2>1. \A k \in 1 .. n : Selects(longer, k, n + 2) <=> Selects(log, k, n + 1)
    BY <1>1, <1>5 DEF Selects, Agree
  <2>2. ~ Selects(longer, n + 1, n + 2)
    BY <1>1, <1>5 DEF Selects
  <2>3. InForce(longer, n + 2) = InForce(log, n + 1)
    <3>1. CASE \E k \in 1 .. n : Selects(log, k, n + 1)
      <4>1. PICK k \in 1 .. n : Selects(log, k, n + 1)
        BY <3>1
      <4>2. InForce(log, n + 1) = log[k].package
        BY <1>1, <4>1, InForceIs
      <4>3. InForce(longer, n + 2) = longer[k].package
        BY <1>1, <2>1, <4>1, InForceIs
      <4>4. QED
        BY <1>1, <4>2, <4>3 DEF Agree
    <3>2. CASE ~ \E k \in 1 .. n : Selects(log, k, n + 1)
      <4>1. \A k \in 1 .. n + 1 : ~ Selects(longer, k, n + 2)
        BY <1>1, <2>1, <2>2, <3>2
      <4>2. QED
        BY <1>1, <3>2, <4>1 DEF InForce
    <3>3. QED
      BY <3>1, <3>2
  <2>4. QED
    BY <1>1, <1>2, <1>5, <2>3 DEF PackageWell, longer
<1>6. QED
  BY <1>3, <1>4, <1>5

\* How an open play fares when a line is added.
LEMMA OpenGrows ==
  ASSUME NEW log \in Seq(Log), NEW line \in Log, NEW c,
         NEW i \in 1 .. Len(log)
  PROVE  LET n == Len(log)
             longer == Append(log, line)
         IN Open(longer, i, n + 2, c) <=>
              /\ Open(log, i, n + 1, c)
              /\ line.kind \notin {"MsgDone", "MsgDone?", "REBOOT"}
              /\ Heard(longer, n + 1) = NoContent
<1> DEFINE n == Len(log)
           longer == Append(log, line)
<1>1. /\ n \in Nat /\ Agree(log, longer, n) /\ longer[n + 1] = line
  BY AppendAgrees
<1> HIDE DEF n, longer
<1>2. \A k \in 1 .. n : Heard(log, k) = Heard(longer, k) /\ log[k] = longer[k]
  BY <1>1, HeardAgrees DEF Agree
<1>3. i \in 1 .. n
  BY DEF n
<1>4. Open(longer, i, n + 2, c) <=>
        /\ Open(log, i, n + 1, c)
        /\ line.kind \notin {"MsgDone", "MsgDone?", "REBOOT"}
        /\ Heard(longer, n + 1) = NoContent
  BY <1>1, <1>2, <1>3 DEF Open
<1>5. QED
  BY <1>4 DEF n, longer

LEMMA KnownGrows ==
  ASSUME NEW log \in Seq(Log), NEW line \in Log, NEW i \in 1 .. Len(log)
  PROVE  LET n == Len(log)
             longer == Append(log, line)
         IN Known(longer, i, n + 2) <=>
              Known(log, i, n + 1) \/ (line.kind = "adjPos" /\ Told(log))
<1> DEFINE n == Len(log)
           longer == Append(log, line)
<1>1. /\ n \in Nat /\ Agree(log, longer, n) /\ longer[n + 1] = line
  BY AppendAgrees
<1> HIDE DEF n, longer
<1>2. \A k \in 1 .. n : log[k] = longer[k]
  BY <1>1 DEF Agree
<1>3. i \in 1 .. n /\ (Told(log) <=> \E s \in 1 .. n : Tells(log[s]))
  BY DEF n, Told
<1>4. ASSUME Known(longer, i, n + 2)
      PROVE  Known(log, i, n + 1) \/ (line.kind = "adjPos" /\ Told(log))
  <2>1. PICK s \in 1 .. n + 1 :
          /\ Tells(longer[s])
          /\ s < i \/ \E a \in s + 1 .. n + 1 : longer[a].kind = "adjPos"
    BY <1>1, <1>4 DEF Known
  <2>2. s \in 1 .. n /\ Tells(log[s])
    BY <1>1, <1>2, <1>3, <2>1
  <2>3. CASE s < i \/ \E a \in s + 1 .. n : longer[a].kind = "adjPos"
    <3>1. s < i \/ \E a \in s + 1 .. n : log[a].kind = "adjPos"
      BY <1>1, <1>2, <2>2, <2>3
    <3>2. QED
      BY <1>1, <2>2, <3>1 DEF Known
  <2>4. CASE longer[n + 1].kind = "adjPos"
    BY <1>1, <1>3, <2>2, <2>4
  <2>5. QED
    BY <1>1, <2>1, <2>2, <2>3, <2>4
<1>5. ASSUME Known(log, i, n + 1)
      PROVE  Known(longer, i, n + 2)
  BY <1>1, <1>2, <1>3, <1>5 DEF Known
<1>6. ASSUME line.kind = "adjPos", Told(log)
      PROVE  Known(longer, i, n + 2)
  <2>1. PICK s \in 1 .. n : Tells(log[s])
    BY <1>3, <1>6
  <2>2. Tells(longer[s]) /\ n + 1 \in s + 1 .. n + 1
    BY <1>1, <1>2, <2>1
  <2>3. QED
    BY <1>1, <1>6, <2>1, <2>2 DEF Known
<1>7. QED
  BY <1>4, <1>5, <1>6 DEF n, longer

\* A line that begins no play and ends none.
LEMMA MessagePasses ==
  ASSUME NEW log \in Seq(Log), NEW line \in Log, NEW msg, NEW tmd, NEW tmd2,
         MessageWell(log, msg, tmd), msg \in Contents \cup {NoContent},
         line.kind \notin {"MsgDone", "MsgDone?", "REBOOT"},
         Heard(Append(log, line), Len(log) + 1) = NoContent,
         msg # NoContent =>
           (tmd2 <=> tmd \/ (line.kind = "adjPos" /\ Told(log)))
  PROVE  MessageWell(Append(log, line), msg, tmd2)
<1> DEFINE n == Len(log)
           longer == Append(log, line)
<1>1. /\ n \in Nat /\ Len(longer) = n + 1 /\ longer[n + 1] = line
  BY AppendAgrees
<1>2. \A i \in 1 .. n : \A c : Open(longer, i, n + 2, c) <=> Open(log, i, n + 1, c)
  BY OpenGrows
<1>3. \A i \in 1 .. n :
        Known(longer, i, n + 2) <=>
          Known(log, i, n + 1) \/ (line.kind = "adjPos" /\ Told(log))
  BY KnownGrows
<1>4. Heard(longer, n + 1) = NoContent
  OBVIOUS
<1>5. /\ msg # NoContent => \E i \in 1 .. n : Open(log, i, n + 1, msg)
      /\ \A i \in 1 .. n, c \in Contents :
           Open(log, i, n + 1, c) => msg = c /\ (tmd <=> Known(log, i, n + 1))
  BY DEF MessageWell
<1> HIDE DEF n, longer
<1>6. msg # NoContent => \E i \in 1 .. n + 1 : Open(longer, i, n + 2, msg)
  BY <1>1, <1>2, <1>5
<1>7. ASSUME NEW i \in 1 .. n + 1, NEW c \in Contents, Open(longer, i, n + 2, c)
      PROVE  msg = c /\ (tmd2 <=> Known(longer, i, n + 2))
  <2>1. Heard(longer, i) = c /\ c # NoContent
    BY <1>7, NamesAssumption DEF Open
  <2>2. i \in 1 .. n
    BY <1>1, <1>4, <2>1
  <2>3. msg = c /\ (tmd <=> Known(log, i, n + 1))
    BY <1>2, <1>5, <1>7, <2>2
  <2>4. tmd2 <=> tmd \/ (line.kind = "adjPos" /\ Told(log))
    BY <2>1, <2>3
  <2>5. QED
    BY <1>3, <2>2, <2>3, <2>4
<1>8. Len(longer) + 1 = n + 2
  BY <1>1
<1>9. QED
  BY <1>1, <1>6, <1>7, <1>8 DEF MessageWell, longer

\* A line after which nothing is open.
LEMMA MessageCloses ==
  ASSUME NEW log \in Seq(Log), NEW line \in Log, NEW tmd,
         line.kind \in {"MsgDone", "MsgDone?", "REBOOT"}
  PROVE  MessageWell(Append(log, line), NoContent, tmd)
<1> DEFINE n == Len(log)
           longer == Append(log, line)
<1>1. /\ n \in Nat /\ Len(longer) = n + 1 /\ longer[n + 1] = line
  BY AppendAgrees
<1>2. \A i \in 1 .. n : \A c : ~ Open(longer, i, n + 2, c)
  BY OpenGrows
<1> HIDE DEF n, longer
<1>3. Heard(longer, n + 1) = NoContent
  BY <1>1 DEF Heard
<1>4. \A i \in 1 .. n + 1, c \in Contents : ~ Open(longer, i, n + 2, c)
  BY <1>1, <1>2, <1>3, NamesAssumption DEF Open
<1>5. Len(longer) + 1 = n + 2
  BY <1>1
<1>6. QED
  BY <1>1, <1>4, <1>5 DEF MessageWell, longer

\* A line that begins a play.
LEMMA MessageBegins ==
  ASSUME NEW log \in Seq(Log), NEW line \in Log, NEW msg \in Contents, NEW tmd,
         Heard(Append(log, line), Len(log) + 1) = msg, tmd <=> Told(log)
  PROVE  MessageWell(Append(log, line), msg, tmd)
<1> DEFINE n == Len(log)
           longer == Append(log, line)
<1>1. /\ n \in Nat /\ Len(longer) = n + 1 /\ longer[n + 1] = line
      /\ Agree(log, longer, n)
  BY AppendAgrees
<1>2. \A i \in 1 .. n : \A c : ~ Open(longer, i, n + 2, c)
  BY OpenGrows, NamesAssumption
<1>3. Heard(longer, n + 1) = msg /\ (tmd <=> \E s \in 1 .. n : Tells(log[s]))
  BY DEF Told
<1> HIDE DEF n, longer
<1>4. Open(longer, n + 1, n + 2, msg)
  BY <1>1, <1>3 DEF Open
<1>5. Known(longer, n + 1, n + 2) <=> \E s \in 1 .. n : Tells(longer[s])
  BY <1>1 DEF Known
<1>6. Known(longer, n + 1, n + 2) <=> tmd
  BY <1>1, <1>3, <1>5 DEF Agree
<1>7. ASSUME NEW i \in 1 .. n + 1, NEW c \in Contents, Open(longer, i, n + 2, c)
      PROVE  msg = c /\ (tmd <=> Known(longer, i, n + 2))
  <2>1. i = n + 1
    BY <1>1, <1>2, <1>7
  <2>2. QED
    BY <1>3, <1>6, <1>7, <2>1 DEF Open
<1>8. Len(longer) + 1 = n + 2 /\ n + 1 \in 1 .. n + 1
  BY <1>1
<1>9. QED
  BY <1>1, <1>4, <1>7, <1>8 DEF MessageWell, longer

LEMMA ToldGrows ==
  ASSUME NEW log \in Seq(Log), NEW line \in Log
  PROVE  Told(Append(log, line)) <=> Told(log) \/ Tells(line)
<1> DEFINE n == Len(log)
           longer == Append(log, line)
<1>1. /\ n \in Nat /\ Len(longer) = n + 1 /\ longer[n + 1] = line
      /\ \A k \in 1 .. n : log[k] = longer[k]
  BY AppendAgrees DEF Agree
<1>2. Told(log) <=> \E s \in 1 .. n : Tells(log[s])
  BY DEF Told
<1>3. Told(longer) <=> \E s \in 1 .. n + 1 : Tells(longer[s])
  BY <1>1 DEF Told
<1> HIDE DEF n, longer
<1>4. Told(longer) <=> Told(log) \/ Tells(line)
  BY <1>1, <1>2, <1>3
<1>5. QED
  BY <1>4 DEF longer

-----------------------------------------------------------------------------
(* One line more.                                                          *)

\* What the new line begins, read with the package in force.
LEMMA HeardNow ==
  ASSUME NEW log \in Seq(Log), NEW line \in Log, NEW pkg, PackageWell(log, pkg)
  PROVE  Heard(Append(log, line), Len(log) + 1)
           = IF line.kind = "PlayMsg" THEN Named(pkg, line) ELSE NoContent
<1> DEFINE n == Len(log)
           longer == Append(log, line)
<1>1. n \in Nat /\ Agree(log, longer, n) /\ longer[n + 1] = line
  BY AppendAgrees
<1>2. InForce(log, n + 1) = pkg
  BY DEF PackageWell
<1> HIDE DEF n, longer
<1>3. InForce(longer, n + 1) = pkg
  BY <1>1, <1>2, InForceAgrees
<1>4. Heard(longer, n + 1)
        = IF line.kind = "PlayMsg" THEN Named(pkg, line) ELSE NoContent
  BY <1>1, <1>3 DEF Heard
<1>5. QED
  BY <1>4 DEF n, longer

\* A record that advances the latest time leaves it as known as it was.
LEMMA AdvanceKeepsKnown ==
  ASSUME LogTypeOK, TimeKnown, NEW e \in Elapsed, Advance(e)
  PROVE  latest' # NoTime <=> latest # NoTime
<1>1. ~ awaiting => latest # NoTime /\ latest' # NoTime
  BY AdvanceFacts DEF TimeKnown
<1>2. awaiting => latest' = latest
  BY DEF Advance
<1>3. QED
  BY <1>1, <1>2

\* The latest time is known as soon as a line has told it.
LEMMA LatestStep ==
  ASSUME LogTypeOK, TimeKnown, NEW line \in Log, NEW e \in Elapsed,
         \/ Reboot(line) \/ Rtc(line) \/ SetRtc(line)
         \/ ChgPkg(line, e) \/ PlayMsg(line, e) \/ AdjPos(line, e)
         \/ MsgDone(line, e) \/ Other(line, e)
  PROVE  latest' # NoTime <=> latest # NoTime \/ Tells(line)
<1>1. CASE Reboot(line)
  BY <1>1 DEF Reboot, Tells
<1>2. CASE Rtc(line)
  <2>1. CASE awaiting /\ line.time # NoTime
             /\ (latest = NoTime \/ line.time >= latest)
    BY <1>2, <2>1 DEF Rtc, Tells
  <2>2. CASE UNCHANGED <<base, latest, awaiting>>
             /\ ~ (awaiting /\ line.time # NoTime
                   /\ (latest = NoTime \/ line.time >= latest))
    <3>1. line.time # NoTime => latest # NoTime
      BY <2>2 DEF TimeKnown
    <3>2. QED
      BY <1>2, <2>2, <3>1 DEF Tells
  <2>3. QED
    BY <1>2, <2>1, <2>2 DEF Rtc
<1>3. CASE SetRtc(line)
  BY <1>3 DEF SetRtc, Tells
<1>4. CASE \/ ChgPkg(line, e) \/ PlayMsg(line, e) \/ AdjPos(line, e)
           \/ MsgDone(line, e) \/ Other(line, e)
  <2>1. Advance(e) /\ ~ Tells(line)
    BY <1>4 DEF ChgPkg, PlayMsg, AdjPos, MsgDone, Other, Tells
  <2>2. QED
    BY <2>1, AdvanceKeepsKnown
<1>5. QED
  BY <1>1, <1>2, <1>3, <1>4

LEMMA MessageStep ==
  ASSUME LogTypeOK, TimeKnown, NEW line \in Log, NEW e \in Elapsed,
         \/ Reboot(line) \/ Rtc(line) \/ SetRtc(line)
         \/ ChgPkg(line, e) \/ PlayMsg(line, e) \/ AdjPos(line, e)
         \/ MsgDone(line, e) \/ Other(line, e),
         PackageWell(heard, package), MessageWell(heard, message, timed),
         latest # NoTime <=> Told(heard)
  PROVE  \A msg, tmd : msg = message' /\ (tmd <=> timed')
           => MessageWell(Append(heard, line), msg, tmd)
<1> SUFFICES ASSUME NEW msg, NEW tmd, msg = message', tmd <=> timed'
             PROVE  MessageWell(Append(heard, line), msg, tmd)
  OBVIOUS
<1>1. heard \in Seq(Log) /\ message \in Contents \cup {NoContent}
  BY DEF LogTypeOK
<1>2. Heard(Append(heard, line), Len(heard) + 1)
        = IF line.kind = "PlayMsg" THEN Named(package, line) ELSE NoContent
  BY <1>1, HeardNow
<1>3. CASE Reboot(line) \/ MsgDone(line, e)
  <2>1. /\ line.kind \in {"MsgDone", "MsgDone?", "REBOOT"}
        /\ msg = NoContent
    BY <1>3 DEF Reboot, MsgDone
  <2>2. QED
    BY <1>1, <2>1, MessageCloses
<1>4. CASE Rtc(line) \/ SetRtc(line) \/ ChgPkg(line, e) \/ Other(line, e)
  <2>1. /\ line.kind \notin {"MsgDone", "MsgDone?", "REBOOT", "PlayMsg", "adjPos"}
        /\ message' = message /\ timed' = timed
    BY <1>4 DEF Rtc, SetRtc, ChgPkg, Other
  <2>2. msg = message /\ (tmd <=> timed)
    BY <2>1
  <2>3. QED
    BY <1>1, <1>2, <2>1, <2>2, MessagePasses
<1>5. CASE AdjPos(line, e)
  <2>1. /\ line.kind = "adjPos" /\ Advance(e) /\ message' = message
        /\ message # NoContent => timed' = (latest' # NoTime)
    BY <1>5 DEF AdjPos
  <2>2. latest' # NoTime <=> Told(heard)
    BY <2>1, AdvanceKeepsKnown
  <2>3. message # NoContent => (timed' <=> Told(heard))
    BY <2>1, <2>2
  <2>4. message # NoContent /\ timed => Told(heard)
    <3>1. SUFFICES ASSUME message # NoContent, timed
                   PROVE  Told(heard)
      OBVIOUS
    <3>2. PICK i \in 1 .. Len(heard) : Open(heard, i, Len(heard) + 1, message)
      BY <3>1 DEF MessageWell
    <3>3. message \in Contents
      BY <1>1, <3>1
    <3>4. Known(heard, i, Len(heard) + 1)
      BY <3>1, <3>2, <3>3 DEF MessageWell
    <3>5. Len(heard) \in Nat
      BY <1>1
    <3>6. QED
      BY <3>4, <3>5 DEF Known, Told
  <2>5. msg = message
    BY <2>1
  <2>6. msg # NoContent =>
          (tmd <=> timed \/ (line.kind = "adjPos" /\ Told(heard)))
    BY <2>1, <2>3, <2>4
  <2>7. Heard(Append(heard, line), Len(heard) + 1) = NoContent
    BY <1>2, <2>1
  <2>8. QED
    BY <1>1, <2>1, <2>5, <2>6, <2>7, MessagePasses
<1>6. CASE PlayMsg(line, e)
  <2>1. line.kind = "PlayMsg" /\ Advance(e)
    BY <1>6 DEF PlayMsg
  <2>2. Named(package, line) \in Contents \cup {NoContent}
    BY <2>1, NamedType DEF LogTypeOK
  <2>3. CASE Named(package, line) = NoContent
    <3>1. message' = message /\ timed' = timed
      BY <1>6, <2>3 DEF PlayMsg
    <3>2. msg = message /\ (tmd <=> timed)
      BY <3>1
    <3>3. QED
      BY <1>1, <1>2, <2>1, <2>3, <3>2, MessagePasses
  <2>4. CASE Named(package, line) # NoContent
    <3>1. message' = Named(package, line) /\ timed' = (latest' # NoTime)
      BY <1>6, <2>4 DEF PlayMsg
    <3>2. latest' # NoTime <=> Told(heard)
      BY <2>1, AdvanceKeepsKnown
    <3>3. msg \in Contents /\ (tmd <=> Told(heard))
      BY <2>2, <2>4, <3>1, <3>2
    <3>4. Heard(Append(heard, line), Len(heard) + 1) = msg
      BY <1>2, <2>1, <3>1
    <3>5. QED
      BY <1>1, <3>3, <3>4, MessageBegins
  <2>5. QED
    BY <2>3, <2>4
<1>7. QED
  BY <1>3, <1>4, <1>5, <1>6

LEMMA ReadContext ==
  ASSUME LogIInv, ContextInv, NEW line \in Log, NEW e \in Elapsed,
         Read(line, e)
  PROVE  ContextInv'
<1>1. LogTypeOK /\ TimeKnown /\ ~ NoBase
  BY BaseIsThere DEF LogIInv
<1>2. CASE BadReading(line)
  <2>1. stopped' = TRUE
    BY <1>2 DEF Read
  <2>2. QED
    BY <2>1 DEF ContextInv
<1>3. CASE ~ BadReading(line)
  <2>1. /\ ~ stopped /\ heard' = Append(heard, line)
        /\ \/ Reboot(line) \/ Rtc(line) \/ SetRtc(line)
           \/ ChgPkg(line, e) \/ PlayMsg(line, e) \/ AdjPos(line, e)
           \/ MsgDone(line, e) \/ Other(line, e)
    BY <1>1, <1>3 DEF Read
  <2>2. /\ PackageWell(heard, package) /\ MessageWell(heard, message, timed)
        /\ latest # NoTime <=> Told(heard)
    BY <2>1 DEF ContextInv
  <2>3. heard \in Seq(Log)
    BY <1>1 DEF LogTypeOK
  <2>4. ASSUME NEW pkg, pkg = package'
        PROVE  PackageWell(Append(heard, line), pkg)
    <3>1. /\ line.kind = "REBOOT" => pkg = NoPackage
          /\ line.kind = "ChgPkg" => pkg = line.package
          /\ line.kind \notin {"REBOOT", "ChgPkg"} => pkg = package
      BY <2>1, <2>4 DEF Reboot, Rtc, SetRtc, ChgPkg, PlayMsg, AdjPos, MsgDone,
                        Other
    <3>2. QED
      BY <2>2, <2>3, <3>1, PackageGrows
  <2>5. \A msg, tmd : msg = message' /\ (tmd <=> timed')
           => MessageWell(Append(heard, line), msg, tmd)
    BY <1>1, <2>1, <2>2, MessageStep
  <2>6. latest' # NoTime <=> Told(Append(heard, line))
    BY <1>1, <2>1, <2>2, <2>3, LatestStep, ToldGrows
  <2>7. PackageWell(heard, package)'
    BY <2>1, <2>4 DEF PackageWell
  <2>8. MessageWell(heard, message, timed)'
    BY <2>1, <2>5 DEF MessageWell
  <2>9. (latest # NoTime <=> Told(heard))'
    BY <2>1, <2>6 DEF Told
  <2>10. QED
    BY <2>7, <2>8, <2>9 DEF ContextInv
<1>4. QED
  BY <1>2, <1>3

-----------------------------------------------------------------------------
(* The count.                                                              *)

\* A line more ends one play more, or none.
LEMMA FinishedGrows ==
  ASSUME NEW log \in Seq(Log), NEW line \in Log, NEW c, NEW b
  PROVE  LET n == Len(log)
             longer == Append(log, line)
         IN /\ Cardinality(Finished(log, c, b)) \in Nat
            /\ Cardinality(Finished(longer, c, b))
                 = Cardinality(Finished(log, c, b))
                   + IF Ends(longer, n + 1, c) /\ Bucket(line.play) = b
                     THEN 1 ELSE 0
<1> DEFINE n == Len(log)
           longer == Append(log, line)
           before == Finished(log, c, b)
<1>1. /\ n \in Nat /\ Len(longer) = n + 1 /\ longer[n + 1] = line
      /\ Agree(log, longer, n) /\ longer \in Seq(Log)
  BY AppendAgrees
<1>2. DOMAIN log = 1 .. n /\ DOMAIN longer = 1 .. n + 1
  BY <1>1
<1> HIDE DEF n, longer
<1>3. before \subseteq 1 .. n
  BY <1>2 DEF Finished
<1>4. IsFiniteSet(before) /\ Cardinality(before) \in Nat
  <2>1. IsFiniteSet(1 .. n)
    BY <1>1, FS_Interval
  <2>2. IsFiniteSet(before)
    BY <1>3, <2>1, FS_Subset
  <2>3. QED
    BY <2>2, FS_CardinalityType
<1>5. \A j \in 1 .. n : /\ Ends(log, j, c) <=> Ends(longer, j, c)
                        /\ log[j] = longer[j]
  BY <1>1, EndsAgrees DEF Agree
<1>6. Finished(longer, c, b)
        = before \cup IF Ends(longer, n + 1, c) /\ Bucket(line.play) = b
                      THEN {n + 1} ELSE {}
  BY <1>1, <1>2, <1>5 DEF Finished
<1> HIDE DEF before
<1>7. n + 1 \notin before
  BY <1>1, <1>3
<1>8. CASE Ends(longer, n + 1, c) /\ Bucket(line.play) = b
  <2>1. Finished(longer, c, b) = before \cup {n + 1}
    BY <1>6, <1>8
  <2>2. Cardinality(before \cup {n + 1}) = Cardinality(before) + 1
    BY <1>4, <1>7, FS_AddElement
  <2>3. QED
    BY <1>4, <1>8, <2>1, <2>2 DEF n, longer, before
<1>9. CASE ~ (Ends(longer, n + 1, c) /\ Bucket(line.play) = b)
  <2>1. Finished(longer, c, b) = before
    BY <1>6, <1>9
  <2>2. QED
    BY <1>4, <1>9, <2>1 DEF n, longer, before
<1>10. QED
  BY <1>8, <1>9

\* A MsgDone ends a play of the message in force whose start is known.
LEMMA EndsNow ==
  ASSUME NEW log \in Seq(Log), NEW line \in Log, NEW msg, NEW tmd,
         MessageWell(log, msg, tmd), NEW c \in Contents
  PROVE  Ends(Append(log, line), Len(log) + 1, c)
           <=> line.kind = "MsgDone" /\ msg = c /\ tmd
<1> DEFINE n == Len(log)
           longer == Append(log, line)
<1>1. /\ n \in Nat /\ longer[n + 1] = line /\ Agree(log, longer, n)
  BY AppendAgrees
<1>2. /\ msg # NoContent => \E i \in 1 .. n : Open(log, i, n + 1, msg)
      /\ \A i \in 1 .. n :
           Open(log, i, n + 1, c) => msg = c /\ (tmd <=> Known(log, i, n + 1))
  BY DEF MessageWell
<1> HIDE DEF n, longer
<1>3. \A i \in 1 .. n : /\ Open(log, i, n + 1, c) <=> Open(longer, i, n + 1, c)
                        /\ Known(log, i, n + 1) <=> Known(longer, i, n + 1)
  BY <1>1, OpenAgrees
<1>4. Ends(longer, n + 1, c) <=>
        /\ line.kind = "MsgDone"
        /\ \E i \in 1 .. n : Open(log, i, n + 1, c) /\ Known(log, i, n + 1)
  BY <1>1, <1>3 DEF Ends
<1>5. (\E i \in 1 .. n : Open(log, i, n + 1, c) /\ Known(log, i, n + 1))
        <=> msg = c /\ tmd
  BY <1>2, NamesAssumption
<1>6. QED
  BY <1>4, <1>5 DEF n, longer

LEMMA ReadCounts ==
  ASSUME LogIInv, ContextInv, CountedAsHeard, NEW line \in Log,
         NEW e \in Elapsed, Read(line, e)
  PROVE  CountedAsHeard'
<1>1. /\ LogTypeOK /\ ~ NoBase /\ ~ stopped /\ heard \in Seq(Log)
      /\ heard' = Append(heard, line) /\ earlier' = earlier
  BY BaseIsThere DEF LogIInv, LogTypeOK, Read
<1>2. MessageWell(heard, message, timed)
  BY <1>1 DEF ContextInv
<1>3. CASE line.kind = "MsgDone" /\ message # NoContent /\ timed
  <2>1. MsgDone(line, e)
    BY <1>1, <1>3 DEF Read, BadReading, Reboot, Rtc, SetRtc, ChgPkg, PlayMsg,
                      AdjPos, Other
  <2> DEFINE B == Bucket(line.play)
  <2>2. tally' = [tally EXCEPT ![message][B] = @ + 1]
    BY <1>3, <2>1 DEF MsgDone
  <2>3. B \in Buckets /\ message \in Contents
    BY <1>1, <1>3, BucketType DEF LogTypeOK
  <2> HIDE DEF B
  <2>4. tally \in [Contents -> [Buckets -> Nat]]
    BY <1>1 DEF LogTypeOK
  <2>5. ASSUME NEW c \in Contents, NEW b \in Buckets
        PROVE  tally'[c][b] = earlier[c][b]
                 + Cardinality(Finished(Append(heard, line), c, b))
    <3>1. tally[c][b] = earlier[c][b] + Cardinality(Finished(heard, c, b))
      BY DEF CountedAsHeard
    <3>2. Ends(Append(heard, line), Len(heard) + 1, c) <=> message = c
      <4>1. Ends(Append(heard, line), Len(heard) + 1, c)
              <=> line.kind = "MsgDone" /\ message = c /\ timed
        BY <1>1, <1>2, EndsNow
      <4>2. QED
        BY <1>3, <4>1, Zenon
    <3>3. /\ Cardinality(Finished(heard, c, b)) \in Nat
          /\ Cardinality(Finished(Append(heard, line), c, b))
               = Cardinality(Finished(heard, c, b))
                 + IF message = c /\ B = b THEN 1 ELSE 0
      BY <1>1, <3>2, FinishedGrows DEF B
    <3>4. tally'[c][b] = tally[c][b] + IF message = c /\ B = b THEN 1 ELSE 0
      <4>1. tally[c] \in [Buckets -> Nat] /\ tally[c][b] \in Nat
        BY <2>4
      <4>2. QED
        BY <2>2, <2>3, <2>4, <4>1
    <3>5. earlier[c][b] \in Nat
      BY <1>1 DEF LogTypeOK
    <3>6. QED
      BY <3>1, <3>3, <3>4, <3>5
  <2>6. QED
    BY <1>1, <2>5 DEF CountedAsHeard
<1>4. CASE ~ (line.kind = "MsgDone" /\ message # NoContent /\ timed)
  <2>1. tally' = tally
    BY <1>1, <1>4 DEF Read, Reboot, Rtc, SetRtc, ChgPkg, PlayMsg, AdjPos,
                      MsgDone, Other
  <2>2. ASSUME NEW c \in Contents, NEW b \in Buckets
        PROVE  tally[c][b] = earlier[c][b]
                 + Cardinality(Finished(Append(heard, line), c, b))
    <3>1. tally[c][b] = earlier[c][b] + Cardinality(Finished(heard, c, b))
      BY DEF CountedAsHeard
    <3>2. ~ Ends(Append(heard, line), Len(heard) + 1, c)
      BY <1>1, <1>2, <1>4, EndsNow, NamesAssumption
    <3>3. /\ Cardinality(Finished(heard, c, b)) \in Nat
          /\ Cardinality(Finished(Append(heard, line), c, b))
               = Cardinality(Finished(heard, c, b)) + 0
      BY <1>1, <3>2, FinishedGrows
    <3>4. QED
      BY <3>1, <3>3
  <2>3. QED
    BY <1>1, <2>1, <2>2 DEF CountedAsHeard
<1>5. QED
  BY <1>3, <1>4

\* Before the first line of a file nothing is told, begun or ended.
LEMMA NothingHeard ==
  /\ PackageWell(<<>>, NoPackage) /\ \A tmd : MessageWell(<<>>, NoContent, tmd)
  /\ ~ Told(<<>>)
  /\ \A c, b : Cardinality(Finished(<<>>, c, b)) = 0
<1>1. 1 .. Len(<<>>) = {} /\ Len(<<>>) + 1 = 1 /\ DOMAIN <<>> = {}
  OBVIOUS
<1>2. InForce(<<>>, 1) = NoPackage
  BY DEF InForce
<1>3. \A c, b : Finished(<<>>, c, b) = {}
  BY <1>1 DEF Finished
<1>4. QED
  BY <1>1, <1>2, <1>3, FS_EmptySet DEF PackageWell, MessageWell, Told

LEMMA NextFileCounts ==
  ASSUME LogIInv, NextFile
  PROVE  ContextInv' /\ CountedAsHeard'
<1>1. /\ heard' = <<>> /\ package' = NoPackage /\ message' = NoContent
      /\ latest' = NoTime /\ timed' = FALSE
      /\ tally' = tally /\ earlier' = tally
  BY DEF NextFile
<1>2. PackageWell(heard, package)' /\ MessageWell(heard, message, timed)'
      /\ ~ Told(heard)'
  BY <1>1, NothingHeard DEF PackageWell, MessageWell, Told
<1>3. \A c \in Contents, b \in Buckets : tally[c][b] \in Nat
  BY DEF LogIInv, LogTypeOK
<1>4. CountedAsHeard'
  BY <1>1, <1>3, NothingHeard DEF CountedAsHeard
<1>5. QED
  BY <1>1, <1>2, <1>4 DEF ContextInv

LEMMA LogInitCounts ==
  ASSUME LogInit
  PROVE  ContextInv /\ CountedAsHeard
<1>1. /\ heard = <<>> /\ package = NoPackage /\ message = NoContent
      /\ latest = NoTime /\ timed = FALSE /\ earlier = tally
      /\ tally = [c \in Contents |-> [b \in Buckets |-> 0]]
  BY DEF LogInit
<1>2. ContextInv
  BY <1>1, NothingHeard DEF ContextInv
<1>3. CountedAsHeard
  BY <1>1, NothingHeard DEF CountedAsHeard
<1>4. QED
  BY <1>2, <1>3

HeardInv == LogIInv /\ ContextInv /\ CountedAsHeard

LEMMA LogNextCounts == HeardInv /\ [LogNext]_logVars => HeardInv'
<1> SUFFICES ASSUME HeardInv, [LogNext]_logVars PROVE HeardInv'
  OBVIOUS
<1>1. LogIInv'
  BY LogNextIInv DEF HeardInv
<1>2. CASE \E line \in Log, e \in Elapsed : Read(line, e)
  BY <1>1, <1>2, ReadContext, ReadCounts DEF HeardInv
<1>3. CASE NextFile
  BY <1>1, <1>3, NextFileCounts DEF HeardInv
<1>4. CASE UNCHANGED logVars
  BY <1>1, <1>4 DEF logVars, context, HeardInv, ContextInv, CountedAsHeard,
                    PackageWell, MessageWell, Told
<1>5. QED
  BY <1>2, <1>3, <1>4 DEF LogNext

\* Whatever lines a log has and wherever a file ends, the statistics count
\* exactly the plays that the lines tell of, each once and for the message it
\* was a play of (logrecord.py:485-594).
THEOREM CountedRight == LogSpec => []CountedAsHeard
<1>1. LogInit => HeardInv
  BY LogInitIInv, LogInitCounts DEF HeardInv
<1>2. HeardInv => CountedAsHeard
  BY DEF HeardInv
<1>3. QED
  BY <1>1, <1>2, LogNextCounts, PTL DEF LogSpec
=============================================================================
