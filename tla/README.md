# Models of amplio-backend

TLA+ modules, model-checked with TLC and proved with TLAPS, for the parts of
this repository that change shared state step by step. The reference is the
code: `src/...` below is the NestJS application, `src/scripts/...` are the
Python scripts, `src/cron` and `src/migrations` what their names say.

- [The system](#the-system)
- [Modules](#modules)
- [Runs](#runs): bounds, what each shows, fairness
- [Theorems](#theorems): what is proved and how
- [Disagreements](#disagreements) between the code and what is said of it
- [Hazards without a property](#hazards-without-a-property)
- [Not modelled](#not-modelled)
- [Plan](#plan)

## The system

The backend serves a web dashboard, desktop tools (ACM, TB-Loader) and the
Companion phone app of the Talking Book programme. Its state is in a Postgres
database (TypeORM), in S3 buckets, and in a few files and caches of the
process. Requests are async functions: any statement awaited lets other
requests run, several processes may serve, and hardly any handler opens a
transaction. That is where most of the hazards come from.

| Component | State | Operations | Meets |
|---|---|---|---|
| ACM checkout (`src/acm-checkout/acm-checkout.service.ts`) | one `acm_checkout` row per project | checkout, checkin, discard, revokecheckout, reset, create, statuscheck | ACM desktop clients; the new-acm command inserts the rows |
| TB-Loader ids (`src/tb-loader`) | `tb_loader_ids`: one row per user, one for the maximum | reserve a block of serial numbers | TB-Loader clients; rows imported by a script |
| Statistics import (`scripts/v2_log_reader/S3Data`, `main.py`) | buckets collected-data, processed-data, archived-data, amplio-uf; seven tables | run over the collected files: parse, put, insert, archive | cron, an operator, TB-Loader uploads, the log reader |
| Program specification (`src/programs/spec`) | deployments, playlists, messages, languages, recipients; `published_program_specs`; six objects in S3 | read, update, publish | dashboard, ACM (reads the published files) |
| Log reader (`scripts/v2_log_reader/tbstats`) | the context of one log file; play statistics of a Talking Book | one per type of log record; files one by one | called by the statistics import |
| One collected file (`TbCollectedDataProcessor.py`, `S3UfImporter.py`) | what is read, converted and counted of the file | operational data, plays, recordings, messages, surveys | called by the import; calls the log reader; ffmpeg |
| Companion app (`src/companion`) | download cache, `playedevents`, `playstatistics`, survey responses, `uf_messages` | downloads, record statistics, save feedback | phone app with retries; ffmpeg; S3 |
| User-feedback utility (`scripts/userfeedback_utility`) | sidecars and audio on disk, `uf_messages`, zips in S3 | extract_uf, import, bundle, create_properties | operators; the statistics import; the deployments table |
| User feedback analysis (`src/userfeedback/analysis`, `uf-messages`) | `uf_analysis`: answers; `uf_analysis_choices`; `is_useless` of `uf_messages` | next message to analyse, save a form, delete submissions, mark as useless | analysts; `uf_messages` of the import and the app |
| Surveys (`src/userfeedback/surveys`) | surveys, questions, choices | edit a survey | analysis, Companion app |
| Users, roles, authentication (`src/users`, `src/guards`) | users, roles, invitations, Cognito accounts, cache of tokens | invite, sign up, assign roles, guard requests | all other components |
| Programs and organisations (`src/programs`) | programs, their users and organisations | add, remove | users, new-acm |
| New-ACM command (`src/commands`) | program, project, organisation, checkout rows, S3 prefix | create an ACM | all of the above |
| Deployment metadata (`src/acm-checkout/*metadata*`) | metadata tables | insert what a deployment's package holds | ACM publishing |
| Analytics (`src/tb-analytics`, `src/tableau`, `src/categories`) | none | read-only queries | dashboard |

What makes each correct, and what is hard about it:

- *ACM checkout* promises an exclusive lock, with `findOne`, a decision and
  `save()` that nothing ties together; `save()` itself is a second reading and
  an UPDATE of the differing columns. Who has an ACM must not be forgotten or
  overwritten, and an "ok" must be true.
- *TB-Loader ids* promises that no serial number is given out twice, with two
  read-then-write counters and a process that may stop between them.
- *Statistics import* must not lose a collected file, nor archive one that was
  not imported, nor count one twice, with runs that overlap (cron does not look
  whether the last run has ended), calls that fail, crashes at any point and
  exceptions that end the whole run.
- *Program specification* must store what was sent although rows are found in
  two ways (by key and by place), and must publish one version of it although
  it reads with two queries and writes a row and six objects one by one.
- *User feedback analysis* must not ask for the same message twice, nor keep
  two answers to one question, although nothing reserves a message and a form
  is saved row by row: it may stop half-way, or overlap another form or a
  deletion.
- *Log reader* must count each play once, for the message it was a play of,
  although lines name nothing and all communicate through a mutable context
  that boots, clock readings and files reset in part.
- *One collected file* must not drop what it has counted or recorded, although
  half of its steps swallow their exceptions and half raise them, and the
  latter end the whole run.
- *Companion app* must count a play once and keep a recording it has called
  saved, with phones that repeat their requests; its cache must not keep a
  half-written zip.
- *User-feedback utility* must publish a message once and file it under its
  deployment, with commands that an operator interrupts, repeats and runs side
  by side, on properties that the last run left.
- *New-ACM* must open a program for checkout only when it is complete, with
  steps that look outside the transaction that writes, and a copy in S3 that
  cannot be rolled back.
- *Surveys, users*: find-then-insert without locks, several saves without a
  transaction, an effect outside of the database (Cognito) on one side of the
  save.

The hazards are listed in `PROJECT.json` with the lines where they bite; [those
that no property covers](#hazards-without-a-property) are below.

## Modules

| Module | What |
|---|---|
| `CheckoutLock` | abstract: one exclusive lock per project, while no requests contend for it |
| `AcmCheckout` | the service, one database statement a step; INSTANCEs `CheckoutLock` |
| `AcmCheckout_proofs` | theorems about it and about `NewAcm`, which makes its rows |
| `TbLoader`, `TbLoader_proofs` | reservation of serial numbers; theorems |
| `S3Import`, `S3Import_proofs` | the runs of the import; theorems |
| `SpecPublish` | publications interleaved with each other and with updates |
| `SpecContent` | updates, statement by statement, on the rows |
| `SpecPublish_proofs` | theorems about both |
| `FeedbackAnalysis`, `FeedbackAnalysis_proofs` | forms and deletions, one statement a step; theorems |
| `LogReader` | from log lines to play statistics |
| `CollectedFile` | one collected file, step by step |
| `CollectedFile_proofs` | theorems about both |
| `Companion`, `Companion_proofs` | the requests of the phones, await by await; theorems |
| `NewAcm` | setting up a program, failing and run again |
| `UfBundler`; `UfExtract` | bundling of feedback; extraction and import, which EXTENDS it |
| `UfExtract_proofs` | theorems about both |
| `MC*` | small instances: sets of requests, tables and files, and symmetry |

Conventions. A request or run is a process whose `phase` names the statement it
executes next. Results of earlier statements that it still holds (`acm`,
`item`, `project`, `file`) are variables, so that they may be stale. Variables
marked *history* (`overlapped`, `granted`, `torn`, `met`, `last`, `before`) are
read by properties and bounds only. Definitions preceded by "Mutant:" are
plausible bugs that each property is shown to notice; no action uses them.

### AcmCheckout

`Lookup` is `handleEvent` up to its `findOne`, joined with the caller's
programs. Each handler is one action: it answers without a statement, inserts a
row (`Insert`), or assigns to the loaded copy and calls `save()`, whose second
reading belongs to the same action (`BeginSave`; nothing is awaited before it)
and whose UPDATE is `SaveUpdate`. The UPDATE writes a column only if the copy
differs from the second reading and was not assigned JavaScript's `undefined`
(`Column`): this is what TypeORM does, and why two overlapping requests can mix
their columns. `Abort` cuts a request short. Dates, contacts and comments,
which no decision reads, are left out, as are the actions that touch no row.
The holder of `CheckoutLock` is the entry of the row while the ACM is out, and
`contended` are the projects of which a request is about to save a copy that
another has overtaken (`Contended`).

Which rows exist at the start is what new-acm inserts (`NewRow`).

### TbLoader

One action per statement of `reserve` and `allocate_tbid_item`. A crash between
saving an item and saving the maximum leaves the maximum behind (`torn`), as
two allocations that overlap do. Saving the counter (`WriteItem`) and answering
with the block (`Respond`) are two steps, so that a crash may fall between
them. A user may have any number of requests in flight (`Owner` says whose a
slot is), and may ask for any number, also zero or less: the controller takes
`n` as it is. What the properties say of blocks is therefore said *within an
era* of the user: an era ends when the counter may have moved back, by a
negative number or by the save of a request that overlapped another of the
user's (`mixed`). `MAX_VALUE` is a constant. The initial tables are what the
import script leaves, incomplete rows included.

### S3Import

A run is a process; `Start` lists the bucket, `Fetch` takes and parses the next
file, `Put` and `Insert` write one thing it extracted, in the order of the code
(`IsNext`), `Copy` and `Delete` archive it. All copies under a file's timestamp
are one item, stored under the date on which the run was started (`day`), as
the copy in the archive is; `Midnight` changes the date. Every call may fail
(`Fault`) in the way the code handles it: counted, or thrown, which ends the
run. `Crash` ends it too. Options (`Modes`) are those of `main.py`, and
"reimport" is `re_import_stats.py`, which lists the archive of one day: as
uploads may fall on any days, any of the archived files. What inserting does
(`ON CONFLICT`) and whether a recording's uuid is new each time (`Uuid`) come
from the code; that a table rejects a row with NULL in a NOT NULL column comes
from the migrations.

### SpecPublish and SpecContent

The same code at two grains. In `SpecPublish` the content is a version number,
and publications run statement by statement; an update is one step, because its
transaction first upserts the program's row and holds its lock to the end. In
`SpecContent` an update is that transaction: `statement` and the positions
`nthDeployment` .. `nthRecipient` say where it is in its loops over what was
`sent`, `tx` holds the rows as it sees them, and `content` those committed. One
action per statement: `SaveDeployment`, `DeleteLeftOut`, then per playlist
`SavePlaylist` (find its deployment, upsert by position, delete messages by
key) and per message `SaveMessage` (upsert by position), then
`DeleteMissingPlaylists`, `DeleteMissingDeployments`, `SaveRecipient` and
`Commit`. A statement that throws, and a call that fails (`CallFails`), undoes
the rest (`Throw`). Integer keys and the `_id` of a row are one key here. Keys
a client sends back are those of rows it may have read (`Read`), absent (`New`)
or made by itself (`Given`). A playlist names its deployment a second time
(`deployment_id`, `deployment_number`, lines 128-133): it is taken to be the
one it stands in (`DeploymentOf`), as the clients send it.

Taken from outside of `src/`: how `save()` and `upsert` translate to SQL, that
`In` with `undefined` binds NULL, that `playlist_uniqueness_key`, which is in
no migration of the repository, is (program, deployment, position), and that
INSERT with its implicit transaction is one step. Whether the schema deletes
the messages of a deleted playlist is not to be known from the repository:
`cascades` is either.

### FeedbackAnalysis

One survey, for one program, deployment and language. A request posts a form or
deletes submissions; `message`, `form`, `item` and `option` say how far through
the loops of `createOrUpdate` and `_save_choices` it is, and `answer` and
`choice` are the rows it found last. Tables are sequences whose indices are the
serial ids, because `_save_choices` compares such an id with that of an option.
A `save()` is one step: only one column of a message changes, and every column
of an answer but its message and question is written. That includes
`deleted_at`, null in the copy: hence `Saved`. The query for the next message
is SQL text, in which rows that were deleted softly count (`Answered`), whereas
`findOne` leaves them out (`Found`). `AnalysisChoice` has no column for a soft
deletion, and TypeORM throws: `RemoveChoices`. `before` holds, for each
request, those that had ended when it began, so that "overlapping" is what the
properties say of two requests neither of which is in the other's set.

A question is named by its `_id`; a form that uses its number, which line 161
allows for, makes the lookup at line 154 throw (the column is a uuid), which is
`Fail`.

### LogReader

One action per type of record that changes anything (`logrecord.py`), and
`Other` for those that only print. The state is `LogContext` (base, latest
time, package, message, whether its start is known) and the statistics, which
are shared by the log files of a Talking Book; a context lives for one file.
The environment writes the log: any line may follow any other, with any time
stamp. Time of the day is kept because the base of the time stamps jumps by a
day when they decrease. An exception ends the file (`stopped`), not the
collection. `heard` is the file so far; `CountedAsHeard` recomputes from it
what should have been counted, without the context.

### CollectedFile

`do_import` of one file: `stage` is the line it has come to, `zip` what the
file holds, chosen once. What is missing, unreadable or inconsistent in a zip
is a field of `ZipContents`, and so is what the database and the table of keys
know of it; only lame fails or not as it pleases (`failed`). Each action says
what it needs, what it swallows (the rows are left out) and what it raises
(`raised`: the run ends). A recipient the database does not know raises
nothing: the lookup answers None, and the field is empty. A recording goes
through `Decrypt`, if it has both `.enc` and `.key`, and `ConvertWav`, with the
error paths in the order of the code. This is the step `Fetch` of `S3Import`
taken apart: a file whose `Blocks` is true is one of `Broken` there, and `rows`
and `messages` are its `Tables` and `Recordings`.

### Companion

A request is a process per phone; `at` is the await it is at. Downloads fill a
directory file by file, and a file exists from the moment it is opened (`open`,
`flushing`, `whole`, `torn`). Statistics save events in one transaction, and
rows from a sum over all events, found and saved per content and village.
Feedback inserts a row, converts, uploads. `Fail` cuts any of them short;
`Again` repeats a request that failed or was answered. The key of
`playedevents`, which is in no migration, is taken to make an event unique.

### NewAcm

One action per step of `createAcm`. A step looks for its row over a connection
of its own (`db`: what is committed) and inserts with that of the transaction
(`tx`, `id`). Returning false commits, an exception rolls back (`RollBack`),
objects that were copied stay. `Rerun` is the operator. Programs are kept apart
from the other rows, because a `save()` with an id that exists overwrites.

### UfBundler and UfExtract

`UfBundler` is the bundle command: read and partition, record the bundles,
publish them one by one. `UfExtract` adds where the messages come from: the
recordings of a directory, whose sidecars `extract_uf` completes and whose rows
it inserts at the end, the import command, uploads of audio, the deployment
that becomes known at some time, and a repeated import from S3, which
overwrites the row and its bundle. A bundle is NULL (`Null`) or '' (`Empty`)
when there is none; both are in the code, by different ways in.

## Runs

| Run | Instance | Properties | Shows |
|---|---|---|---|
| `acm` | 2 members and a stranger, 2 projects, 17 requests, 2 in flight, 4 in all | `ImplementsCheckoutLock`, `NoUnprovokedTakeover`, `NoUnprovokedDiscard`, `AnsweredIsStored` | the rows implement the lock where requests do not overlap; what overlapping can and cannot break |
| `tb_each` | 2 users, one with 2 requests in flight, 4 in all, for 3 or -3 numbers, 1 crash, 10 initial tables | `BlocksOfUserDisjoint`, `CounterCoversBlocks`, `SharedIdOnlyIfTorn` | within an era, no number is given out twice under one user; how two users can come to share an id |
| `s3_runs` | 2 files: one with rows and two recordings, of which one has a uuid, and then one that a table rejects; 2 runs at once, 2 days, 1 fault, 1 run by hand with "reimport", 2 parsings of a file with a recording without uuid | `NothingLost`, `ArchivedIsImported`, `RepeatAddsOnlyCopies`, `EventuallyArchived` | the import loses nothing, archives only what it imported, repeats without adding a row, and gets through the files before one that cannot be imported |
| `feedback` | 3 requests, 2 messages, 2 questions, options 1 and 2, 4 forms | `OneAnswerEach`, `DoneIsNotHandedOut`, `ChoicesStored`, `DeletedStaysDeleted` | what forms and deletions leave, up to named overlaps |
| `spec_publish` | 3 publications, 2 deployments, 2 objects, 1 update | `LinearHistory`, `FilesMatchNewestRecord`, `RecordIsWhatIsPublished` | what publications promise, up to named overlaps |
| `spec_update` | 6 contents, one update out of about 4700, any call failing, both kinds of schema | `RowsConsistent`, `MessagesAsSent`, `PlaylistsAsSent`, `DeploymentsAsSent`, `RecipientLanguageListed` | rows keep their keys and references; what an accepted update leaves is what was sent |
| `log_reader` | 2 log files of up to 5 and 3 lines, 15 kinds of lines, 2 messages, 1 package | `StopsOnlyAtBadReading`, `CountedAsHeard` | no order of boots and readings ends a file; what is counted is what the lines tell |
| `collected` | every kind of one recording; every part of a file missing or unreadable; 2 recordings in files that are otherwise in order: 304 000 states | `PlaysNotDropped`, `RaisesOnlyIfBlocked`, `RecordingsKept` | nothing is dropped silently; exactly which files end a run; exactly which recordings become messages |
| `collected_answers` | the same | `AnswersNameMessages`, violated | an answer may be given a uuid that no message has (see [Disagreements](#disagreements)) |
| `companion` | 2 phones, 2 tries each; 3 files, 4 plays in 2 villages, 3 recordings | `CacheWhole`, `PlaysCountedOnce`, `ReportedIsStored` | what survives retries and overlaps |
| `new_acm` | 2 commands, for 1 or 2 programs, 3 organisations, 1 exception | `CheckoutIsUsable`, `ProgramsStayApart`, `EventuallyDone` | what can be checked out is complete; reruns get there |
| `uf_extract` | 2 recordings and an imported message, 2 languages, 2 bundle runs, 1 trouble | `ZipsKeepLimits`, `PublishedOnce`, `ZipHasItsRows`, `WrongNumberOnlyIfEarly` | what is published, and under which deployment |

Why the bounds suffice. *ACM*: a hazard needs one request between two
statements of another, and a third to see the result; four requests, two at a
time, give each order of these. Requests differ only in what guards compare.
*TB-Loader*: four requests and a crash allow an allocation to be torn and two
more to follow, or a counter to be moved back, by a negative number or by a
late save, and two blocks to be given out after it; three blocks of 3 pass
`MaxValue`, which only matters to the next request. *Import*: two runs are the
overlap that cron makes; a file is handled by steps that do not depend on other
files, so that a second file is needed only for order and for what a run leaves
behind; with two days a run may repeat on another day what the last one did; of
two parsings one may fail, or be repeated after the file was archived, and
`MaxDrawn` only holds up later runs that come upon the same file.
*Publication*: three, as a chain of records needs a third to go wrong behind
two that overlapped; two objects, as the properties compare a first and a last.
One update, as a property is about two versions. *Update*: what an update does
depends on the content alone, so that one update from each kind of content is
checked: as the client read it, and as another client may have left it
meanwhile. *Feedback*: a form, another that overlaps it or its deletion, and a
third to meet what they leave; options that are, and are not, the ids of
choices stored already. *Log*: a play takes three lines (a clock reading, its
beginning, its end), so that five leave room for what may come between or be
repeated; the second file shows what the first leaves behind. *Collected file*:
recordings only meet in the answers of a survey and in the run they may end,
for which two are enough. *Companion*: two requests overlap, and each is
repeated after the other; a sum over several uploads needs two plays of one
village and content in different uploads. *New-ACM*: two commands meet in the
choice of an id, in one program, or in one organisation that the other is the
parent of; one exception can be anywhere, and reruns are not bounded.
*Utility*: one trouble, of a kind and at a step that is free, is the bound: a
failed call, a crash, a second run, unusual options or a repeated import; three
messages are one more than fits in a bundle, and a language of their own. Only
these need TLC's bounds: the theorems have none.

`CHECK_DEADLOCK FALSE` everywhere: the bounds end a behaviour, and a service
without requests is idle.

Fairness is assumed in two runs. `s3_runs`: weak fairness of `CronStart`,
as the crontab starts a run every four hours, and of each run's `Step`, as a
process that runs gets on. `new_acm` (`FairSetupSpec`): weak fairness of each
command's `Step`, which includes `Rerun`, as the operator who set up a program
is told that it failed. Uploads, faults and crashes are not fair and are
bounded; without the bound nothing can be promised, as a run that always
crashes shows.

## Theorems

All from the specification without fairness, for any values of the constants
that meet the named assumptions of the modules.

| Module | Theorem | Property | Argument |
|---|---|---|---|
| `AcmCheckout_proofs` | `TypeCorrect`, `Takeover`, `DiscardIsOwners`, `MembersOnly`, `Stored` | those of `acm`; `MembersOnly`: only members' requests change rows | `IInv` follows a request through its phases: while `overlapped` is false, the copy it holds and the second reading are the row, and the guard it has passed holds of the row. The action properties follow from `IInv`, as only `SaveUpdate` saves |
| | `ImplementsLock`, `SerialNotContended` | `ImplementsCheckoutLock`; with one slot no project is contended | each step is `Acquire`, `Release`, `Overtake` (if `overlapped`) or a stutter of `CheckoutLock`; with one slot `overlapped` is never true |
| | `SetupTypeCorrect`, `UsableCheckouts`, `ProgramsApart` (of `NewAcm`) | those of `new_acm` but `EventuallyDone` | `StagesInv`: what each stage of a command has put in the database or in its transaction, so that the checkout row comes last; `IdsInv`, `ChoiceInv`: an id is that of no other program while one command chooses at a time |
| `TbLoader_proofs` | `TypeCorrect`, `UserBlocksDisjoint`, `CounterCovers` | those of `tb_each`, for any numbers asked for and any number of requests at once | `RowInv`: a request that overlaps no other of its user holds the user's row as it is, and its save starts where the counter stands; `Covered`, `Apart`: within an era the counter is at or above every block saved, answered or not, so that the next one starts above all of them |
| | `SharedIdsAreTorn` | `SharedIdOnlyIfTorn` | `IdInv`: unless `torn`, one request allocates at a time, the maximum is what it has read, and only the id it has inserted is above it |
| `S3Import_proofs` | `TypeCorrect`, `FilesKept`, `ArchiveImported`, `RepeatsAddOnlyCopies` | the safety properties of `s3_runs` | `WorkInv`: what a run is done with is in the store unless a put has failed, and a file about to be deleted is in the archive. The store never shrinks, so that this survives other runs |
| `SpecPublish_proofs` | `TypeCorrect`, `OneHistory`, `FilesMatch`, `RecordIsPublished` | those of `spec_publish` | `RecentInv`: a record made since a request looked for the newest is by a request it has met; `WriteInv`: who still writes has met the newest record's publication; `CurrentInv`: what is held of the current version is the current version |
| | `UpdateTypeCorrect`, `RowsStayConsistent` (of `SpecContent`) | `RowsConsistent` | `KeysInv`: what the transaction sees is sound at each statement, that is, of unique keys and places, without dangling references, and with keys below the next one. What a statement does to sound rows is a lemma on each kind of INSERT and DELETE |
| | `DeploymentsFollow`, `PlaylistsFollow`, `RecipientsListed` | `DeploymentsAsSent`, `PlaylistsAsSent`, `RecipientLanguageListed` | what each loop has done so far (`SavingDeployments`, `SavingPlaylists`, `RecipientsInv`), and of each row where it comes from (`OriginsKnown`), which decides whether the deletions by key meet it |
| | `MessagesFollow` | `MessagesAsSent` | `WrittenSoFar`: a playlist has what was sent for the last of its places reached. While its messages are saved, `Progress` tells the rows written from the old ones: each of these is named by a message, and once that is saved its position is also one of theirs. Naming is injective, and so is sending a position, so that in the end no old row is left (`AllOverwritten`, by counting) |
| `FeedbackAnalysis_proofs` | `TypeCorrect`, `HandedOut`, `OneAnswer`, `DeletedStays`, `ChoicesKept` | those of `feedback` | `BeforeInv`: who is in a request's `before` has ended; `RowInv`: a row found stays an answer to the question it was found for; `OneInv`: unless forms about a message overlap, who is about to save an answer has found the live row, if there is one; `DeleteInv`: a row deleted since it was found was deleted by a request that had not ended before; `StoreInv`: the last form alone has, of the questions and options it is done with, what it sent |
| `CollectedFile_proofs` | `TypeCorrect`, `PlaysAreKept`, `RaisesOnlyThen`, `RecordingsAreKept` | those of `collected` | what each stage knows of the zip (`ReadableSoFar`, `ReadKnown`, `RowsKnown`, `SoundKnown`, `MessagesKnown`), so that a stage that raises is one where `Blocks` holds, and the last one is reached only if it does not; a recording the conversion is through with (`Dealt`) has its uuid noted exactly if it is convertible |
| | `LogTypeCorrect`, `StopsAtBadReading`, `CountedRight` (of `LogReader`) | those of `log_reader` | `TimeKnown`: who does not await a reading of the clock has a base for the time stamps, whatever was booted and read before; `ContextInv`: package, message and start in the context are those the lines read so far tell of, so that a line read adds to the statistics what it adds to the reference |
| `Companion_proofs` | `TypeCorrect`, `CacheIsWhole`, `PlaysCounted`, `ReportedStored` | those of `companion` | `CacheInv`: while nothing has gone wrong one request downloads, and what it has been through is there; `StatInv`: who deals with a content alone has summed up all its plays, and each of its villages is either still to be written or has its one right row; `FeedbackInv`: a row without a recording has an upload under way or failed, or its uuid is lent |
| `UfExtract_proofs` | `TypeCorrect`, `LimitsKept`, `PublishedOnlyOnce`, `NoneLacking`, `NumbersRight` | those of `uf_extract` | `OutgoingInv`: a bundle published or about to be is of one language, within the limits, and has all the rows that name it, and no other message but those in `excused` (bundled again on request, read by two runs at once, imported again, or in bundles that were not recorded); `RowsInv`: the messages whose rows name one bundle fit in it and are of one language; `ReadInv`: what runs have read are proper bundles, apart from each other, of messages that have none yet; `NumbersInv`: a wrong number in a sidecar, a row or on its way there is of a recording extracted too early |

The type invariants (`TypeOK`, `LogTypeOK`, `SetupTypeOK`, `UpdateTypeOK`) are
proved and no run checks them. None of the invariants is inductive by itself:
each says nothing of what a process holds between two statements, which is what
the strengthenings add.

Every safety property of every passing run is proved; the proofs do without the
bounds of the runs, which are constants without a value there. Beyond what a
`.cfg` gives, they assume of the constants what the `ASSUME`s of the modules
say: types; that there are finitely many commands of `NewAcm` and messages of
the utility, which both choose a least id or a bundle among them; that an
option belongs to one question (its key is a serial number); that the contents
a program starts from are sound. Facts about all elements of a finite set are
proved from the well-foundedness of strict inclusion, facts about lists from an
invariant of the loop over them.

Model-checked only: `EventuallyArchived` and `EventuallyDone`, which are
liveness properties under fairness.

## Disagreements

Met while modelling: what the code does, and the line that says otherwise. The
properties are stated for what the code does, and name the exception.

ACM checkout and TB-Loader:

- Checkin with the key "new", and create, "Only works for ACMs that do not
  already exist" (acm-checkout.service.ts:214), but save a row that names no
  project (226), so that they work again and again.
- "force allocation of a new id" (tb-loader.service.ts:41) when the counter
  would pass the maximum: the negation in line 39 encloses the whole
  disjunction, so that a counter that is too large never forces one.
- `statusCheck` answers "available" where other handlers answer "ok", and the
  clients' states are not the ones the comments list
  (acm-checkout.service.ts:268-281); a revocation, which "deletes any entry"
  (line 287), leaves the columns `now_out_*` as they are.
- "The caller can use old_value to old_value + n" (tb-loader.service.ts:67):
  two requests of one user at once are given the same block. So are two that
  follow each other with a negative number between them, as in 3, -3, 3, since
  neither the controller (tb-loader.controller.ts:13) nor the service looks at
  `n`; one that takes the counter to 0 leaves a row that counts as incomplete,
  and every later request fails on the unique e-mail column. The properties
  hold within an era, and say nothing across its end.

Statistics import:

- `--uf-only`, "Only publish uf files and update uf_messages table"
  (main.py:202), updates the table and does not publish the audio
  (S3Importer.py:474).
- `S3Importer` inserts None into every column a file does not fill ("inserts
  col: None", line 544), also into the `_id` that migration 1752563961476 makes
  NOT NULL.
- `TbCollectedData.playstatistics` swallows the exception of plays that cannot
  be attributed (line 466), and `emit_statistics` raises on the same plays: the
  run ends.
- "Translate filenames to message_uuids" (S3UfImporter.py:416): the uuid is
  noted (281) before lame runs, and when lame fails (297) the answers are given
  a uuid that no message has. This is the finding of `collected_answers`;
  `RecordingsKept` says that nothing else leads to it.
- `_query_recipient_language` (TbCollectedDataProcessor.py:200) selects the
  recipient's id, not the language, and answers None for a recipient that is
  not found; line 863 reads `self.self.deployments_log`.
- The copies of a file in the processed bucket and in the archive are stored
  under the date of the run that made them (S3Importer.py:381, 597): importing
  it again on another day adds copies, which `RepeatAddsOnlyCopies` allows.
- `on_CutPlay` (logrecord.py:475) is a function, so that CutPlay lines are not
  of a known type; `base_time` of `LogFileReader` is not used.

Program specification:

- "Delete playlists not in request data from db" (spec.service.ts:247) deletes
  none when a playlist of the request is new (NOT IN with NULL).
- Languages of a message are added and never taken away (spec.service.ts:222).
- A playlist written over one whose key the client no longer sends is deleted
  with it at the end of the same request.

User feedback analysis:

- `MAXIMUM_MINUTES_CHECKOUT` "re-issues the same UUID after this many minutes
  if the form hasn't yet been submitted" (analysis.service.ts:30) and is not
  used: a message is handed out to everyone until a form about it is saved.
- `deleteSubmission` takes a message id (analysis.controller.ts:77) and deletes
  the answers to all messages of the survey, up to the first one with choices.
- A choice is looked up by the id of its option (analysis.service.ts:113), so
  that a form may take the row of another message's choice: `ChoicesStored`
  speaks of forms after which no other was posted, and excepts the form's own
  rows taken that way.
- A form that was saved half-way, and one whose answers were deleted, concern a
  message that is never handed out again: this is what `DoneIsNotHandedOut`
  says.
- `notFeedback` takes the program from the query
  (uf-messages.controller.ts:109) although the route has it in the path.

Companion app and New-ACM:

- The zip of a deployment is made when s3Sync has read everything, which it may
  not yet have written (utilities/index.ts:146), and is then kept for ever.
- A row of `uf_messages` stays when the upload of its recording fails, and the
  retry is told that it is saved (companion.service.ts:540); a recording that
  has no .json takes the metadata, uuid included, of another (507); a wav goes
  to S3 under the name of an mp3 (591).
- "Computation copied from scripts/v2_log_reader/tbstats/playstatistic.py"
  (companion.service.ts:616) sorts plays by their length, but the query has
  added up their times (318): several short plays are one completion, and any
  number of completions is one. A play two seconds short of its end is complete
  here (`>=`) and not there (`>`).
- A request for play statistics without a TB-Loader id keeps its events and
  fails before their rows; the next upload of the content makes up for it.
- A new organisation takes two runs of the command, because the program is
  linked to what is committed, and relies on the failed run to commit.
- The copy of the template lists one page of it and takes a prefix that has an
  object for a complete one.

User-feedback utility:

- A column whose value is a function is overwritten with '' (`_add_props`,
  UfMetadata.py:52): `bundle_uuid` is '' and not NULL, the date of a recording
  its default, and `--only-zip` publishes all messages without bundle in a zip
  without name.
- A deployment that is not found is saved as "DEPLOYMENT_NUMBER=None", which
  the next run takes for a number (a18file.py:291).
- "--max-files" (ufUtility.py:206) is never looked at, the default limit `2^31`
  is an exclusive or (UfBundler.py:61), and `--dry-run` does not reach
  extract_uf.
- `update_uf_bundles` answers False on failure, which `make_bundles` ignores:
  bundles are published that no row names.
- A message whose audio is missing in S3 ends the publication when the bundles
  are recorded already; only `--only-zip` publishes them.

## Hazards without a property

In `PROJECT.json`: an invitation saves the user's row before it creates the
Cognito account (users.service.ts:61). Beyond that list:

- acm-checkout.service.ts:48: whether the caller is a member is decided by the
  lookup only, and not again at the save (`MembersOnly`, proved and not run,
  says that the lookup suffices); 174: check-in does not ask who has the ACM
  out, so that any member checks in another's checkout. The lock promises that
  an entry ends by check-in, discard, revocation or reset, not by whose.
- tb-loader.service.ts:40: an imported row without hex id or counter forces an
  allocation whose INSERT violates the unique e-mail column (a branch of
  `InsertItem`): such a user is never served.
- S3Importer.py:212 and S3Driver.py:99: a file listed may be gone when it is
  fetched, and an error status leaves no summary, which ends the run;
  `s3_runs` meets both, and loses nothing. 474: the options are independent
  and their effects nested by hand.
- spec.service.ts:222: languages that were taken away from a message stay; 79:
  an update carries no version, so that of two clients that read the same
  content the second undoes what the first has saved.
- jwt-auth.guard.ts:40: verified users are kept for the life of the process.
- roles.service.ts:40: a role is found or created without a lock.

## Not modelled

- *Surveys*: questions and choices are edited row by row without a transaction
  (`isNew` is inverted, and a loop that splices skips elements). What an edit
  can break are the answers that refer to what it removed, so that it belongs
  into `FeedbackAnalysis`, as one more kind of request.
- *Users, roles, authentication*: mostly the behaviour of Cognito, which is not
  in the repository. *Programs and organisations*: single statements;
  `addOrgToProgram` may link an organisation twice, and the removal takes one
  away.
- *Deployment and talking-book metadata*: an upload is parsed and inserted
  once. In `talking-book-metadata.service.ts` an async function is passed to
  `eachRow` and not awaited, so that rows may be inserted after the
  transaction.
- *Analytics, tableau, categories*: read-only queries.
- *Maintenance scripts*: one-off migrations, backups and reports; `acm_stats`
  for the Talking Books of the first generation, and `new_acm.py`, which became
  the New-ACM command.

Inside the modelled components: the layout of spreadsheets, CSV and e-mails,
dates, logging; in `SpecContent` the program's general row (overwritten as
sent) and the clean-up of titles, which are taken as cleaned up; in
`FeedbackAnalysis` transcriptions, times, statistics and edits of the survey
meanwhile; in `LogReader` how a line is split by regular expressions, and
fields that are not what the comments say; in `CollectedFile` the deployment
log's columns, a `stats_collected.properties` without a line, recordings that
share a uuid, and lookups that fail because the connection does; in `Companion`
`downloadContent`, survey responses and the verification of recipients; in
`NewAcm` the dry run; in the utility the dry runs, converters,
`create_properties` (it overwrites a sidecar and, without STATSUUID, draws a
new message uuid, so that a repeat duplicates the recording) and `list`.

## Plan

Done, in this order: `CheckoutLock` and `AcmCheckout`; `TbLoader`; `S3Import`;
`SpecPublish` and `SpecContent`; `FeedbackAnalysis`; `LogReader` and
`CollectedFile`; `Companion`; `NewAcm`; `UfBundler` and `UfExtract`.

What would add most next:

1. Survey edits as requests of `FeedbackAnalysis`: answers to removed
   questions, choices that refer to removed options.
2. `NewAcm` composed with `AcmCheckout`: the first checkout of a program whose
   row another command has taken.
3. Invitations and roles, once what Cognito guarantees is written down.
