---------------------------- MODULE SpecPublish ----------------------------
(***************************************************************************)
(* Publishing the specification of a program                               *)
(* (src/src/programs/spec/spec.service.ts, publish and writeToS3), while   *)
(* the program is being edited.  A publication runs one statement or one   *)
(* put at a time:                                                          *)
(*                                                                         *)
(*   ReadProject --> ReadDeployments --> Mark --> FindRecent --> Save      *)
(*               --> Put (Files times)                                     *)
(*                                                                         *)
(* and any of them may throw, which ends the request.  The content is a    *)
(* version number, counted in committed updates, and the numbers of the    *)
(* deployments it has.  An update (updateProgram) is one step: its         *)
(* transaction takes the lock of the program's row first and holds it.     *)
(***************************************************************************)
EXTENDS Integers, Sequences

CONSTANTS
  Requests,     \* publications
  Deployments,  \* numbers of the deployments the program may have
  Files,        \* objects a publication writes: five csv files and one xlsx
  MaxVersion    \* bound: updates in a behaviour

ASSUME FilesAssumption == Files \in Nat \ {0}
ASSUME MaxVersionAssumption == MaxVersion \in Nat

VARIABLES
  version,      \* of the content: updates committed so far
  deployments,  \* deployments of the program
  published,    \* those whose row has is_published
  records,      \* published_program_specs, in order of created_at
  files,        \* i -> what the i-th object in S3 was made from
  phase,        \* request -> the statement it runs next
  project,      \* request -> the project it has read
  recent,       \* request -> the newest record it has found
  written,      \* request -> objects it has written
  met           \* history: request -> the requests in flight while it was

vars == <<version, deployments, published, records, files, phase, project,
          recent, written, met>>

\* A project as findByCode returns it: general data, recipients and
\* languages by a first query, deployments with their content by a second.
Project == [general : Nat, content : Nat, deployments : SUBSET Deployments]

NoProject == [general |-> 0, content |-> 0, deployments |-> {}]

\* A row names the one before it, 0 if there is none.
Record == [spec : Project, publisher : Requests, previous : Nat]

InFlight(r) == phase[r] \notin {"new", "done", "failed"}

TypeOK ==
  /\ version \in 0 .. MaxVersion
  /\ deployments \in SUBSET Deployments
  /\ published \in SUBSET deployments
  /\ records \in Seq(Record)
  /\ files \in [1 .. Files -> Project]
  /\ phase \in [Requests -> {"new", "deployments", "mark", "recent", "save",
                             "write", "done", "failed"}]
  /\ project \in [Requests -> Project]
  /\ recent \in [Requests -> Nat]
  /\ written \in [Requests -> 0 .. Files]
  /\ met \in [Requests -> SUBSET Requests]

Init ==
  /\ version = 0
  /\ deployments \in SUBSET Deployments
  /\ published = {}
  /\ records = <<>>
  /\ files = [i \in 1 .. Files |-> NoProject]
  /\ phase = [r \in Requests |-> "new"]
  /\ project = [r \in Requests |-> NoProject]
  /\ recent = [r \in Requests |-> 0]
  /\ written = [r \in Requests |-> 0]
  /\ met = [r \in Requests |-> {}]

-----------------------------------------------------------------------------
\* saveDeployments deletes the rows of the numbers the request leaves out,
\* updates those it names and inserts new ones, which are not published.
Update(numbers) ==
  /\ version < MaxVersion
  /\ version' = version + 1
  /\ deployments' = numbers
  /\ published' = published \cap numbers
  /\ UNCHANGED <<records, files, phase, project, recent, written, met>>

Goto(r, to) == phase' = [phase EXCEPT ![r] = to]

\* findByCode's first query; a new request meets those in flight.
ReadProject(r) ==
  /\ phase[r] = "new"
  /\ Goto(r, "deployments")
  /\ project' = [project EXCEPT ![r].general = version]
  /\ met' = [q \in Requests |->
               IF q = r THEN {s \in Requests : InFlight(s)}
               ELSE IF InFlight(q) THEN met[q] \cup {r} ELSE met[q]]
  /\ UNCHANGED <<version, deployments, published, records, files, recent,
                 written>>

\* Its second query.
ReadDeployments(r) ==
  /\ phase[r] = "deployments"
  /\ Goto(r, "mark")
  /\ project' = [project EXCEPT ![r].content = version,
                                ![r].deployments = deployments]
  /\ UNCHANGED <<version, deployments, published, records, files, recent,
                 written, met>>

\* Mutant: a program that has been published is not marked again.
MarkFirst(r) ==
  /\ phase[r] = "mark"
  /\ Goto(r, "recent")
  /\ published' = IF records = <<>> THEN deployments ELSE published
  /\ UNCHANGED <<version, deployments, records, files, project, recent,
                 written, met>>

\* "Mark all deployments as published": those the table holds by now.
Mark(r) ==
  /\ phase[r] = "mark"
  /\ Goto(r, "recent")
  /\ published' = deployments
  /\ UNCHANGED <<version, deployments, records, files, project, recent,
                 written, met>>

FindRecent(r) ==
  /\ phase[r] = "recent"
  /\ Goto(r, "save")
  /\ recent' = [recent EXCEPT ![r] = Len(records)]
  /\ UNCHANGED <<version, deployments, published, records, files, project,
                 written, met>>

\* Mutant: the column previous_id without its constraint.
AlwaysFree(previous) == TRUE

\* previous_id is unique among the rows that have one
\* (src/migrations/1729847672878-published-spec.ts).
Free(previous) ==
  previous # 0 => \A i \in DOMAIN records : records[i].previous # previous

Save(r) ==
  /\ phase[r] = "save"
  /\ \/ /\ Free(recent[r])
        /\ Goto(r, "write")
        /\ records' = Append(records, [spec |-> project[r], publisher |-> r,
                                       previous |-> recent[r]])
     \/ /\ ~Free(recent[r])
        /\ Goto(r, "failed")
        /\ UNCHANGED records
  /\ UNCHANGED <<version, deployments, published, files, project, recent,
                 written, met>>

\* Mutant: one object too few.
StopsEarly(r) == written[r] + 1 >= Files - 1

LastFile(r) == written[r] + 1 = Files

\* The objects are written in a fixed order.
Put(r) ==
  /\ phase[r] = "write"
  /\ files' = [files EXCEPT ![written[r] + 1] = project[r]]
  /\ written' = [written EXCEPT ![r] = @ + 1]
  /\ Goto(r, IF LastFile(r) THEN "done" ELSE "write")
  /\ UNCHANGED <<version, deployments, published, records, project, recent,
                 met>>

\* A statement or a put throws, or the process stops.
Fail(r) ==
  /\ InFlight(r)
  /\ Goto(r, "failed")
  /\ UNCHANGED <<version, deployments, published, records, files, project,
                 recent, written, met>>

Publish(r) ==
  \/ ReadProject(r)
  \/ ReadDeployments(r)
  \/ Mark(r)
  \/ FindRecent(r)
  \/ Save(r)
  \/ Put(r)
  \/ Fail(r)

Next ==
  \/ \E numbers \in SUBSET Deployments : Update(numbers)
  \/ \E r \in Requests : Publish(r)

Spec == Init /\ [][Next]_vars

-----------------------------------------------------------------------------
Roots == {i \in DOMAIN records : records[i].previous = 0}

\* The records are one history, each following the one made before it,
\* unless two publications that overlapped each took itself for the first.
\* (The lookup at spec.service.ts:341 takes no lock.)
LinearHistory ==
  \/ \A i \in DOMAIN records : records[i].previous = i - 1
  \/ \E i, j \in Roots :
       i # j /\ records[i].publisher \in met[records[j].publisher]

\* Once the newest record's publication is done, every object in S3 is made
\* from that record, whatever failed before it, unless it overlapped with
\* another.  (The puts at spec.service.ts:353-364 are not atomic.)
FilesMatchNewestRecord ==
  LET newest == records[Len(records)] IN
  records # <<>> /\ phase[newest.publisher] = "done"
    /\ met[newest.publisher] = {}
  => \A i \in 1 .. Files : files[i] = newest.spec

\* If no update was committed since the newest record's project was read,
\* the record holds one version of the program, and its deployments are
\* exactly the ones marked as published.  (findByCode makes two queries, and
\* the mark at spec.service.ts:334 names no row, so an update in between
\* leaves a record of two versions, or marks deployments it does not hold.)
RecordIsWhatIsPublished ==
  LET newest == records[Len(records)] IN
  records # <<>> /\ newest.spec.general = version
  => /\ newest.spec.content = version
     /\ newest.spec.deployments = deployments
     /\ published = deployments
=============================================================================
