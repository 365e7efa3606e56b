------------------------------ MODULE Companion ------------------------------
(***************************************************************************)
(* The requests of the companion app (companion.service.ts): downloads of  *)
(* the prompts or surveys of a deployment, which the server keeps as a zip *)
(* in its temporary directory; uploads of play statistics; and uploads of  *)
(* recorded user feedback.  Requests interleave at every await.  A phone   *)
(* repeats a request that failed, whose answer was lost, or whose data it  *)
(* has not dropped yet.                                                    *)
(*                                                                         *)
(*  download: idle -> fetch -> (body -> fetch)* -> done                    *)
(*  stats:    idle -> events -> (sum -> (find -> save)* )* -> done         *)
(*  feedback: idle -> recordings -> (insert -> upload -> recordings)*      *)
(*                 -> done                                                 *)
(*                                                                         *)
(* Any of them may fail where it awaits.  What a request reads and writes  *)
(* belongs to its kind alone, so a workload is of one kind.                *)
(***************************************************************************)
EXTENDS Integers, Sequences, FiniteSets

CONSTANTS
  Clients,
  Tries,        \* bound: how often a client repeats its request
  NumFiles,     \* objects that make up the zip, in the order of s3Sync
  Plays,        \* play events: [content, village, ...]
  Recordings,   \* names (and uuids) of recorded feedback
  Described,    \* recordings whose .json is in the upload
  Strangers,    \* recordings whose recipient is unknown
  Workloads,    \* what the clients may ask
  None

Files == 1 .. NumFiles

Requests ==
  [kind : {"download"}]
  \cup [kind : {"stats"}, plays : SUBSET Plays \ {{}},
        known : BOOLEAN,   \* all their recipients are known
        loader : BOOLEAN]  \* the deployment's TB-loader id is found
  \cup [kind : {"feedback"}, recordings : SUBSET Recordings]

ASSUME CompanionAssumption ==
  /\ Tries \in Nat /\ NumFiles \in Nat
  /\ Described \subseteq Recordings /\ Strangers \subseteq Recordings
  /\ Workloads \subseteq [Clients -> Requests]
  /\ \A p \in Plays : {"content", "village"} \subseteq DOMAIN p
  /\ None \notin Recordings \cup {p.village : p \in Plays}

VARIABLES
  ask,      \* each client's request
  at,       \* where it is
  tries,    \* how often it was repeated
  left,     \* files, contents or recordings it has yet to deal with
  now,      \* the village and row, or the recording and uuid, it deals with
  held,     \* the plays it has summed up, or the names in its directory
  saved,    \* feedback: the uuids it will report
  file,     \* downloads: the files in the temporary directory
  zip,      \* downloads: the files in the cached zip, or None
  blame,    \* history: what may have damaged the zip
  events,   \* stats: playedevents
  stat,     \* stats: playstatistics, with the plays each row counts
  behind,   \* history: contents with events whose row is yet to follow
  raced,    \* history: contents that two requests dealt with at a time
  messages, \* feedback: uf_messages
  objects,  \* feedback: recordings in the bucket
  told,     \* history: uuids reported as saved
  unsent,   \* history: rows whose upload failed
  lent      \* history: uuids given to a recording that has no .json

local == <<left, now, held, saved>>
cache == <<file, zip, blame>>
statistics == <<events, stat, behind, raced>>
feedback == <<messages, objects, told, unsent, lent>>
vars == <<ask, at, tries, local, cache, statistics, feedback>>

Stages == {"idle", "fetch", "body", "events", "sum", "find", "save",
           "recordings", "insert", "upload", "done", "failed"}
Rows == [content : {p.content : p \in Plays}, village : {p.village : p \in Plays},
         plays : SUBSET Plays]

TypeOK ==
  /\ ask \in Workloads
  /\ at \in [Clients -> Stages] /\ tries \in [Clients -> 0 .. Tries]
  /\ file \in [Files -> {"none", "open", "flushing", "whole", "torn"}]
  /\ zip = None \/ zip \in SUBSET Files
  /\ blame \subseteq {"broken", "overlap", "late"}
  /\ events \subseteq Plays /\ stat \in Seq(Rows)
  /\ messages \subseteq Recordings /\ objects \subseteq Recordings
  /\ unsent \subseteq messages /\ lent \subseteq Recordings

Init ==
  /\ ask \in Workloads
  /\ at = [c \in Clients |-> "idle"] /\ tries = [c \in Clients |-> 0]
  /\ left = [c \in Clients |-> {}] /\ now = [c \in Clients |-> None]
  /\ held = [c \in Clients |-> {}] /\ saved = [c \in Clients |-> {}]
  /\ file = [f \in Files |-> "none"] /\ zip = None /\ blame = {}
  /\ events = {} /\ stat = <<>> /\ behind = {} /\ raced = {}
  /\ messages = {} /\ objects = {} /\ told = {} /\ unsent = {} /\ lent = {}

Asks(c, kind) == at[c] = "idle" /\ ask[c].kind = kind
GoTo(c, s) == at' = [at EXCEPT ![c] = s]
Set(v, c, x) == v' = [v EXCEPT ![c] = x]
Working(c) == at[c] \notin {"idle", "done", "failed"}

\* The request ends, and what it held in memory goes.
EndsAs(c, s) ==
  /\ GoTo(c, s) /\ Set(left, c, {}) /\ Set(now, c, None) /\ Set(held, c, {})
  /\ Set(saved, c, {})

-----------------------------------------------------------------------------
(* Downloads: downloadPrompts, downloadSurveys, s3Sync.                    *)

\* Mutant: a directory that is there is taken to be complete.
DownloadOnce(c) ==
  /\ Asks(c, "download")
  /\ IF zip # None
     THEN GoTo(c, "done") /\ UNCHANGED <<left, blame>>
     ELSE /\ GoTo(c, "fetch")
          /\ Set(left, c, IF \E f \in Files : file[f] # "none" THEN {} ELSE Files)
          /\ blame' = IF \E d \in Clients : Working(d)
                      THEN blame \cup {"overlap"} ELSE blame
  /\ UNCHANGED <<ask, tries, now, held, saved, file, zip, statistics, feedback>>

Download(c) ==
  /\ Asks(c, "download")
  /\ IF zip # None
     THEN GoTo(c, "done") /\ UNCHANGED <<left, blame>>
     ELSE /\ GoTo(c, "fetch") /\ Set(left, c, Files)
          /\ blame' = IF \E d \in Clients : Working(d)
                      THEN blame \cup {"overlap"} ELSE blame
  /\ UNCHANGED <<ask, tries, now, held, saved, file, zip, statistics, feedback>>

First(S) == CHOOSE f \in S : \A g \in S : f <= g

\* downloadObject: a file that is there is taken to be complete.
Fetch(c) ==
  /\ at[c] = "fetch" /\ left[c] # {}
  /\ LET f == First(left[c]) IN
       IF file[f] # "none"
       THEN Set(left, c, left[c] \ {f}) /\ UNCHANGED <<at, file>>
       ELSE Set(file, f, "open") /\ GoTo(c, "body") /\ UNCHANGED left
  /\ UNCHANGED <<ask, tries, now, held, saved, zip, blame, statistics, feedback>>

\* It resolves at the end of what it reads: what it has read may not have
\* been written yet.
End(c) ==
  /\ at[c] = "body" /\ GoTo(c, "fetch")
  /\ LET f == First(left[c]) IN
       Set(file, f, "flushing") /\ Set(left, c, left[c] \ {f})
  /\ UNCHANGED <<ask, tries, now, held, saved, zip, blame, statistics, feedback>>

Flush(f) ==
  /\ file[f] = "flushing" /\ Set(file, f, "whole")
  /\ UNCHANGED <<ask, at, tries, local, zip, blame, statistics, feedback>>

\* zipDirectory writes over a zip another request has written.
Zip(c) ==
  /\ at[c] = "fetch" /\ left[c] = {} /\ EndsAs(c, "done")
  /\ zip' = {f \in Files : file[f] = "whole"}
  /\ blame' = IF \E f \in Files : file[f] = "flushing"
              THEN blame \cup {"late"} ELSE blame
  /\ UNCHANGED <<ask, tries, file, statistics, feedback>>

-----------------------------------------------------------------------------
(* Statistics: recordStats.                                                *)

StatsBegin(c) ==
  /\ Asks(c, "stats") /\ GoTo(c, "events")
  /\ UNCHANGED <<ask, tries, local, cache, statistics, feedback>>

ContentsOf(P) == {p.content : p \in P}

\* One transaction, which an unknown recipient rolls back.  An event that
\* was sent before is ignored.
Events(c) ==
  /\ at[c] = "events"
  /\ IF ask[c].known
     THEN LET new == ContentsOf(ask[c].plays) IN
          /\ GoTo(c, "sum") /\ Set(left, c, new)
          /\ events' = events \cup ask[c].plays
          /\ behind' = behind \cup new
          /\ raced' = raced \cup
               {k \in new : \E d \in Clients \ {c} : Working(d) /\ k \in left[d]}
          /\ UNCHANGED <<now, held, saved>>
     ELSE EndsAs(c, "failed") /\ UNCHANGED <<events, behind, raced>>
  /\ UNCHANGED <<ask, tries, stat, cache, feedback>>

\* All plays of a content, of this and of former uploads.  Without a
\* TB-loader id the request fails, but its events stay.
Sum(c) ==
  /\ at[c] = "sum"
  /\ IF ask[c].loader
     THEN /\ \E k \in left[c] : Set(held, c, {p \in events : p.content = k})
          /\ GoTo(c, "find") /\ UNCHANGED <<left, now, saved>>
     ELSE EndsAs(c, "failed")
  /\ UNCHANGED <<ask, tries, cache, statistics, feedback>>

\* Mutant: findOne does not look for the row of an earlier upload.
FindNone(c) ==
  /\ at[c] = "find" /\ GoTo(c, "save")
  /\ \E p \in held[c] : Set(now, c, [village |-> p.village, row |-> 0])
  /\ UNCHANGED <<ask, tries, left, held, saved, cache, statistics, feedback>>

\* findOne: any row of the content and the village, or a new one (0).
Find(c) ==
  /\ at[c] = "find" /\ GoTo(c, "save")
  /\ \E p \in held[c] :
       LET is(i) == stat[i].content = p.content /\ stat[i].village = p.village
           there == {i \in 1 .. Len(stat) : is(i)} IN
       \E i \in IF there = {} THEN {0} ELSE there :
         Set(now, c, [village |-> p.village, row |-> i])
  /\ UNCHANGED <<ask, tries, left, held, saved, cache, statistics, feedback>>

\* The row is written anew from the sum.
Save(c) ==
  LET mine == {p \in held[c] : p.village = now[c].village}
      k == (CHOOSE p \in mine : TRUE).content
      row == [content |-> k, village |-> now[c].village, plays |-> mine] IN
  /\ at[c] = "save"
  /\ stat' = IF now[c].row = 0 THEN Append(stat, row)
             ELSE [stat EXCEPT ![now[c].row] = row]
  /\ behind' = IF held[c] = mine THEN behind \ {k} ELSE behind
  /\ IF held[c] = mine /\ left[c] = {k}
     THEN EndsAs(c, "done")
     ELSE /\ GoTo(c, IF held[c] = mine THEN "sum" ELSE "find")
          /\ Set(left, c, IF held[c] = mine THEN left[c] \ {k} ELSE left[c])
          /\ Set(held, c, held[c] \ mine) /\ Set(now, c, None)
          /\ UNCHANGED saved
  /\ UNCHANGED <<ask, tries, events, raced, cache, feedback>>

-----------------------------------------------------------------------------
(* User feedback: saveUserFeedback.                                        *)

\* The directory is named after the second, so that requests may share it.
Unzip(c) ==
  /\ Asks(c, "feedback") /\ GoTo(c, "recordings")
  /\ \E S \in SUBSET {d \in Clients \ {c} :
                       at[d] # "idle" /\ ask[d].kind = "feedback"} :
       LET names == UNION {ask[d].recordings : d \in S \cup {c}} IN
       Set(held, c, names) /\ Set(left, c, names)
  /\ UNCHANGED <<ask, tries, now, saved, cache, statistics, feedback>>

\* The .json of a recording; without one, that of any other.
Metadata(c, r) == IF r \in Described THEN {r} ELSE held[c] \cap Described

\* A recording without any .json, or of an unknown recipient, is passed over;
\* one whose row exists is reported as saved.
Take(c) ==
  /\ at[c] = "recordings"
  /\ \E r \in left[c] :
       \/ /\ Metadata(c, r) = {} \/ Metadata(c, r) \cap Strangers # {}
          /\ Set(left, c, left[c] \ {r})
          /\ UNCHANGED <<at, now, saved, lent>>
       \/ \E u \in Metadata(c, r) \ Strangers :
            IF u \in messages
            THEN /\ Set(saved, c, saved[c] \cup {u})
                 /\ Set(left, c, left[c] \ {r})
                 /\ UNCHANGED <<at, now, lent>>
            ELSE /\ Set(now, c, [name |-> r, uuid |-> u]) /\ GoTo(c, "insert")
                 /\ lent' = IF u = r THEN lent ELSE lent \cup {u}
                 /\ UNCHANGED <<left, saved>>
  /\ UNCHANGED <<ask, tries, held, cache, statistics, messages, objects, told,
                 unsent>>

\* Mutant: a recording is reported as saved when its row is.
InsertTells(c) ==
  /\ at[c] = "insert"
  /\ messages' = messages \cup {now[c].uuid}
  /\ GoTo(c, "recordings") /\ Set(left, c, left[c] \ {now[c].name})
  /\ Set(saved, c, saved[c] \cup {now[c].uuid})
  /\ UNCHANGED <<ask, tries, now, held, cache, statistics, objects, told,
                 unsent, lent>>

\* The key of uf_messages: another request may have inserted it meanwhile.
Insert(c) ==
  /\ at[c] = "insert"
  /\ messages' = messages \cup {now[c].uuid}
  /\ IF now[c].uuid \in messages THEN EndsAs(c, "failed")
     ELSE GoTo(c, "upload") /\ UNCHANGED local
  /\ UNCHANGED <<ask, tries, cache, statistics, objects, told, unsent, lent>>

\* ffmpeg and PutObject, under the name of the recording.
Upload(c) ==
  /\ at[c] = "upload" /\ GoTo(c, "recordings")
  /\ objects' = objects \cup {now[c].name}
  /\ Set(saved, c, saved[c] \cup {now[c].uuid})
  /\ Set(left, c, left[c] \ {now[c].name}) /\ Set(now, c, None)
  /\ UNCHANGED <<ask, tries, held, cache, statistics, messages, told, unsent,
                 lent>>

Reply(c) ==
  /\ at[c] = "recordings" /\ left[c] = {} /\ EndsAs(c, "done")
  /\ told' = told \cup saved[c]
  /\ UNCHANGED <<ask, tries, cache, statistics, messages, objects, unsent, lent>>

-----------------------------------------------------------------------------
\* S3, the database, ffmpeg or a lookup fails, and nothing is undone but an
\* open transaction: a file stays as far as it was written, a row without
\* its recording.
Fail(c) ==
  /\ Working(c) /\ EndsAs(c, "failed")
  /\ IF at[c] = "body"
     THEN Set(file, First(left[c]), "torn") /\ blame' = blame \cup {"broken"}
     ELSE UNCHANGED <<file, blame>>
  /\ unsent' = IF at[c] = "upload" THEN unsent \cup {now[c].uuid} ELSE unsent
  /\ UNCHANGED <<ask, tries, zip, statistics, messages, objects, told, lent>>

Again(c) ==
  /\ at[c] \in {"done", "failed"} /\ tries[c] < Tries
  /\ GoTo(c, "idle") /\ Set(tries, c, tries[c] + 1)
  /\ UNCHANGED <<ask, local, cache, statistics, feedback>>

Next ==
  \/ \E c \in Clients :
       \/ Download(c) \/ Fetch(c) \/ End(c) \/ Zip(c)
       \/ StatsBegin(c) \/ Events(c) \/ Sum(c) \/ Find(c) \/ Save(c)
       \/ Unzip(c) \/ Take(c) \/ Insert(c) \/ Upload(c) \/ Reply(c)
       \/ Fail(c) \/ Again(c)
  \/ \E f \in Files : Flush(f)

Spec == Init /\ [][Next]_vars

-----------------------------------------------------------------------------
(* Properties.                                                             *)

\* The zip is kept for ever and handed to every phone, so what it lacks is
\* lost to all of them.  It lacks a file only if a transfer broke off, two
\* requests filled the directory at a time, or a file was not yet written
\* when it was zipped (companion.service.ts:107-140, utilities/index.ts:144).
CacheWhole ==
  zip \in {None, Files} \/ blame # {}

\* However often and in whatever portions the plays of a content are sent,
\* its rows in playstatistics are made from each of them once: one row for a
\* village, from all plays received.  (The query adds up their times before
\* they are sorted by length, so that a row tells of them as of one play; a
\* content has one totaltime.)  Excepted are contents two requests dealt with at a
\* time, and those of a request that failed between the events and the rows,
\* until the next one (companion.service.ts:245-382).
PlaysCountedOnce ==
  \A p \in events :
    p.content \in raced \cup behind \/
      LET is(q) == q.content = p.content /\ q.village = p.village
          rows == {i \in 1 .. Len(stat) : is(stat[i])} IN
      /\ Cardinality(rows) = 1
      /\ \A i \in rows : stat[i].plays = {q \in events : is(q)}

\* A recording the phone is told is saved, and may delete, is in the bucket,
\* unless an upload of it failed after its row was inserted, or is under way,
\* or its uuid was given to a recording without .json (540-596).
ReportedIsStored ==
  \A u \in told :
    /\ u \in messages
    /\ \/ u \in objects \cup unsent \cup lent
       \/ \E c \in Clients : at[c] = "upload" /\ now[c].uuid = u

=============================================================================
