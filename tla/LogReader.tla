------------------------------ MODULE LogReader ------------------------------
(***************************************************************************)
(* Reading the logs of one Talking Book (src/scripts/v2_log_reader/tbstats:*)
(* LogFileReader.read and the classes of logrecord.py) into the statistics *)
(* of what was played (statistics.py, playstatistic.py).                   *)
(*                                                                         *)
(* Each log file is read by a reader of its own with a fresh LogContext,   *)
(* line by line; the statistics are shared.  An exception ends the file,   *)
(* not the collection.  The log is arbitrary: the environment chooses      *)
(* every line.  Lines of a type without effect are "other"; lines that do  *)
(* not parse do nothing and are left out.                                  *)
(***************************************************************************)
EXTENDS Integers, Sequences, FiniteSets

CONSTANTS
  Contents,   \* ids of messages
  Packages,   \* names of the packages of the deployment
  Playlists,  \* package -> sequence of playlists, sequences of contents
  Times,      \* readings of the clock from 2022 on (earlier ones are ignored)
  Elapsed,    \* time stamps of lines: time of the day, or since the boot
  DayLength,
  Plays,      \* [length, played]: what MsgDone lines report, in ms
  Log,        \* lines that may be found in a log
  Lengths,    \* bound: the lines of each log file
  NoTime, NoPackage, NoContent

MaybeTime == Times \cup {NoTime}
Lines ==
  [kind : {"REBOOT"}, old : BOOLEAN]
  \cup [kind : {"RTC", "setRTC"}, time : MaybeTime]
  \cup [kind : {"ChgPkg"}, package : Packages \cup {NoPackage}]
  \cup [kind : {"PlayMsg"}, playlist : Nat, message : Nat,
        file : Contents \cup {NoContent}]
  \cup [kind : {"MsgDone"}, play : Plays]
  \cup [kind : {"MsgDone?", "adjPos", "other"}]

ASSUME NamesAssumption ==
  NoContent \notin Contents /\ NoPackage \notin Packages
ASSUME PlaylistsAssumption == Playlists \in [Packages -> Seq(Seq(Contents))]
ASSUME TimesAssumption ==
  /\ Times \subseteq Nat /\ Elapsed \subseteq Nat /\ NoTime \notin Int
  /\ DayLength \in Nat \ {0}
ASSUME PlaysAssumption == Plays \subseteq [length : Int, played : Int]
ASSUME LogAssumption == Log \subseteq Lines
ASSUME BoundsAssumption == Lengths \in Seq(Nat) /\ Lengths # <<>>

VARIABLES
  file,      \* number of the log file being read
  stopped,   \* an exception has ended the reading of the file
  timeOfDay, \* timestamp_time_of_day
  base,      \* base_day
  latest,    \* latest_time
  awaiting,  \* awaiting_time
  package,   \* current_package
  message,   \* current_message
  timed,     \* current_message_started is not None; its value is not used
  tally,     \* content -> bucket -> plays counted (Statistics)
  heard,     \* history: the lines of the file read so far
  earlier    \* history: the tally before the file

context == <<timeOfDay, base, latest, awaiting, package, message, timed>>
logVars == <<file, stopped, context, tally, heard, earlier>>

\* Plays up to two seconds count in no bucket; their statistic exists.
Buckets == {"none", "started", "one_quarter", "half", "three_quarters",
            "completions"}

LogTypeOK ==
  /\ file \in DOMAIN Lengths
  /\ stopped \in BOOLEAN /\ timeOfDay \in BOOLEAN
  /\ base \in Int \cup {NoTime} /\ latest \in Int \cup {NoTime}
  /\ awaiting \in BOOLEAN /\ timed \in BOOLEAN
  /\ package \in Packages \cup {NoPackage}
  /\ message \in Contents \cup {NoContent}
  /\ tally \in [Contents -> [Buckets -> Nat]]
  /\ heard \in Seq(Log)
  /\ earlier \in [Contents -> [Buckets -> Nat]]

\* The context is a new LogContext: base_time is not used.
LogInit ==
  /\ file = 1 /\ stopped = FALSE
  /\ timeOfDay = TRUE /\ base = NoTime /\ latest = NoTime /\ awaiting = TRUE
  /\ package = NoPackage /\ message = NoContent /\ timed = FALSE
  /\ tally = [c \in Contents |-> [b \in Buckets |-> 0]]
  /\ heard = <<>>
  /\ earlier = tally

-----------------------------------------------------------------------------
(* The records.  The constructor of LogRecord runs first.                  *)

Day(t) == t - (t % DayLength)

\* The time of a clock reading that becomes the base of the time stamps.
Base(t) == IF timeOfDay THEN Day(t) ELSE t

\* base_day + elapsed, for the types that adjust the latest time.
Advance(e) == latest' = IF awaiting THEN latest ELSE base + e

\* Mutant: the time of the last boot is still taken to be known.
RebootKnowing(line) ==
  /\ line.kind = "REBOOT"
  /\ timeOfDay' = (timeOfDay /\ ~ line.old)
  /\ base' = NoTime
  /\ package' = NoPackage /\ message' = NoContent /\ timed' = FALSE
  /\ UNCHANGED <<latest, awaiting, tally>>

\* "BootKey: ' '" is a log of the old style, with times since the boot.  The
\* pattern does not match the BootKeys of the new style.
Reboot(line) ==
  /\ line.kind = "REBOOT"
  /\ timeOfDay' = (timeOfDay /\ ~ line.old)
  /\ base' = NoTime /\ awaiting' = TRUE
  /\ package' = NoPackage /\ message' = NoContent /\ timed' = FALSE
  /\ UNCHANGED <<latest, tally>>

\* The first reading after a boot sets the time, unless it lies before the
\* latest time seen; then the log waits for another one.
Rtc(line) ==
  /\ line.kind = "RTC"
  /\ IF awaiting /\ line.time # NoTime
        /\ (latest = NoTime \/ line.time >= latest)
     THEN base' = Base(line.time) /\ latest' = line.time /\ awaiting' = FALSE
     ELSE UNCHANGED <<base, latest, awaiting>>
  /\ UNCHANGED <<timeOfDay, package, message, timed, tally>>

\* setRTC and resetRTC set the base, but do not end the wait for the time.
SetRtc(line) ==
  /\ line.kind = "setRTC"
  /\ IF line.time = NoTime THEN base' = latest /\ UNCHANGED latest
     ELSE base' = Base(line.time) /\ latest' = line.time
  /\ UNCHANGED <<timeOfDay, awaiting, package, message, timed, tally>>

\* find_package: a name the deployment does not have selects no package.
ChgPkg(line, e) ==
  /\ line.kind = "ChgPkg"
  /\ Advance(e)
  /\ package' = line.package
  /\ UNCHANGED <<timeOfDay, base, awaiting, message, timed, tally>>

\* The message a PlayMsg names.  Without package or playlist the code raises
\* and falls back on the file name, if there is one; a playlist that lacks
\* the message answers None, without that fallback.
Named(pkg, line) ==
  IF pkg = NoPackage \/ line.playlist \notin DOMAIN Playlists[pkg]
  THEN line.file
  ELSE LET playlist == Playlists[pkg][line.playlist] IN
       IF line.message \in DOMAIN playlist THEN playlist[line.message]
       ELSE NoContent

\* A message that is not found leaves the one before in place.
PlayMsg(line, e) ==
  LET named == Named(package, line) IN
  /\ line.kind = "PlayMsg"
  /\ Advance(e)
  /\ IF named = NoContent THEN UNCHANGED <<message, timed>>
     ELSE message' = named /\ timed' = (latest' # NoTime)
  /\ UNCHANGED <<timeOfDay, base, awaiting, package, tally>>

\* A skip: the start becomes the latest time.
AdjPos(line, e) ==
  /\ line.kind = "adjPos"
  /\ Advance(e)
  /\ timed' = IF message = NoContent THEN timed ELSE latest' # NoTime
  /\ UNCHANGED <<timeOfDay, base, awaiting, package, message, tally>>

\* PlayStatistic.played: the share of the length but its last two seconds.
Bucket(play) ==
  LET whole == play.length - 2000 IN
  IF play.played > whole THEN "completions"
  ELSE IF 4 * play.played > 3 * whole THEN "three_quarters"
  ELSE IF 2 * play.played > whole THEN "half"
  ELSE IF 4 * play.played > whole THEN "one_quarter"
  ELSE IF play.played > 2000 THEN "started" ELSE "none"

\* "MsgDone?" does not match the pattern, and counts for nothing.
MsgDone(line, e) ==
  /\ line.kind \in {"MsgDone", "MsgDone?"}
  /\ Advance(e)
  /\ tally' = IF line.kind = "MsgDone" /\ message # NoContent /\ timed
              THEN [tally EXCEPT ![message][Bucket(line.play)] = @ + 1]
              ELSE tally
  /\ message' = NoContent /\ timed' = FALSE
  /\ UNCHANGED <<timeOfDay, base, awaiting, package>>

\* The records that only print.  Their fields are taken to be as the comments
\* in the code describe them: a thermistor reading (PwrCheck) that is no digit
\* would raise.
Other(line, e) ==
  /\ line.kind = "other"
  /\ Advance(e)
  /\ UNCHANGED <<timeOfDay, base, awaiting, package, message, timed, tally>>

\* base_day is None where a time stamp is to be computed.
NoBase == ~ awaiting /\ base = NoTime

\* A reading that is no date is compared with the latest time.
BadReading(line) == line.kind = "RTC" /\ ~ awaiting /\ line.time = NoTime

\* One line of the file (read, parse_log_record).
Read(line, e) ==
  /\ ~ stopped /\ Len(heard) < Lengths[file]
  /\ heard' = Append(heard, line)
  /\ IF NoBase \/ BadReading(line)
     THEN stopped' = TRUE /\ UNCHANGED <<context, tally>>
     ELSE /\ UNCHANGED stopped
          /\ \/ Reboot(line) \/ Rtc(line) \/ SetRtc(line)
             \/ ChgPkg(line, e) \/ PlayMsg(line, e) \/ AdjPos(line, e)
             \/ MsgDone(line, e) \/ Other(line, e)
  /\ UNCHANGED <<file, earlier>>

\* Mutant: the context goes on with the next file.
NextFileGoesOn ==
  /\ file < Len(Lengths)
  /\ file' = file + 1 /\ stopped' = FALSE
  /\ heard' = <<>> /\ earlier' = tally
  /\ UNCHANGED <<context, tally>>

\* The file ends; a message still open is dropped.
NextFile ==
  /\ file < Len(Lengths)
  /\ file' = file + 1 /\ stopped' = FALSE
  /\ timeOfDay' = TRUE /\ base' = NoTime /\ latest' = NoTime
  /\ awaiting' = TRUE /\ package' = NoPackage
  /\ message' = NoContent /\ timed' = FALSE
  /\ heard' = <<>> /\ earlier' = tally
  /\ UNCHANGED tally

LogNext == (\E line \in Log, e \in Elapsed : Read(line, e)) \/ NextFile

LogSpec == LogInit /\ [][LogNext]_logVars

-----------------------------------------------------------------------------
(* Properties.                                                             *)

\* A reboot forgets the base of the time stamps (logcontext.py:36), and the
\* stamp of every later line is computed from it until the time is set
\* (logrecord.py:115): where there was none the exception would end the file.
\* Whatever the order of boots and clock readings, that never happens; the
\* only line that ends a file is a reading that is no date (line 253).
StopsOnlyAtBadReading ==
  stopped => heard # <<>> /\ heard[Len(heard)].kind = "RTC"
                          /\ heard[Len(heard)].time = NoTime

(* What the lines of a log tell of the plays, without a context.           *)

\* ChgPkg in line k is in force before line i.
Selects(log, k, i) ==
  /\ log[k].kind = "ChgPkg"
  /\ \A l \in k + 1 .. i - 1 : log[l].kind \notin {"ChgPkg", "REBOOT"}

\* The package in force before line i.
InForce(log, i) ==
  IF \E k \in 1 .. i - 1 : Selects(log, k, i)
  THEN log[CHOOSE k \in 1 .. i - 1 : Selects(log, k, i)].package
  ELSE NoPackage

\* The message whose play line i begins.
Heard(log, i) ==
  IF log[i].kind = "PlayMsg" THEN Named(InForce(log, i), log[i]) ELSE NoContent

\* The play of c that line i begins is not over before line j, nor lost in a
\* reboot.  A PlayMsg that could not be resolved in between goes unnoticed.
Open(log, i, j, c) ==
  /\ Heard(log, i) = c
  /\ \A k \in i + 1 .. j - 1 :
       /\ log[k].kind \notin {"MsgDone", "MsgDone?", "REBOOT"}
       /\ Heard(log, k) = NoContent

\* The line makes the latest time known, if it was not.
Tells(line) == line.kind \in {"RTC", "setRTC"} /\ line.time # NoTime

\* The time was known when line i began its play, or when its listener last
\* skipped before line j.
Known(log, i, j) ==
  \E s \in 1 .. j - 1 :
    /\ Tells(log[s])
    /\ s < i \/ \E a \in s + 1 .. j - 1 : log[a].kind = "adjPos"

\* Line j ends a play of c that began in the same file and the same boot.
Ends(log, j, c) ==
  /\ log[j].kind = "MsgDone"
  /\ \E i \in 1 .. j - 1 : Open(log, i, j, c) /\ Known(log, i, j)

\* The lines that end a play of c in bucket b.
Finished(log, c, b) ==
  {j \in DOMAIN log : Ends(log, j, c) /\ Bucket(log[j].play) = b}

\* The statistics count exactly the plays the lines tell of: each MsgDone
\* once, for the message it ends, in the bucket of its share, and nothing
\* across a reboot, a file or an exception (PlayMsg, adjPos and MsgDone
\* communicate through the context only).
CountedAsHeard ==
  \A c \in Contents, b \in Buckets :
    tally[c][b] = earlier[c][b] + Cardinality(Finished(heard, c, b))
=============================================================================
