--------------------------- MODULE S3Import_proofs ---------------------------
(***************************************************************************)
(* Theorems about S3Import for any number of files, recordings, runs and   *)
(* faults: no file is lost, what is archived has been imported, and        *)
(* importing it again adds no more than copies under another date or uuid. *)
(***************************************************************************)
EXTENDS S3Import, TLAPS

\* A run in the middle of a file has written what it is done with, unless a
\* put has failed; a file that is about to be deleted is in the archive.
WorkInv ==
  \A r \in Runs :
    phase[r] \in {"work", "copied"} =>
      /\ file[r] \in Files
      /\ pending[r] \subseteq Wanted(file[r], mode[r])
      /\ ~ failed[r] =>
           \A item \in Wanted(file[r], mode[r]) \ pending[r] :
             Writes(item, draw[r], day[r]) \subseteq store
      /\ phase[r] = "copied" => \E c \in archive : c.file = file[r]

IInv == TypeOK /\ WorkInv /\ NothingLost /\ ArchivedIsImported

-----------------------------------------------------------------------------
(* What is wanted and what writing it leaves.                              *)

\* The items wanted for a file, one kind at a time.
LEMMA WantedItems ==
  ASSUME NEW f \in Files, NEW m \in Modes
  PROVE  /\ SavesS3(m) => [kind |-> "processed", of |-> f] \in Wanted(f, m)
         /\ SavesS3(m) /\ SavesUf(m) => \A rec \in Recordings[f] :
              [kind |-> "mp3", of |-> rec] \in Wanted(f, m)
         /\ SavesUf(m) => \A rec \in Recordings[f] :
              [kind |-> "properties", of |-> rec] \in Wanted(f, m)
         /\ SavesUf(m) /\ Recordings[f] # {} =>
              [kind |-> "uf_messages", of |-> f] \in Wanted(f, m)
         /\ SavesDb(m) => \A t \in Tables[f] :
              [kind |-> t, of |-> f] \in Wanted(f, m)
  BY DEF Wanted

\* There are no others, and they are items.
LEMMA WantedOnly ==
  ASSUME NEW f \in Files, NEW m \in Modes, NEW item \in Wanted(f, m)
  PROVE  /\ item \in Item
         /\ \/ item = [kind |-> "processed", of |-> f]
            \/ \E rec \in Recordings[f] : \E kind \in {"mp3", "properties"} :
                 item = [kind |-> kind, of |-> rec]
            \/ item = [kind |-> "uf_messages", of |-> f]
            \/ \E t \in Tables[f] : item = [kind |-> t, of |-> f]
<1>1. Recordings[f] \subseteq AllRecordings
  BY DEF AllRecordings
<1>2. Tables[f] \subseteq DataTables
  BY TablesAssumption
<1>3. \/ item \in [kind : {"processed"}, of : {f}]
      \/ item \in [kind : {"mp3"}, of : Recordings[f]]
      \/ item \in [kind : {"properties"}, of : Recordings[f]]
      \/ item \in [kind : {"uf_messages"}, of : {f}]
      \/ item \in [kind : Tables[f], of : {f}]
  BY DEF Wanted
<1>4. QED
  BY <1>1, <1>2, <1>3 DEF Item, Kinds, Puts

\* What an item leaves in the store are entries.
LEMMA WritesEntries ==
  ASSUME NEW f \in Files, NEW m \in Modes, NEW item \in Wanted(f, m),
         NEW n \in Nat, NEW d \in Nat
  PROVE  Writes(item, n, d) \subseteq Entry
<1>1. item \in Item
  BY WantedOnly
<1>2. \A rec : Uuid(rec, n) \in Nat
  BY DEF Uuid
<1>3. item.kind = "uf_messages" => item.of = f
  BY WantedOnly, TablesAssumption DEF DataTables
<1>4. Recordings[f] \subseteq AllRecordings
  BY DEF AllRecordings
<1>5. CASE item.kind = "uf_messages"
  BY <1>2, <1>3, <1>4, <1>5 DEF Writes, Entry, Kinds
<1>6. CASE item.kind # "uf_messages"
  <2>1. \/ Writes(item, n, d) =
             {[kind |-> item.kind, of |-> item.of, id |-> Uuid(item.of, n)]}
        \/ Writes(item, n, d) =
             {[kind |-> item.kind, of |-> item.of, id |-> d]}
        \/ Writes(item, n, d) =
             {[kind |-> item.kind, of |-> item.of, id |-> 0]}
    BY <1>6 DEF Writes
  <2>2. QED
    BY <1>1, <1>2, <2>1 DEF Entry, Item
<1>7. QED
  BY <1>5, <1>6

Imported(f, m, d) ==
  /\ SavesS3(m) => Has("processed", f, d)
  /\ SavesDb(m) => \A t \in Tables[f] : Has(t, f, 0)
  /\ SavesUf(m) => \A rec \in Recordings[f] : RecordingImported(rec, m)

\* When all that is wanted has been written, the file is imported.
LEMMA AllWrittenIsImported ==
  ASSUME NEW f \in Files, NEW m \in Modes, NEW n \in 0 .. MaxDrawn,
         NEW d,
         \A item \in Wanted(f, m) : Writes(item, n, d) \subseteq store
  PROVE  Imported(f, m, d)
<1>1. SavesS3(m) => Has("processed", f, d)
  BY WantedItems DEF Writes, Has
<1>2. SavesDb(m) => \A t \in Tables[f] : Has(t, f, 0)
  <2>1. ASSUME SavesDb(m), NEW t \in Tables[f] PROVE Has(t, f, 0)
    <3>1. t \in DataTables
      BY TablesAssumption
    <3>2. [kind |-> t, of |-> f] \in Wanted(f, m)
      BY <2>1, WantedItems
    <3>3. Writes([kind |-> t, of |-> f], n, d)
            = {[kind |-> t, of |-> f, id |-> 0]}
      BY <3>1 DEF Writes, DataTables
    <3>4. QED
      BY <3>2, <3>3 DEF Has
  <2>2. QED
    BY <2>1
<1>3. ASSUME SavesUf(m), NEW rec \in Recordings[f]
      PROVE  RecordingImported(rec, m)
  <2> DEFINE k == Uuid(rec, n)
  <2>1. k \in 0 .. MaxDrawn /\ (rec \in Named => k = 0)
    BY BoundsAssumption DEF Uuid
  <2>2. Has("properties", rec, k) /\ (SavesS3(m) => Has("mp3", rec, k))
    BY <1>3, WantedItems DEF Writes, Has
  <2>3. Has("uf_messages", rec, k)
    <3>1. [kind |-> "uf_messages", of |-> f] \in Wanted(f, m)
      BY <1>3, WantedItems
    <3>2. [kind |-> "uf_messages", of |-> rec, id |-> k]
             \in Writes([kind |-> "uf_messages", of |-> f], n, d)
      BY DEF Writes
    <3>3. QED
      BY <3>1, <3>2 DEF Has
  <2>4. QED
    BY <2>1, <2>2, <2>3 DEF RecordingImported
<1>4. QED
  BY <1>1, <1>2, <1>3 DEF Imported

\* What an import may add to that of a file that was imported without options
\* on day d.
LEMMA ImportedHasAll ==
  ASSUME NEW f \in Files, NEW m \in Modes, NEW n \in 0 .. MaxDrawn,
         NEW d, NEW e, NEW item \in Wanted(f, m),
         NEW entry \in Writes(item, n, e),
         Imported(f, {}, d), entry \notin store
  PROVE  \/ entry.kind = "processed" /\ entry.of = f /\ entry.id = e
         \/ /\ entry.kind \in {"mp3", "properties", "uf_messages"}
            /\ entry.of \in Recordings[f] \ Named
            /\ entry.id = n
<1>1. SavesS3({}) /\ SavesDb({}) /\ SavesUf({})
  BY DEF SavesS3, SavesDb, SavesUf
<1>2. \A rec \in Recordings[f] \cap Named :
        /\ Has("uf_messages", rec, 0) /\ Has("properties", rec, 0)
        /\ Has("mp3", rec, 0) /\ Uuid(rec, n) = 0
  BY <1>1 DEF Imported, RecordingImported, Uuid
<1>3. \A rec \in Recordings[f] \ Named : Uuid(rec, n) = n
  BY DEF Uuid
<1>4. CASE item = [kind |-> "processed", of |-> f]
  BY <1>4 DEF Writes
<1>5. CASE \E rec \in Recordings[f] : \E kind \in {"mp3", "properties"} :
             item = [kind |-> kind, of |-> rec]
  <2>1. PICK rec \in Recordings[f], kind \in {"mp3", "properties"} :
          item = [kind |-> kind, of |-> rec]
    BY <1>5
  <2>2. entry = [kind |-> kind, of |-> rec, id |-> Uuid(rec, n)]
    BY <2>1 DEF Writes
  <2>3. rec \notin Named
    BY <1>2, <2>1, <2>2 DEF Has
  <2>4. QED
    BY <1>3, <2>1, <2>2, <2>3
<1>6. CASE item = [kind |-> "uf_messages", of |-> f]
  <2>1. PICK rec \in Recordings[f] :
          entry = [kind |-> "uf_messages", of |-> rec, id |-> Uuid(rec, n)]
    BY <1>6 DEF Writes
  <2>2. rec \notin Named
    BY <1>2, <2>1 DEF Has
  <2>3. QED
    BY <1>3, <2>1, <2>2
<1>7. CASE \E t \in Tables[f] : item = [kind |-> t, of |-> f]
  <2>1. PICK t \in Tables[f] : item = [kind |-> t, of |-> f]
    BY <1>7
  <2>2. t \in DataTables
    BY TablesAssumption
  <2>3. Writes(item, n, e) = {[kind |-> t, of |-> f, id |-> 0]}
    BY <2>1, <2>2 DEF Writes, DataTables
  <2>4. QED
    BY <1>1, <2>3 DEF Imported, Has
<1>8. QED
  BY <1>4, <1>5, <1>6, <1>7, WantedOnly

-----------------------------------------------------------------------------
(* The invariant.                                                          *)

\* Nothing has been uploaded at the start.
LEMMA InitInv == Init => IInv
<1> SUFFICES ASSUME Init PROVE IInv
  OBVIOUS
<1>1. TypeOK
  BY ModesAssumption, BoundsAssumption DEF Init, TypeOK
<1>2. WorkInv /\ NothingLost /\ ArchivedIsImported
  BY DEF Init, WorkInv, NothingLost, ArchivedIsImported
<1>3. QED
  BY <1>1, <1>2 DEF IInv

\* What is imported stays imported while the store grows.
LEMMA ImportedStays ==
  ASSUME ArchivedIsImported, archive' = archive, store \subseteq store'
  PROVE  ArchivedIsImported'
  BY DEF ArchivedIsImported, RecordingImported, Has

\* Ending a run or going on to its next file keeps the types of its locals
\* and takes it out of the middle of a file.
LEMMA DropInv ==
  ASSUME IInv, NEW r \in Runs, NEW to \in {"idle", "next"},
         Drop(r), phase' = [phase EXCEPT ![r] = to],
         queue' = queue \/ queue' = [queue EXCEPT ![r] = {}],
         day' = day \/ day' = [day EXCEPT ![r] = 0],
         archive' = archive, store' = store
  PROVE  /\ phase' \in [Runs -> {"idle", "next", "work", "copied"}]
         /\ mode' \in [Runs -> Modes]
         /\ day' \in [Runs -> 0 .. MaxDays]
         /\ queue' \in [Runs -> SUBSET Files]
         /\ file' \in [Runs -> Files \cup {NoFile}]
         /\ draw' \in [Runs -> 0 .. MaxDrawn]
         /\ pending' \in [Runs -> SUBSET Item]
         /\ failed' \in [Runs -> BOOLEAN]
         /\ WorkInv'
<1>1. TypeOK /\ WorkInv
  BY DEF IInv
<1>2. /\ phase' \in [Runs -> {"idle", "next", "work", "copied"}]
      /\ mode' \in [Runs -> Modes]
      /\ queue' \in [Runs -> SUBSET Files]
  BY <1>1 DEF TypeOK, Drop
<1>3. /\ file' \in [Runs -> Files \cup {NoFile}]
      /\ draw' \in [Runs -> 0 .. MaxDrawn]
      /\ day' \in [Runs -> 0 .. MaxDays]
  BY <1>1, BoundsAssumption DEF TypeOK, Drop
<1>4. /\ pending' \in [Runs -> SUBSET Item]
      /\ failed' \in [Runs -> BOOLEAN]
  BY <1>1 DEF TypeOK, Drop
<1>5. WorkInv'
  <2>1. phase'[r] = to
    BY <1>1 DEF TypeOK
  <2>2. \A q \in Runs : q # r =>
          /\ phase'[q] = phase[q] /\ file'[q] = file[q] /\ mode'[q] = mode[q]
          /\ pending'[q] = pending[q] /\ failed'[q] = failed[q]
          /\ draw'[q] = draw[q] /\ day'[q] = day[q]
    BY <1>1 DEF TypeOK, Drop
  <2>3. QED
    BY <1>1, <2>1, <2>2 DEF WorkInv
<1>6. QED
  BY <1>2, <1>3, <1>4, <1>5

\* A step that only ends a run, or only takes it to its next file.
LEMMA StopInv ==
  ASSUME IInv, NEW r \in Runs, Stop(r) \/ Proceed(r),
         UNCHANGED <<uploaded, source, archive, store>>,
         drawn' = drawn, today' = today, faults' \in 0 .. MaxFaults,
         manual' = manual
  PROVE  IInv'
<1>1. Drop(r) /\ archive' = archive /\ store' = store
  BY DEF Stop, Proceed
<1>2. PICK to \in {"idle", "next"} :
        /\ phase' = [phase EXCEPT ![r] = to]
        /\ queue' = queue \/ queue' = [queue EXCEPT ![r] = {}]
        /\ day' = day \/ day' = [day EXCEPT ![r] = 0]
  BY DEF Stop, Proceed
<1>3. TypeOK' /\ WorkInv'
  BY <1>1, <1>2, DropInv DEF IInv, TypeOK
<1>4. NothingLost' /\ ArchivedIsImported'
  BY ImportedStays DEF IInv, NothingLost
<1>5. QED
  BY <1>3, <1>4 DEF IInv

\* A fault is counted.
LEMMA FaultCounts == TypeOK /\ Fault => faults' \in 0 .. MaxFaults
  BY BoundsAssumption DEF TypeOK, Fault

-----------------------------------------------------------------------------
(* The steps, one lemma each.                                              *)

\* An upload adds to what may not be lost, and to where it is.
LEMMA UploadInv ==
  ASSUME IInv, NEW f \in Files, Upload(f)
  PROVE  IInv'
<1>1. TypeOK'
  BY DEF IInv, TypeOK, Upload, run
<1>2. WorkInv'
  BY DEF IInv, WorkInv, Upload, run
<1>3. NothingLost' /\ ArchivedIsImported'
  BY ImportedStays DEF IInv, NothingLost, Upload
<1>4. QED
  BY <1>1, <1>2, <1>3 DEF IInv

\* A new date changes nothing that is there.
LEMMA MidnightInv ==
  ASSUME IInv, Midnight
  PROVE  IInv'
<1>1. TypeOK'
  BY BoundsAssumption DEF IInv, TypeOK, Midnight, run
<1>2. WorkInv'
  BY DEF IInv, WorkInv, Midnight, run
<1>3. NothingLost' /\ ArchivedIsImported'
  BY ImportedStays DEF IInv, NothingLost, Midnight
<1>4. QED
  BY <1>1, <1>2, <1>3 DEF IInv

\* A run starts outside any file.
LEMMA StartInv ==
  ASSUME IInv, NEW r \in Runs, NEW m \in Modes,
         NEW listed \in SUBSET Files, Start(r, m, listed)
  PROVE  IInv'
<1>1. manual' \in 0 .. MaxManual
  BY BoundsAssumption DEF IInv, TypeOK, Start
<1>2. TypeOK'
  BY <1>1 DEF IInv, TypeOK, Start
<1>3. WorkInv'
  <2>1. phase'[r] = "next" /\ \A q \in Runs : q # r =>
          phase'[q] = phase[q] /\ mode'[q] = mode[q] /\ day'[q] = day[q]
    BY DEF IInv, TypeOK, Start
  <2>2. QED
    BY <2>1 DEF IInv, WorkInv, Start
<1>4. NothingLost' /\ ArchivedIsImported'
  BY ImportedStays DEF IInv, NothingLost, Start
<1>5. QED
  BY <1>2, <1>3, <1>4 DEF IInv

\* A run that takes a file has everything for it still to write.
LEMMA FetchInv ==
  ASSUME IInv, NEW r \in Runs, NEW f \in Files, Fetch(r, f)
  PROVE  IInv'
<1>1. TypeOK /\ WorkInv
  BY DEF IInv
<1>2. CASE Stop(r) /\ UNCHANGED drawn /\ (UNCHANGED faults \/ Fault)
  <2>1. faults' \in 0 .. MaxFaults
    BY <1>1, <1>2, FaultCounts DEF TypeOK
  <2>2. QED
    BY <1>2, <2>1, StopInv DEF Fetch
<1>3. CASE ~ (Stop(r) /\ UNCHANGED drawn /\ (UNCHANGED faults \/ Fault))
  <2> DEFINE n == IF Draws(f) THEN drawn[f] + 1 ELSE drawn[f]
  <2>1. /\ phase' = [phase EXCEPT ![r] = "work"]
        /\ queue' = [queue EXCEPT ![r] = queue[r] \ {f}]
        /\ file' = [file EXCEPT ![r] = f]
        /\ drawn' = [drawn EXCEPT ![f] = n]
        /\ draw' = [draw EXCEPT ![r] = drawn'[f]]
        /\ pending' = [pending EXCEPT ![r] = Wanted(f, mode[r])]
        /\ Draws(f) => drawn[f] < MaxDrawn
        /\ UNCHANGED <<mode, day, failed, faults, uploaded, source, archive,
                       store, today, manual>>
    BY <1>1, <1>3 DEF Fetch, TypeOK
  <2>2. n \in 0 .. MaxDrawn
    BY <1>1, <2>1, BoundsAssumption DEF TypeOK
  <2> HIDE DEF n
  <2>3. drawn'[f] = n
    BY <1>1, <2>1 DEF TypeOK
  <2>4. Wanted(f, mode[r]) \subseteq Item
    BY <1>1, WantedOnly DEF TypeOK
  <2>5. TypeOK'
    BY <1>1, <2>1, <2>2, <2>3, <2>4 DEF TypeOK
  <2>6. WorkInv'
    <3>1. /\ phase'[r] = "work" /\ file'[r] = f /\ mode'[r] = mode[r]
          /\ pending'[r] = Wanted(f, mode[r])
      BY <1>1, <2>1 DEF TypeOK
    <3>2. \A q \in Runs : q # r =>
            /\ phase'[q] = phase[q] /\ file'[q] = file[q]
            /\ mode'[q] = mode[q] /\ pending'[q] = pending[q]
            /\ failed'[q] = failed[q] /\ draw'[q] = draw[q]
            /\ day'[q] = day[q]
      BY <1>1, <2>1 DEF TypeOK
    <3>3. archive' = archive /\ store' = store
      BY <2>1
    <3>4. QED
      BY <1>1, <3>1, <3>2, <3>3 DEF WorkInv
  <2>7. NothingLost' /\ ArchivedIsImported'
    BY <2>1, ImportedStays DEF IInv, NothingLost
  <2>8. QED
    BY <2>5, <2>6, <2>7 DEF IInv
<1>4. QED
  BY <1>2, <1>3

\* An item that has been dealt with: what it writes is in the store, or the
\* run knows that a put has failed.
LEMMA ItemDone ==
  ASSUME IInv, NEW r \in Runs, phase[r] = "work",
         NEW item \in pending[r],
         pending' = [pending EXCEPT ![r] = pending[r] \ {item}],
         UNCHANGED <<phase, mode, day, queue, file, draw, uploaded, source,
                     archive, drawn, today, manual>>,
         faults' \in 0 .. MaxFaults,
         \/ /\ store' = store \cup Writes(item, draw[r], day[r])
            /\ failed' = failed
         \/ store' = store /\ failed' = [failed EXCEPT ![r] = TRUE]
  PROVE  IInv'
<1>1. TypeOK /\ WorkInv
  BY DEF IInv
<1>2. /\ file[r] \in Files /\ mode[r] \in Modes /\ draw[r] \in Nat
      /\ day[r] \in Nat
      /\ item \in Wanted(file[r], mode[r])
  BY <1>1, BoundsAssumption DEF TypeOK, WorkInv
<1>3. store \subseteq store' /\ store' \subseteq Entry
  BY <1>1, <1>2, WritesEntries DEF TypeOK
<1>4. TypeOK'
  BY <1>1, <1>3 DEF TypeOK
<1>5. WorkInv'
  <2>1. SUFFICES ASSUME NEW q \in Runs, phase[q] \in {"work", "copied"}
                 PROVE  /\ file[q] \in Files
                        /\ pending'[q] \subseteq Wanted(file[q], mode[q])
                        /\ ~ failed'[q] =>
                             \A i \in Wanted(file[q], mode[q]) \ pending'[q] :
                               Writes(i, draw[q], day[q]) \subseteq store'
                        /\ phase[q] = "copied" =>
                             \E c \in archive : c.file = file[q]
    BY DEF WorkInv
  <2>2. CASE q # r
    <3>1. pending'[q] = pending[q] /\ failed'[q] = failed[q]
      BY <1>1, <2>2 DEF TypeOK
    <3>2. QED
      BY <1>1, <1>3, <2>1, <3>1 DEF WorkInv
  <2>3. CASE q = r
    <3>1. pending'[r] = pending[r] \ {item}
      BY <1>1 DEF TypeOK
    <3>2. ~ failed'[r] => ~ failed[r]
            /\ store' = store \cup Writes(item, draw[r], day[r])
      BY <1>1 DEF TypeOK
    <3>3. QED
      BY <1>1, <1>3, <2>1, <2>3, <3>1, <3>2 DEF WorkInv
  <2>4. QED
    BY <2>2, <2>3
<1>6. NothingLost' /\ ArchivedIsImported'
  BY <1>3, ImportedStays DEF IInv, NothingLost
<1>7. QED
  BY <1>4, <1>5, <1>6 DEF IInv

\* A put writes, is counted as failed, or ends the run.
LEMMA PutInv ==
  ASSUME IInv, NEW r \in Runs, NEW item \in pending[r], Put(r, item)
  PROVE  IInv'
<1>1. Fault => faults' \in 0 .. MaxFaults
  BY FaultCounts DEF IInv
<1>2. CASE Stop(r) /\ Fault /\ UNCHANGED store
  BY <1>1, <1>2, StopInv DEF Put
<1>3. CASE ~ (Stop(r) /\ Fault /\ UNCHANGED store)
  BY <1>1, <1>3, ItemDone DEF Put, IInv, TypeOK
<1>4. QED
  BY <1>2, <1>3

\* An INSERT is committed, or ends the run.
LEMMA InsertInv ==
  ASSUME IInv, NEW r \in Runs, NEW item \in pending[r], Insert(r, item)
  PROVE  IInv'
<1>1. faults' \in 0 .. MaxFaults
  BY FaultCounts DEF IInv, TypeOK, Insert
<1>2. CASE Stop(r) /\ UNCHANGED store
  BY <1>1, <1>2, StopInv DEF Insert
<1>3. CASE ~ (Stop(r) /\ UNCHANGED store)
  BY <1>1, <1>3, ItemDone DEF Insert
<1>4. QED
  BY <1>2, <1>3

\* A copy is made of a file that has been imported.
LEMMA CopyInv ==
  ASSUME IInv, NEW r \in Runs, Copy(r)
  PROVE  IInv'
<1> DEFINE c == ArchiveCopy(r)
<1>1. TypeOK /\ WorkInv
  BY DEF IInv
<1>2. faults' \in 0 .. MaxFaults
  BY <1>1, FaultCounts DEF TypeOK, Copy
<1>3. CASE UNCHANGED archive /\ (Stop(r) \/ Proceed(r))
  BY <1>2, <1>3, StopInv DEF Copy
<1>4. CASE ~ (UNCHANGED archive /\ (Stop(r) \/ Proceed(r)))
  <2>1. /\ archive' = archive \cup {c}
        /\ phase' = [phase EXCEPT ![r] = "copied"]
        /\ UNCHANGED <<mode, day, queue, file, draw, pending, failed, faults,
                       uploaded, source, store, drawn, today, manual>>
        /\ phase[r] = "work" /\ pending[r] = {} /\ ~ failed[r]
    BY <1>4 DEF Copy, MayMove
  <2>2. /\ file[r] \in Files /\ mode[r] \in Modes
        /\ draw[r] \in 0 .. MaxDrawn /\ day[r] \in 0 .. MaxDays
    BY <1>1, <2>1 DEF TypeOK, WorkInv
  <2>3. /\ c \in Copies
        /\ c.file = file[r] /\ c.mode = mode[r] /\ c.day = day[r]
    BY <2>2 DEF Copies, ArchiveCopy
  <2>4. Imported(file[r], mode[r], day[r])
    <3>1. \A item \in Wanted(file[r], mode[r]) :
            Writes(item, draw[r], day[r]) \subseteq store
      BY <1>1, <2>1 DEF WorkInv
    <3>2. QED
      BY <2>2, <3>1, AllWrittenIsImported
  <2> HIDE DEF c
  <2>5. TypeOK'
    BY <1>1, <2>1, <2>3 DEF TypeOK
  <2>6. WorkInv'
    <3>1. phase'[r] = "copied" /\ \A q \in Runs : q # r => phase'[q] = phase[q]
      BY <1>1, <2>1 DEF TypeOK
    <3>2. QED
      BY <1>1, <2>1, <2>3, <3>1 DEF WorkInv
  <2>7. NothingLost'
    BY <2>1 DEF IInv, NothingLost
  <2>8. ArchivedIsImported'
    <3>1. ArchivedIsImported
      BY DEF IInv
    <3>2. QED
      BY <2>1, <2>3, <2>4, <3>1
      DEF ArchivedIsImported, Imported, RecordingImported, Has
  <2>9. QED
    BY <2>5, <2>6, <2>7, <2>8 DEF IInv
<1>5. QED
  BY <1>3, <1>4

\* A file is deleted when a copy of it is in the archive.
LEMMA DeleteInv ==
  ASSUME IInv, NEW r \in Runs, Delete(r)
  PROVE  IInv'
<1>1. TypeOK /\ WorkInv /\ NothingLost
  BY DEF IInv
<1>2. faults' \in 0 .. MaxFaults
  BY <1>1, FaultCounts DEF TypeOK, Delete
<1>3. CASE source' = source
  BY <1>2, <1>3, StopInv DEF Delete
<1>4. CASE source' # source
  <2>1. /\ source' = source \ {file[r]} /\ Proceed(r)
        /\ UNCHANGED <<uploaded, archive, store, drawn, today, faults,
                       manual>>
        /\ phase[r] = "copied"
    BY <1>4 DEF Delete
  <2>2. TypeOK' /\ WorkInv'
    <3>1. /\ phase' = [phase EXCEPT ![r] = "next"] /\ Drop(r)
          /\ queue' = queue /\ day' = day
      BY <2>1 DEF Proceed
    <3>2. QED
      BY <1>1, <2>1, <3>1, DropInv DEF TypeOK
  <2>3. NothingLost'
    BY <1>1, <2>1 DEF NothingLost, WorkInv
  <2>4. ArchivedIsImported'
    BY <2>1, ImportedStays DEF IInv
  <2>5. QED
    BY <2>2, <2>3, <2>4 DEF IInv
<1>5. QED
  BY <1>3, <1>4

\* Every step of the runs and their surroundings preserves the invariant.
LEMMA NextInv == IInv /\ [Next]_vars => IInv'
<1> SUFFICES ASSUME IInv, [Next]_vars PROVE IInv'
  OBVIOUS
<1>1. CASE \E f \in Files : Upload(f)
  BY <1>1, UploadInv
<1>2. ASSUME NEW r \in Runs,
             \E m \in Modes, listed \in SUBSET Files : Start(r, m, listed)
      PROVE  IInv'
  BY <1>2, StartInv
<1>3. ASSUME NEW r \in Runs, Finish(r) \/ Leave(r) \/ Crash(r)
      PROVE  IInv'
  <2>1. faults' \in 0 .. MaxFaults
    BY <1>3, FaultCounts DEF IInv, TypeOK, Finish, Leave, Crash
  <2>2. QED
    BY <1>3, <2>1, StopInv DEF Finish, Leave, Crash
<1>4. ASSUME NEW r \in Runs, Step(r) PROVE IInv'
  BY <1>3, <1>4, FetchInv, PutInv, InsertInv, CopyInv, DeleteInv DEF Step
<1>5. CASE UNCHANGED vars
  <2>1. TypeOK'
    BY <1>5 DEF IInv, TypeOK, vars, run
  <2>2. WorkInv'
    BY <1>5 DEF IInv, WorkInv, vars, run
  <2>3. NothingLost' /\ ArchivedIsImported'
    BY <1>5, ImportedStays DEF IInv, NothingLost, vars
  <2>4. QED
    BY <2>1, <2>2, <2>3 DEF IInv
<1>6. CASE Midnight
  BY <1>6, MidnightInv
<1>7. QED
  BY <1>1, <1>2, <1>3, <1>4, <1>5, <1>6 DEF Next

\* The invariant holds whatever fails, crashes or overlaps.
THEOREM Invariant == Spec => []IInv
  BY InitInv, NextInv, PTL DEF Spec

\* Files, runs and the store keep their types.
THEOREM TypeCorrect == Spec => []TypeOK
<1>1. IInv => TypeOK
  BY DEF IInv
<1>2. QED
  BY <1>1, Invariant, PTL

\* No collected file is lost.
THEOREM FilesKept == Spec => []NothingLost
<1>1. IInv => NothingLost
  BY DEF IInv
<1>2. QED
  BY <1>1, Invariant, PTL

\* What is in the archive has been imported.
THEOREM ArchiveImported == Spec => []ArchivedIsImported
<1>1. IInv => ArchivedIsImported
  BY DEF IInv
<1>2. QED
  BY <1>1, Invariant, PTL

\* Only the write of an item changes the store, and with it the items that
\* the run has still to write.
LEMMA OnlyWritesChangeStore ==
  ASSUME TypeOK, [Next]_vars, store' # store
  PROVE  \E q \in Runs : \E item \in pending[q] :
           /\ store' = store \cup Writes(item, draw[q], day[q])
           /\ pending' = [pending EXCEPT ![q] = pending[q] \ {item}]
<1>1. PICK q \in Runs : \E item \in pending[q] :
        Put(q, item) \/ Insert(q, item)
  BY DEF Next, Step, vars, Upload, Midnight, Start, Crash, Fetch, Finish, Leave,
         Copy, Delete
<1>2. PICK item \in pending[q] : Put(q, item) \/ Insert(q, item)
  BY <1>1
<1>3. QED
  BY <1>2 DEF Put, Insert

\* Importing once more what was imported without options adds no row, and no
\* more than copies under another date and recordings under new uuids.
THEOREM RepeatsAddOnlyCopies == Spec => RepeatAddsOnlyCopies
<1>1. ASSUME IInv, [Next]_vars, NEW r \in Runs, Repeats(r),
             pending'[r] # pending[r], NEW entry \in store' \ store
      PROVE  OfAnotherDay(r, entry) \/ UnderNewUuid(r, entry)
  <2>1. TypeOK /\ WorkInv /\ ArchivedIsImported /\ phase[r] = "work"
    BY <1>1 DEF IInv, Repeats
  <2>2. PICK q \in Runs : \E item \in pending[q] :
          /\ store' = store \cup Writes(item, draw[q], day[q])
          /\ pending' = [pending EXCEPT ![q] = pending[q] \ {item}]
    BY <1>1, <2>1, OnlyWritesChangeStore
  <2>3. q = r
    BY <1>1, <2>1, <2>2 DEF TypeOK
  <2>4. PICK item \in pending[r] : entry \in Writes(item, draw[r], day[r])
    BY <1>1, <2>2, <2>3
  <2>5. /\ file[r] \in Files /\ mode[r] \in Modes /\ draw[r] \in 0 .. MaxDrawn
        /\ item \in Wanted(file[r], mode[r])
    BY <1>1, <2>1, <2>4 DEF TypeOK, WorkInv
  <2>6. \A c \in archive : c.file = file[r] /\ c.mode = {}
                            => Imported(file[r], {}, c.day)
    BY <2>1 DEF ArchivedIsImported, Imported
  <2>7. \/ entry.kind = "processed" /\ entry.of = file[r]
                                   /\ entry.id = day[r]
        \/ UnderNewUuid(r, entry)
    <3>1. PICK c \in archive : c.file = file[r] /\ c.mode = {}
      BY <1>1 DEF Repeats
    <3>2. QED
      BY <1>1, <2>4, <2>5, <2>6, <3>1, ImportedHasAll DEF UnderNewUuid
  <2>8. ASSUME entry.kind = "processed", entry.of = file[r],
               entry.id = day[r],
               NEW c \in archive, c.file = file[r], c.mode = {}
        PROVE  c.day # entry.id
    <3>1. Has("processed", file[r], c.day)
      BY <2>6, <2>8 DEF Imported, SavesS3
    <3>2. entry = [kind |-> "processed", of |-> file[r], id |-> day[r]]
      <4>1. item.kind = "processed" /\ item.of = file[r]
        BY <2>4, <2>5, <2>8, WantedOnly DEF Writes
      <4>2. QED
        BY <2>4, <4>1 DEF Writes
    <3>3. QED
      BY <1>1, <2>8, <3>1, <3>2 DEF Has
  <2>9. QED
    BY <2>7, <2>8 DEF OfAnotherDay
<1>2. IInv /\ [Next]_vars =>
        [\A r \in Runs :
           Repeats(r) /\ pending'[r] # pending[r] =>
             \A entry \in store' \ store :
               OfAnotherDay(r, entry) \/ UnderNewUuid(r, entry)]_vars
  BY <1>1
<1>3. QED
  BY <1>2, Invariant, PTL DEF Spec, RepeatAddsOnlyCopies
=============================================================================
