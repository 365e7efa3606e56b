------------------------ MODULE SpecPublish_proofs ------------------------
(***************************************************************************)
(* Theorems about SpecPublish, for any number of publications,             *)
(* deployments, objects and updates, and after them about SpecContent, for *)
(* any contents, stored or sent.                                           *)
(***************************************************************************)
EXTENDS SpecPublish, SpecContent, FiniteSetTheorems, Functions, TLAPS

Saved(r) == \E i \in DOMAIN records : records[i].publisher = r

\* What each phase has done already.
PhaseInv ==
  \A r \in Requests :
    /\ phase[r] \notin {"write", "done", "failed"} => written[r] = 0
    /\ phase[r] = "write" => written[r] < Files
    /\ phase[r] = "done" => written[r] = Files
    /\ Saved(r) => phase[r] \in {"write", "done", "failed"}

TInv == TypeOK /\ PhaseInv

\* Two requests in flight have met.
MetInv ==
  \A q, r \in Requests :
    InFlight(q) /\ InFlight(r) /\ q # r => q \in met[r]

\* A record made since a request looked for the newest one is by a request
\* it has met.
RecentInv ==
  \A r \in Requests :
    phase[r] = "save" =>
      /\ recent[r] \in 0 .. Len(records)
      /\ \A i \in DOMAIN records :
           i > recent[r] => records[i].publisher \in met[r]

HistoryInv == MetInv /\ RecentInv /\ LinearHistory

-----------------------------------------------------------------------------
\* Append keeps a sequence's elements and adds one.
LEMMA AppendFacts ==
  ASSUME NEW S, NEW s \in Seq(S), NEW x \in S
  PROVE  /\ Append(s, x) \in Seq(S)
         /\ Len(Append(s, x)) = Len(s) + 1
         /\ DOMAIN Append(s, x) = 1 .. Len(s) + 1
         /\ DOMAIN s = 1 .. Len(s) /\ Len(s) \in Nat
         /\ \A i \in DOMAIN s : Append(s, x)[i] = s[i]
         /\ Append(s, x)[Len(s) + 1] = x
OBVIOUS

\* What a request saves is a record.
NewRecord(r) ==
  [spec |-> project[r], publisher |-> r, previous |-> recent[r]]

LEMMA NewRecordType == TypeOK => \A r \in Requests : NewRecord(r) \in Record
BY DEF TypeOK, NewRecord, Record

\* Nothing has been published and no request has begun.
LEMMA InitTInv == Init => TInv
<1> SUFFICES ASSUME Init PROVE TInv
  OBVIOUS
<1>1. NoProject \in Project
  BY DEF NoProject, Project
<1>2. TypeOK
  <2>1. records \in Seq(Record) /\ version \in 0 .. MaxVersion
    BY MaxVersionAssumption DEF Init
  <2>2. /\ files \in [1 .. Files -> Project]
        /\ project \in [Requests -> Project]
    BY <1>1 DEF Init
  <2>3. /\ written \in [Requests -> 0 .. Files]
        /\ recent \in [Requests -> Nat]
    BY FilesAssumption DEF Init
  <2>4. QED
    BY <2>1, <2>2, <2>3 DEF Init, TypeOK
<1>3. PhaseInv
  <2>1. DOMAIN records = {}
    BY DEF Init
  <2>2. QED
    BY <2>1, FilesAssumption DEF Init, PhaseInv, Saved
<1>4. QED
  BY <1>2, <1>3 DEF TInv

\* One step of the program's editors or of a publication.
LEMMA NextTInv == TInv /\ [Next]_vars => TInv'
<1> SUFFICES ASSUME TInv, [Next]_vars PROVE TInv'
  OBVIOUS
<1> USE FilesAssumption, MaxVersionAssumption
<1>1. ASSUME NEW numbers \in SUBSET Deployments, Update(numbers) PROVE TInv'
  <2>1. TypeOK'
    BY <1>1 DEF TInv, TypeOK, Update
  <2>2. PhaseInv'
    BY <1>1 DEF TInv, PhaseInv, Update, Saved
  <2>3. QED
    BY <2>1, <2>2 DEF TInv
<1>2. ASSUME NEW r \in Requests, ReadProject(r) PROVE TInv'
  <2>1. project' \in [Requests -> Project]
    <3>1. version \in Nat /\ project \in [Requests -> Project]
      BY DEF TInv, TypeOK
    <3>2. [project[r] EXCEPT !.general = version] \in Project
      BY <3>1 DEF Project
    <3>3. project' = [project EXCEPT
                        ![r] = [project[r] EXCEPT !.general = version]]
      BY <1>2 DEF ReadProject
    <3>4. QED
      BY <3>1, <3>2, <3>3
  <2>2. met' \in [Requests -> SUBSET Requests]
    BY <1>2 DEF TInv, TypeOK, ReadProject
  <2>3. TypeOK'
    BY <1>2, <2>1, <2>2 DEF TInv, TypeOK, ReadProject, Goto
  <2>4. PhaseInv'
    BY <1>2 DEF TInv, TypeOK, PhaseInv, ReadProject, Goto, Saved
  <2>5. QED
    BY <2>3, <2>4 DEF TInv
<1>3. ASSUME NEW r \in Requests, ReadDeployments(r) PROVE TInv'
  <2>1. project' \in [Requests -> Project]
    <3>1. version \in Nat /\ deployments \in SUBSET Deployments
      BY DEF TInv, TypeOK
    <3>2. QED
      BY <1>3, <3>1 DEF TInv, TypeOK, ReadDeployments, Project
  <2>2. TypeOK'
    BY <1>3, <2>1 DEF TInv, TypeOK, ReadDeployments, Goto
  <2>3. PhaseInv'
    BY <1>3 DEF TInv, TypeOK, PhaseInv, ReadDeployments, Goto, Saved
  <2>4. QED
    BY <2>2, <2>3 DEF TInv
<1>4. ASSUME NEW r \in Requests, Mark(r) PROVE TInv'
  <2>1. TypeOK'
    BY <1>4 DEF TInv, TypeOK, Mark, Goto
  <2>2. PhaseInv'
    BY <1>4 DEF TInv, TypeOK, PhaseInv, Mark, Goto, Saved
  <2>3. QED
    BY <2>1, <2>2 DEF TInv
<1>5. ASSUME NEW r \in Requests, FindRecent(r) PROVE TInv'
  <2>1. Len(records) \in Nat
    BY DEF TInv, TypeOK
  <2>2. TypeOK'
    BY <1>5, <2>1 DEF TInv, TypeOK, FindRecent, Goto
  <2>3. PhaseInv'
    BY <1>5 DEF TInv, TypeOK, PhaseInv, FindRecent, Goto, Saved
  <2>4. QED
    BY <2>2, <2>3 DEF TInv
<1>6. ASSUME NEW r \in Requests, Save(r) PROVE TInv'
  <2>1. records \in Seq(Record) /\ NewRecord(r) \in Record
    BY NewRecordType DEF TInv, TypeOK
  <2>2. records' = records \/ records' = Append(records, NewRecord(r))
    BY <1>6 DEF Save, NewRecord
  <2>3. TypeOK'
    <3>1. phase' = [phase EXCEPT ![r] = "write"]
            \/ phase' = [phase EXCEPT ![r] = "failed"]
      BY <1>6 DEF Save, Goto
    <3>2. UNCHANGED <<version, deployments, published, files, project, recent,
                      written, met>>
      BY <1>6 DEF Save
    <3>3. records' \in Seq(Record)
      BY <2>1, <2>2, AppendFacts
    <3>4. QED
      BY <3>1, <3>2, <3>3 DEF TInv, TypeOK
  <2>4. \A q \in Requests : Saved(q)' => q = r \/ Saved(q)
    <3>1. CASE records' = records
      BY <3>1 DEF Saved
    <3>2. CASE records' = Append(records, NewRecord(r))
      <4>1. /\ DOMAIN records' = DOMAIN records \cup {Len(records) + 1}
            /\ \A i \in DOMAIN records : records'[i] = records[i]
            /\ records'[Len(records) + 1] = NewRecord(r)
        BY <2>1, <3>2, AppendFacts
      <4>2. NewRecord(r).publisher = r
        BY DEF NewRecord
      <4>3. QED
        BY <4>1, <4>2 DEF Saved
    <3>3. QED
      BY <2>2, <3>1, <3>2
  <2>5. phase'[r] \in {"write", "failed"} /\ written[r] = 0
    BY <1>6 DEF TInv, TypeOK, PhaseInv, Save, Goto
  <2>6. PhaseInv'
    BY <1>6, <2>4, <2>5 DEF TInv, TypeOK, PhaseInv, Save, Goto
  <2>7. QED
    BY <2>3, <2>6 DEF TInv
<1>7. ASSUME NEW r \in Requests, Put(r) PROVE TInv'
  <2>1. written[r] \in 0 .. Files - 1 /\ phase[r] = "write"
    BY <1>7 DEF TInv, TypeOK, PhaseInv, Put
  <2>2. TypeOK'
    BY <1>7, <2>1 DEF TInv, TypeOK, Put, Goto
  <2>3. PhaseInv'
    BY <1>7, <2>1 DEF TInv, TypeOK, PhaseInv, Put, Goto, LastFile, Saved
  <2>4. QED
    BY <2>2, <2>3 DEF TInv
<1>8. ASSUME NEW r \in Requests, Fail(r) PROVE TInv'
  <2>1. TypeOK'
    BY <1>8 DEF TInv, TypeOK, Fail, Goto
  <2>2. PhaseInv'
    BY <1>8 DEF TInv, TypeOK, PhaseInv, Fail, Goto, Saved
  <2>3. QED
    BY <2>1, <2>2 DEF TInv
<1>9. CASE UNCHANGED vars
  BY <1>9 DEF TInv, TypeOK, PhaseInv, Saved, vars
<1>10. QED
  BY <1>1, <1>2, <1>3, <1>4, <1>5, <1>6, <1>7, <1>8, <1>9 DEF Next, Publish

\* Rows, objects and requests keep their types, whatever is published and
\* edited (publish and updateProgram).
THEOREM TypeCorrect == Spec => []TypeOK
<1>1. TInv => TypeOK
  BY DEF TInv
<1>2. QED
  BY InitTInv, NextTInv, <1>1, PTL DEF Spec

-----------------------------------------------------------------------------
\* A step that saves nothing, looks for nothing and begins nothing.
Quiet ==
  /\ UNCHANGED <<records, recent, met>>
  /\ \A r \in Requests :
       /\ phase'[r] = "save" => phase[r] = "save"
       /\ phase'[r] \notin {"new", "done", "failed"} => InFlight(r)

LEMMA QuietSteps ==
  ASSUME TInv, [Next]_vars
  PROVE  Quiet \/ \E r \in Requests :
                   ReadProject(r) \/ FindRecent(r) \/ Save(r)
<1>1. ASSUME NEW numbers \in SUBSET Deployments, Update(numbers) PROVE Quiet
  BY <1>1 DEF Update, Quiet, InFlight
<1>2. ASSUME NEW r \in Requests, ReadDeployments(r) PROVE Quiet
  BY <1>2 DEF TInv, TypeOK, ReadDeployments, Goto, Quiet, InFlight
<1>3. ASSUME NEW r \in Requests, Mark(r) PROVE Quiet
  <2>1. phase' = [phase EXCEPT ![r] = "recent"] /\ phase[r] = "mark"
    BY <1>3 DEF Mark, Goto
  <2>2. QED
    BY <1>3, <2>1 DEF TInv, TypeOK, Mark, Quiet, InFlight
<1>4. ASSUME NEW r \in Requests, Put(r) PROVE Quiet
  <2>1. phase' = [phase EXCEPT ![r] = "done"]
          \/ phase' = [phase EXCEPT ![r] = "write"]
    BY <1>4 DEF Put, Goto
  <2>2. phase[r] = "write" /\ UNCHANGED <<records, recent, met>>
    BY <1>4 DEF Put
  <2>3. QED
    BY <2>1, <2>2 DEF TInv, TypeOK, Quiet, InFlight
<1>5. ASSUME NEW r \in Requests, Fail(r) PROVE Quiet
  BY <1>5 DEF TInv, TypeOK, Fail, Goto, Quiet, InFlight
<1>6. CASE UNCHANGED vars
  BY <1>6 DEF vars, Quiet, InFlight
<1>7. QED
  BY <1>1, <1>2, <1>3, <1>4, <1>5, <1>6 DEF Next, Publish

\* Requests meet when the later of them begins.
LEMMA NextMetInv == TInv /\ MetInv /\ [Next]_vars => MetInv'
<1> SUFFICES ASSUME TInv, MetInv, [Next]_vars PROVE MetInv'
  OBVIOUS
<1>1. CASE Quiet
  BY <1>1 DEF Quiet, MetInv, InFlight
<1>2. ASSUME NEW r \in Requests, ReadProject(r) PROVE MetInv'
  <2> SUFFICES ASSUME NEW p \in Requests, NEW q \in Requests,
                      InFlight(p)', InFlight(q)', p # q
               PROVE  p \in met'[q]
    BY DEF MetInv
  <2>1. \A s \in Requests : s # r => phase'[s] = phase[s]
    BY <1>2 DEF TInv, TypeOK, ReadProject, Goto
  <2>2. met' = [s \in Requests |->
                  IF s = r THEN {t \in Requests : InFlight(t)}
                  ELSE IF InFlight(s) THEN met[s] \cup {r} ELSE met[s]]
    BY <1>2 DEF ReadProject
  <2>3. CASE q = r
    BY <2>1, <2>2, <2>3 DEF InFlight
  <2>4. CASE q # r /\ p = r
    BY <2>1, <2>2, <2>4 DEF InFlight
  <2>5. CASE q # r /\ p # r
    BY <2>1, <2>2, <2>5 DEF InFlight, MetInv
  <2>6. QED
    BY <2>3, <2>4, <2>5
<1>3. ASSUME NEW r \in Requests, FindRecent(r) PROVE MetInv'
  BY <1>3 DEF TInv, TypeOK, FindRecent, Goto, MetInv, InFlight
<1>4. ASSUME NEW r \in Requests, Save(r) PROVE MetInv'
  <2>1. /\ phase[r] = "save" /\ met' = met
        /\ phase' = [phase EXCEPT ![r] = "write"]
             \/ phase' = [phase EXCEPT ![r] = "failed"]
    BY <1>4 DEF Save, Goto
  <2>2. QED
    BY <2>1 DEF TInv, TypeOK, MetInv, InFlight
<1>5. QED
  BY <1>1, <1>2, <1>3, <1>4, QuietSteps

\* Whoever saves a record while another is about to save has met it.
LEMMA NextRecentInv ==
  TInv /\ MetInv /\ RecentInv /\ [Next]_vars => RecentInv'
<1> SUFFICES ASSUME TInv, MetInv, RecentInv, [Next]_vars,
                    NEW q \in Requests, phase'[q] = "save"
             PROVE  /\ recent'[q] \in 0 .. Len(records')
                    /\ \A i \in DOMAIN records' :
                         i > recent'[q] => records'[i].publisher \in met'[q]
  BY DEF RecentInv
<1> USE DEF TInv
<1>1. records \in Seq(Record)
  BY DEF TypeOK
<1>2. CASE Quiet
  BY <1>2 DEF Quiet, RecentInv
<1>3. ASSUME NEW r \in Requests, ReadProject(r)
      PROVE  /\ UNCHANGED <<records, recent>> /\ phase[q] = "save"
             /\ met[q] \subseteq met'[q]
  BY <1>3 DEF TypeOK, ReadProject, Goto, InFlight
<1>4. ASSUME NEW r \in Requests, FindRecent(r), q = r
      PROVE  recent'[q] = Len(records) /\ records' = records
  BY <1>4 DEF TypeOK, FindRecent
<1>5. ASSUME NEW r \in Requests, FindRecent(r), q # r
      PROVE  /\ UNCHANGED <<records, met>> /\ phase[q] = "save"
             /\ recent'[q] = recent[q]
  BY <1>5 DEF TypeOK, FindRecent, Goto
<1>6. ASSUME NEW r \in Requests, Save(r)
      PROVE  /\ UNCHANGED <<recent, met>> /\ phase[q] = "save"
             /\ q # r /\ r \in met[q]
             /\ records' = records \/ records' = Append(records, NewRecord(r))
  <2>1. phase[r] = "save" /\ UNCHANGED <<recent, met>>
    BY <1>6 DEF Save
  <2>2. phase' = [phase EXCEPT ![r] = "write"]
          \/ phase' = [phase EXCEPT ![r] = "failed"]
    BY <1>6 DEF Save, Goto
  <2>3. q # r /\ phase[q] = "save"
    BY <2>2 DEF TypeOK
  <2>4. r \in met[q]
    BY <2>1, <2>3 DEF MetInv, InFlight
  <2>5. records' = records \/ records' = Append(records, NewRecord(r))
    BY <1>6 DEF Save, NewRecord
  <2>6. QED
    BY <2>1, <2>3, <2>4, <2>5
<1>7. CASE \E r \in Requests : ReadProject(r)
  BY <1>3, <1>7 DEF RecentInv
<1>8. CASE \E r \in Requests : FindRecent(r)
  <2>1. PICK r \in Requests : FindRecent(r)
    BY <1>8
  <2>2. CASE q = r
    BY <1>1, <1>4, <2>1, <2>2
  <2>3. CASE q # r
    BY <1>5, <2>1, <2>3 DEF RecentInv
  <2>4. QED
    BY <2>2, <2>3
<1>9. CASE \E r \in Requests : Save(r)
  <2>1. PICK r \in Requests : Save(r)
    BY <1>9
  <2>2. CASE records' = records
    BY <1>6, <2>1, <2>2 DEF RecentInv
  <2>3. CASE records' = Append(records, NewRecord(r))
    <3>1. NewRecord(r) \in Record /\ NewRecord(r).publisher = r
      BY NewRecordType DEF NewRecord
    <3>2. /\ DOMAIN records' = 1 .. Len(records) + 1
          /\ DOMAIN records = 1 .. Len(records) /\ Len(records) \in Nat
          /\ Len(records') = Len(records) + 1
          /\ \A i \in DOMAIN records : records'[i] = records[i]
          /\ records'[Len(records) + 1] = NewRecord(r)
      BY <1>1, <2>3, <3>1, AppendFacts
    <3>3. /\ recent[q] \in 0 .. Len(records)
          /\ \A i \in DOMAIN records :
               i > recent[q] => records[i].publisher \in met[q]
      BY <1>6, <2>1 DEF RecentInv
    <3>4. \A i \in DOMAIN records' : i \in DOMAIN records \/ i = Len(records) + 1
      BY <3>2
    <3>5. r \in met[q] /\ UNCHANGED <<recent, met>>
      BY <1>6, <2>1
    <3>6. QED
      BY <3>1, <3>2, <3>3, <3>4, <3>5
  <2>4. QED
    BY <1>6, <2>1, <2>2, <2>3
<1>10. QED
  BY <1>2, <1>7, <1>8, <1>9, QuietSteps

\* A record follows the newest one, or was made by one that took itself for
\* the first; one that follows an older record is refused by the database.
LEMMA NextLinear ==
  TInv /\ HistoryInv /\ [Next]_vars => LinearHistory'
<1> SUFFICES ASSUME TInv, HistoryInv, [Next]_vars PROVE LinearHistory'
  OBVIOUS
<1> USE DEF TInv, HistoryInv
<1>1. records \in Seq(Record) /\ DOMAIN records = 1 .. Len(records)
        /\ Len(records) \in Nat
  BY DEF TypeOK
<1>2. CASE Quiet
  BY <1>2 DEF Quiet, LinearHistory, Roots
<1>3. ASSUME NEW r \in Requests, ReadProject(r) PROVE LinearHistory'
  <2>1. /\ records' = records /\ phase[r] = "new"
        /\ \A q \in Requests \ {r} : met[q] \subseteq met'[q]
    BY <1>3 DEF TypeOK, ReadProject, InFlight
  <2>2. \A i \in DOMAIN records : records[i].publisher \in Requests \ {r}
    <3> SUFFICES ASSUME NEW i \in DOMAIN records
                 PROVE  records[i].publisher \in Requests \ {r}
      OBVIOUS
    <3>1. records[i] \in Record
      BY <1>1
    <3>2. records[i].publisher \in Requests
      BY <3>1 DEF Record
    <3>3. QED
      BY <2>1, <3>2 DEF PhaseInv, Saved
  <2>3. QED
    BY <2>1, <2>2 DEF LinearHistory, Roots
<1>4. ASSUME NEW r \in Requests, FindRecent(r) PROVE LinearHistory'
  BY <1>4 DEF FindRecent, LinearHistory, Roots
<1>5. ASSUME NEW r \in Requests, Save(r), records' = records
      PROVE  LinearHistory'
  BY <1>5 DEF Save, LinearHistory, Roots
<1>6. ASSUME NEW r \in Requests, Save(r), records' # records
      PROVE  LinearHistory'
  <2>1. /\ records' = Append(records, NewRecord(r)) /\ Free(recent[r])
        /\ met' = met /\ phase[r] = "save"
    BY <1>6 DEF Save, NewRecord
  <2>2. /\ NewRecord(r) \in Record /\ NewRecord(r).publisher = r
        /\ NewRecord(r).previous = recent[r]
    BY NewRecordType DEF NewRecord
  <2> DEFINE n == Len(records)
  <2>3. /\ DOMAIN records' = 1 .. n + 1
        /\ \A i \in DOMAIN records : records'[i] = records[i]
        /\ records'[n + 1] = NewRecord(r)
    BY <1>1, <2>1, <2>2, AppendFacts
  <2>4. /\ recent[r] \in 0 .. n
        /\ \A i \in DOMAIN records :
             i > recent[r] => records[i].publisher \in met[r]
    BY <2>1 DEF RecentInv
  <2>5. CASE \E i, j \in Roots :
              i # j /\ records[i].publisher \in met[records[j].publisher]
    <3>1. \A i \in Roots : i \in DOMAIN records' /\ records'[i] = records[i]
      BY <1>1, <2>3 DEF Roots
    <3>2. \A i \in Roots : i \in Roots'
      BY <3>1 DEF Roots
    <3>3. QED
      BY <2>1, <2>5, <3>1, <3>2 DEF LinearHistory
  <2>6. CASE (\A i \in DOMAIN records : records[i].previous = i - 1)
               /\ recent[r] = n
    <3>1. \A i \in DOMAIN records' : i \in DOMAIN records \/ i = n + 1
      BY <1>1, <2>3
    <3>2. \A i \in DOMAIN records' : records'[i].previous = i - 1
      BY <1>1, <2>2, <2>3, <2>6, <3>1
    <3>3. QED
      BY <3>2 DEF LinearHistory
  <2>7. CASE (\A i \in DOMAIN records : records[i].previous = i - 1)
               /\ recent[r] # n /\ recent[r] # 0
    <3>1. recent[r] + 1 \in DOMAIN records
      BY <1>1, <2>4, <2>7
    <3>2. records[recent[r] + 1].previous = recent[r]
      BY <2>4, <2>7, <3>1
    <3>3. QED
      BY <2>1, <2>7, <3>1, <3>2 DEF Free
  <2>8. CASE (\A i \in DOMAIN records : records[i].previous = i - 1)
               /\ recent[r] # n /\ recent[r] = 0
    <3>1. 1 \in DOMAIN records /\ records[1].previous = 0
      BY <1>1, <2>4, <2>8
    <3>2. records[1].publisher \in met[r]
      BY <2>4, <2>8, <3>1
    <3>3. 1 \in Roots' /\ n + 1 \in Roots' /\ n + 1 # 1
      <4>1. 1 \in DOMAIN records' /\ records'[1].previous = 0
        BY <2>3, <3>1
      <4>2. n + 1 \in DOMAIN records' /\ records'[n + 1].previous = 0
        BY <1>1, <2>2, <2>3, <2>8
      <4>3. n + 1 # 1
        BY <1>1, <3>1
      <4>4. QED
        BY <4>1, <4>2, <4>3 DEF Roots
    <3>4. /\ records'[1].publisher = records[1].publisher
          /\ records'[n + 1].publisher = r
      BY <2>2, <2>3, <3>1
    <3>5. QED
      BY <2>1, <3>2, <3>3, <3>4 DEF LinearHistory
  <2>9. QED
    BY <2>5, <2>6, <2>7, <2>8 DEF LinearHistory
<1>7. QED
  BY <1>2, <1>3, <1>4, <1>5, <1>6, QuietSteps

LEMMA InitHistoryInv == Init => HistoryInv
BY DEF Init, HistoryInv, MetInv, RecentInv, LinearHistory, InFlight

\* The lookup of the newest record takes no lock, but the records are one
\* chain unless two overlapping publications were both the first (publish).
THEOREM OneHistory == Spec => []LinearHistory
<1> DEFINE IInv == TInv /\ HistoryInv
<1>1. Init => IInv
  BY InitTInv, InitHistoryInv
<1>2. IInv /\ [Next]_vars => IInv'
  BY NextTInv, NextMetInv, NextRecentInv, NextLinear DEF HistoryInv
<1>3. IInv => LinearHistory
  BY DEF HistoryInv
<1>4. QED
  BY <1>1, <1>2, <1>3, PTL DEF Spec

-----------------------------------------------------------------------------
Newest == records[Len(records)]

\* A saved record is what its publication goes on to write, and a publication
\* that still writes has met the one that made the newest record.
WriteInv ==
  /\ \A i \in DOMAIN records :
       records[i].spec = project[records[i].publisher]
  /\ records # <<>> =>
       /\ \A q \in Requests :
            phase[q] = "write" /\ q # Newest.publisher
              => q \in met[Newest.publisher]
       /\ phase[Newest.publisher] \in {"write", "done"}
            /\ met[Newest.publisher] = {}
          => \A i \in 1 .. written[Newest.publisher] :
               files[i] = Newest.spec

\* A step that neither saves a record nor writes an object.
Calm ==
  /\ UNCHANGED <<records, files, written>>
  /\ \A q \in Requests :
       /\ phase'[q] \in {"write", "done"} => phase[q] = phase'[q]
       /\ Saved(q) => project'[q] = project[q] /\ met[q] \subseteq met'[q]

LEMMA CalmSteps ==
  ASSUME TInv, [Next]_vars
  PROVE  Calm \/ \E r \in Requests :
                   Put(r) \/ (Save(r) /\ records' # records)
<1> USE DEF TInv
<1>1. ASSUME NEW numbers \in SUBSET Deployments, Update(numbers) PROVE Calm
  BY <1>1 DEF Update, Calm
<1>2. ASSUME NEW r \in Requests, ReadProject(r) PROVE Calm
  <2>1. phase[r] = "new" /\ ~Saved(r)
    BY <1>2 DEF ReadProject, PhaseInv
  <2>2. \A q \in Requests \ {r} :
          project'[q] = project[q] /\ met[q] \subseteq met'[q]
    BY <1>2 DEF TypeOK, ReadProject
  <2>3. \A q \in Requests :
          phase'[q] \in {"write", "done"} => phase[q] = phase'[q]
    BY <1>2 DEF TypeOK, ReadProject, Goto
  <2>4. QED
    BY <1>2, <2>1, <2>2, <2>3 DEF ReadProject, Calm
<1>3. ASSUME NEW r \in Requests, ReadDeployments(r) PROVE Calm
  <2>1. phase[r] = "deployments" /\ ~Saved(r)
    BY <1>3 DEF ReadDeployments, PhaseInv
  <2>2. \A q \in Requests \ {r} : project'[q] = project[q]
    BY <1>3 DEF TypeOK, ReadDeployments
  <2>3. \A q \in Requests :
          phase'[q] \in {"write", "done"} => phase[q] = phase'[q]
    BY <1>3 DEF TypeOK, ReadDeployments, Goto
  <2>4. QED
    BY <1>3, <2>1, <2>2, <2>3 DEF ReadDeployments, Calm
<1>4. ASSUME NEW r \in Requests, Mark(r) PROVE Calm
  BY <1>4 DEF TypeOK, Mark, Goto, Calm
<1>5. ASSUME NEW r \in Requests, FindRecent(r) PROVE Calm
  BY <1>5 DEF TypeOK, FindRecent, Goto, Calm
<1>6. ASSUME NEW r \in Requests, Save(r), records' = records PROVE Calm
  <2>1. phase' = [phase EXCEPT ![r] = "failed"]
    <3>1. records \in Seq(Record)
      BY DEF TypeOK
    <3>2. Append(records, NewRecord(r)) # records
      BY <3>1, NewRecordType, AppendFacts
    <3>3. QED
      BY <1>6, <3>2 DEF Save, Goto, NewRecord
  <2>2. UNCHANGED <<files, project, written, met>>
    BY <1>6 DEF Save
  <2>3. QED
    BY <1>6, <2>1, <2>2 DEF TypeOK, Calm
<1>7. ASSUME NEW r \in Requests, Fail(r) PROVE Calm
  BY <1>7 DEF TypeOK, Fail, Goto, Calm
<1>8. CASE UNCHANGED vars
  BY <1>8 DEF vars, Calm
<1>9. QED
  BY <1>1, <1>2, <1>3, <1>4, <1>5, <1>6, <1>7, <1>8 DEF Next, Publish

\* Publications that have not met do not write over each other's objects.
LEMMA NextWriteInv ==
  TInv /\ MetInv /\ WriteInv /\ [Next]_vars => WriteInv'
<1> SUFFICES ASSUME TInv, MetInv, WriteInv, [Next]_vars PROVE WriteInv'
  OBVIOUS
<1> USE DEF TInv
<1>1. records \in Seq(Record) /\ DOMAIN records = 1 .. Len(records)
        /\ Len(records) \in Nat
  BY DEF TypeOK
<1>2. records # <<>> => Len(records) \in DOMAIN records
  BY <1>1
<1>3. \A i \in DOMAIN records :
        records[i].publisher \in Requests /\ Saved(records[i].publisher)
  <2>1. \A i \in DOMAIN records : records[i] \in Record
    BY <1>1
  <2>2. QED
    BY <2>1 DEF Record, Saved
<1>4. CASE Calm
  <2>1. \A i \in DOMAIN records' :
          records'[i].spec = project'[records'[i].publisher]
    BY <1>3, <1>4 DEF Calm, WriteInv
  <2>2. ASSUME records # <<>>
        PROVE  /\ Newest' = Newest /\ Newest.publisher \in Requests
               /\ met[Newest.publisher] \subseteq met'[Newest.publisher]
    BY <1>2, <1>3, <1>4, <2>2 DEF Calm, Newest
  <2>3. ASSUME records # <<>>, NEW q \in Requests, phase'[q] = "write",
               q # Newest.publisher
        PROVE  q \in met'[Newest.publisher]
    BY <1>4, <2>2, <2>3 DEF Calm, WriteInv
  <2>4. ASSUME records # <<>>, met'[Newest.publisher] = {},
               phase'[Newest.publisher] \in {"write", "done"}
        PROVE  \A i \in 1 .. written[Newest.publisher] :
                 files[i] = Newest.spec
    BY <1>4, <2>2, <2>4 DEF Calm, WriteInv
  <2>5. QED
    BY <1>4, <2>1, <2>2, <2>3, <2>4 DEF Calm, WriteInv
<1>5. ASSUME NEW r \in Requests, Put(r) PROVE WriteInv'
  <2>1. /\ phase[r] = "write" /\ UNCHANGED <<records, project, met>>
        /\ files' = [files EXCEPT ![written[r] + 1] = project[r]]
        /\ written' = [written EXCEPT ![r] = @ + 1]
    BY <1>5 DEF Put
  <2>2. \A q \in Requests : phase'[q] \in {"write", "done"} => 
          q = r \/ phase'[q] = phase[q]
    BY <1>5 DEF TypeOK, Put, Goto
  <2>3. \A q \in Requests : phase'[q] = "write" => phase[q] = "write"
    BY <1>5 DEF TypeOK, Put, Goto
  <2>4. ASSUME records # <<>>
        PROVE  Newest' = Newest /\ Newest.publisher \in Requests
    BY <1>2, <1>3, <2>1, <2>4 DEF Newest
  <2>5. ASSUME records # <<>>, met[Newest.publisher] = {},
               phase'[Newest.publisher] \in {"write", "done"}
        PROVE  \A i \in 1 .. written'[Newest.publisher] :
                 files'[i] = Newest.spec
    <3>1. r = Newest.publisher
      BY <2>1, <2>5 DEF WriteInv
    <3>2. Newest.spec = project[r]
      BY <1>2, <2>5, <3>1 DEF WriteInv, Newest
    <3>3. \A i \in 1 .. written[r] : files[i] = Newest.spec
      BY <2>1, <2>5, <3>1 DEF WriteInv
    <3>4. written[r] \in 0 .. Files - 1 /\ files \in [1 .. Files -> Project]
            /\ Files \in Nat
      BY <2>1, FilesAssumption DEF TypeOK, PhaseInv
    <3>5. written'[r] = written[r] + 1
      BY <2>1 DEF TypeOK
    <3>6. QED
      BY <2>1, <3>1, <3>2, <3>3, <3>4, <3>5
  <2>6. QED
    BY <2>1, <2>3, <2>4, <2>5 DEF WriteInv
<1>6. ASSUME NEW r \in Requests, Save(r), records' # records
      PROVE  WriteInv'
  <2>1. /\ records' = Append(records, NewRecord(r))
        /\ UNCHANGED <<files, project, written, met>> /\ phase[r] = "save"
    BY <1>6 DEF Save, NewRecord
  <2>2. phase' = [phase EXCEPT ![r] = "write"]
    BY <1>6 DEF Save, Goto
  <2>3. /\ NewRecord(r) \in Record /\ NewRecord(r).publisher = r
        /\ NewRecord(r).spec = project[r]
    BY NewRecordType DEF NewRecord
  <2>4. /\ DOMAIN records' = 1 .. Len(records) + 1
        /\ Len(records') = Len(records) + 1
        /\ \A i \in DOMAIN records : records'[i] = records[i]
        /\ records'[Len(records) + 1] = NewRecord(r)
    BY <1>1, <2>1, <2>3, AppendFacts
  <2>5. Newest' = NewRecord(r)
    BY <2>4 DEF Newest
  <2>6. \A i \in DOMAIN records' :
          records'[i].spec = project'[records'[i].publisher]
    <3>1. \A i \in DOMAIN records' :
            i \in DOMAIN records \/ i = Len(records) + 1
      BY <1>1, <2>4
    <3>2. QED
      BY <2>1, <2>3, <2>4, <3>1 DEF WriteInv
  <2>7. \A q \in Requests : phase'[q] = "write" /\ q # r => q \in met'[r]
    BY <2>1, <2>2 DEF TypeOK, MetInv, InFlight
  <2>8. written'[r] = 0
    BY <2>1 DEF PhaseInv
  <2>9. QED
    BY <2>3, <2>5, <2>6, <2>7, <2>8 DEF WriteInv
<1>7. QED
  BY <1>4, <1>5, <1>6, CalmSteps

\* A publication that met no other leaves every object in S3 made from its
\* record, whatever earlier ones left behind (writeToS3).
THEOREM FilesMatch == Spec => []FilesMatchNewestRecord
<1> DEFINE IInv == TInv /\ MetInv /\ WriteInv
<1>1. Init => IInv
  <2>1. Init => WriteInv
    BY DEF Init, WriteInv
  <2>2. QED
    BY <2>1, InitTInv, InitHistoryInv DEF HistoryInv
<1>2. IInv /\ [Next]_vars => IInv'
  BY NextTInv, NextMetInv, NextWriteInv
<1>3. IInv => FilesMatchNewestRecord
  <2> SUFFICES ASSUME IInv, records # <<>>,
                      phase[Newest.publisher] = "done",
                      met[Newest.publisher] = {}
               PROVE  \A i \in 1 .. Files : files[i] = Newest.spec
    BY DEF FilesMatchNewestRecord, Newest
  <2>1. records \in Seq(Record)
    BY DEF TInv, TypeOK
  <2>2. Newest \in Record
    BY <2>1 DEF Newest
  <2>3. Newest.publisher \in Requests
    BY <2>2 DEF Record
  <2>4. written[Newest.publisher] = Files
    BY <2>3 DEF TInv, PhaseInv
  <2>5. QED
    BY <2>4 DEF WriteInv
<1>4. QED
  BY <1>1, <1>2, <1>3, PTL DEF Spec

-----------------------------------------------------------------------------
Current(p) == p.general = version

\* What a publication holds of the current version is the current version,
\* and once it has marked the deployments they stay marked.
CurrentInv ==
  /\ \A r \in Requests : project[r].general <= version
  /\ \A r \in Requests :
       phase[r] \in {"mark", "recent", "save"} /\ Current(project[r])
         => /\ project[r].content = version
            /\ project[r].deployments = deployments
  /\ \A r \in Requests :
       phase[r] \in {"recent", "save"} /\ Current(project[r])
         => published = deployments
  /\ records # <<>> => Newest.spec.general <= version
  /\ RecordIsWhatIsPublished

\* An update makes a new version; nothing else changes the deployments.
LEMMA NextCurrentInv == TInv /\ CurrentInv /\ [Next]_vars => CurrentInv'
<1> SUFFICES ASSUME TInv, CurrentInv, [Next]_vars PROVE CurrentInv'
  OBVIOUS
<1> USE DEF TInv
<1>1. /\ version \in Nat /\ records \in Seq(Record)
      /\ \A r \in Requests : project[r].general \in Nat
  BY DEF TypeOK, Project
<1>2. records # <<>> => Newest.spec.general \in Nat
  <2>1. records # <<>> => Newest \in Record
    BY <1>1 DEF Newest
  <2>2. QED
    BY <2>1 DEF Record, Project
<1>3. ASSUME NEW numbers \in SUBSET Deployments, Update(numbers)
      PROVE  CurrentInv'
  <2>1. version' = version + 1 /\ UNCHANGED <<records, phase, project>>
    BY <1>3 DEF Update
  <2>2. \A r \in Requests : project'[r].general < version'
    BY <1>1, <2>1 DEF CurrentInv
  <2>3. records # <<>> => Newest'.spec.general < version'
    BY <1>1, <1>2, <2>1 DEF CurrentInv, Newest
  <2>4. QED
    BY <1>1, <1>2, <2>1, <2>2, <2>3
       DEF CurrentInv, Current, RecordIsWhatIsPublished, Newest
<1>4. ASSUME NEW r \in Requests, ReadProject(r) PROVE CurrentInv'
  <2>1. UNCHANGED <<version, deployments, published, records>>
    BY <1>4 DEF ReadProject
  <2>2. \A q \in Requests : q # r => project'[q] = project[q]
    BY <1>4 DEF TypeOK, ReadProject
  <2>3. project'[r].general = version
    BY <1>4 DEF TypeOK, ReadProject, Project
  <2>4. \A q \in Requests :
          phase'[q] \in {"mark", "recent", "save"}
            => q # r /\ phase[q] = phase'[q]
    BY <1>4 DEF TypeOK, ReadProject, Goto
  <2>5. QED
    BY <1>1, <2>1, <2>2, <2>3, <2>4
       DEF CurrentInv, Current, RecordIsWhatIsPublished, Newest
<1>5. ASSUME NEW r \in Requests, ReadDeployments(r) PROVE CurrentInv'
  <2>1. UNCHANGED <<version, deployments, published, records>>
    BY <1>5 DEF ReadDeployments
  <2>2. \A q \in Requests : q # r => project'[q] = project[q]
    BY <1>5 DEF TypeOK, ReadDeployments
  <2>3. /\ project'[r].general = project[r].general
        /\ project'[r].content = version
        /\ project'[r].deployments = deployments
    BY <1>5 DEF TypeOK, ReadDeployments, Project
  <2>4. \A q \in Requests :
          /\ phase'[q] \in {"mark", "recent", "save"}
               => q = r \/ phase[q] = phase'[q]
          /\ phase'[q] \in {"recent", "save"} => q # r
    BY <1>5 DEF TypeOK, ReadDeployments, Goto
  <2>5. QED
    BY <1>1, <2>1, <2>2, <2>3, <2>4
       DEF CurrentInv, Current, RecordIsWhatIsPublished, Newest
<1>6. ASSUME NEW r \in Requests, Mark(r) PROVE CurrentInv'
  <2>1. /\ UNCHANGED <<version, deployments, records, project>>
        /\ published' = deployments /\ phase[r] = "mark"
    BY <1>6 DEF Mark
  <2>2. \A q \in Requests :
          phase'[q] \in {"mark", "recent", "save"}
            => phase[q] \in {"mark", "recent", "save"}
    BY <1>6 DEF TypeOK, Mark, Goto
  <2>3. QED
    BY <2>1, <2>2 DEF CurrentInv, Current, RecordIsWhatIsPublished, Newest
<1>7. ASSUME NEW r \in Requests, FindRecent(r) PROVE CurrentInv'
  <2>1. UNCHANGED <<version, deployments, published, records, project>>
    BY <1>7 DEF FindRecent
  <2>2. \A q \in Requests :
          /\ phase'[q] \in {"mark", "recent", "save"}
               => phase[q] \in {"mark", "recent", "save"}
          /\ phase'[q] \in {"recent", "save"}
               => phase[q] \in {"recent", "save"}
    BY <1>7 DEF TypeOK, FindRecent, Goto
  <2>3. QED
    BY <2>1, <2>2 DEF CurrentInv, Current, RecordIsWhatIsPublished, Newest
<1>8. ASSUME NEW r \in Requests, Save(r) PROVE CurrentInv'
  <2>1. /\ UNCHANGED <<version, deployments, published, project>>
        /\ phase[r] = "save"
    BY <1>8 DEF Save
  <2>2. phase' = [phase EXCEPT ![r] = "write"]
          \/ phase' = [phase EXCEPT ![r] = "failed"]
    BY <1>8 DEF Save, Goto
  <2>3. \A q \in Requests :
          phase'[q] \in {"mark", "recent", "save"} => phase[q] = phase'[q]
    BY <2>2 DEF TypeOK
  <2>4. CASE records' = records
    BY <2>1, <2>3, <2>4
       DEF CurrentInv, Current, RecordIsWhatIsPublished, Newest
  <2>5. CASE records' = Append(records, NewRecord(r))
    <3>1. NewRecord(r) \in Record /\ NewRecord(r).spec = project[r]
      BY NewRecordType DEF NewRecord
    <3>2. Newest' = NewRecord(r)
      BY <1>1, <2>5, <3>1, AppendFacts DEF Newest
    <3>3. RecordIsWhatIsPublished'
      BY <2>1, <3>1, <3>2
         DEF CurrentInv, Current, RecordIsWhatIsPublished, Newest
    <3>4. QED
      BY <2>1, <2>3, <3>1, <3>2, <3>3 DEF CurrentInv, Current
  <2>6. QED
    BY <1>8, <2>4, <2>5 DEF Save, NewRecord
<1>9. ASSUME NEW r \in Requests, Put(r) PROVE CurrentInv'
  <2>1. UNCHANGED <<version, deployments, published, records, project>>
    BY <1>9 DEF Put
  <2>2. phase' = [phase EXCEPT ![r] = "done"]
          \/ phase' = [phase EXCEPT ![r] = "write"]
    BY <1>9 DEF Put, Goto
  <2>3. \A q \in Requests :
          phase'[q] \in {"mark", "recent", "save"} => phase[q] = phase'[q]
    BY <2>2 DEF TypeOK
  <2>4. QED
    BY <2>1, <2>3 DEF CurrentInv, Current, RecordIsWhatIsPublished, Newest
<1>10. ASSUME NEW r \in Requests, Fail(r) PROVE CurrentInv'
  <2>1. UNCHANGED <<version, deployments, published, records, project>>
    BY <1>10 DEF Fail
  <2>2. \A q \in Requests :
          phase'[q] \in {"mark", "recent", "save"} => phase[q] = phase'[q]
    BY <1>10 DEF TypeOK, Fail, Goto
  <2>3. QED
    BY <2>1, <2>2 DEF CurrentInv, Current, RecordIsWhatIsPublished, Newest
<1>11. CASE UNCHANGED vars
  BY <1>11 DEF vars, CurrentInv, Current, RecordIsWhatIsPublished, Newest
<1>12. QED
  BY <1>3, <1>4, <1>5, <1>6, <1>7, <1>8, <1>9, <1>10, <1>11
     DEF Next, Publish

\* While the program is as it was when the newest record's publication read
\* it, the record is the program and all of it is marked as published
\* (findByCode, and the mark at spec.service.ts:334).
THEOREM RecordIsPublished == Spec => []RecordIsWhatIsPublished
<1> DEFINE IInv == TInv /\ CurrentInv
<1>1. Init => IInv
  <2>1. Init => CurrentInv
    BY DEF Init, CurrentInv, Current, RecordIsWhatIsPublished, NoProject
  <2>2. QED
    BY <2>1, InitTInv
<1>2. IInv /\ [Next]_vars => IInv'
  BY NextTInv, NextCurrentInv
<1>3. IInv => RecordIsWhatIsPublished
  BY DEF CurrentInv
<1>4. QED
  BY <1>1, <1>2, <1>3, PTL DEF Spec

-----------------------------------------------------------------------------
(* SpecContent: tables that keep their keys and references.                *)

Sound(c) == c \in Content /\ Consistent(c) /\ Drawn(c)

\* Rows may go as long as nothing refers to them.
LEMMA SoundSubset ==
  ASSUME NEW t, NEW u, Sound(t), u \in Content, u.next = t.next,
         u.deployments \subseteq t.deployments,
         u.playlists \subseteq t.playlists, u.messages \subseteq t.messages,
         \A x \in u.playlists, y \in t.deployments :
           x.deployment = y.id => y \in u.deployments,
         \A x \in u.messages, y \in t.playlists :
           x.playlist = y.id => y \in u.playlists
  PROVE  Sound(u)
<1>1. Consistent(u)
  BY DEF Sound, Consistent
<1>2. Drawn(u)
  BY DEF Sound, Drawn
<1>3. QED
  BY <1>1, <1>2 DEF Sound

LEMMA DeletePlaylistsFields ==
  ASSUME NEW t \in Content, NEW gone
  PROVE  LET u == DeletePlaylists(t, gone) IN
         /\ u \in Content /\ u.next = t.next
         /\ u.languages = t.languages /\ u.recipients = t.recipients
         /\ u.deployments = t.deployments
         /\ u.playlists = t.playlists \ gone
         /\ u.messages = t.messages \ Orphans(t, gone)
  BY DEF DeletePlaylists, Content

LEMMA DeletePlaylistsSound ==
  ASSUME NEW t, Sound(t), NEW gone
  PROVE  Sound(DeletePlaylists(t, gone))
<1> DEFINE u == DeletePlaylists(t, gone)
<1>1. /\ u \in Content /\ u.next = t.next
      /\ u.deployments = t.deployments
      /\ u.playlists = t.playlists \ gone
      /\ u.messages = t.messages \ Orphans(t, gone)
  BY DeletePlaylistsFields DEF Sound
<1> HIDE DEF u
<1>2. \A x \in u.messages, y \in t.playlists :
        x.playlist = y.id => y \in u.playlists
  BY <1>1 DEF Orphans
<1>3. \A x \in u.playlists, y \in t.deployments :
        x.deployment = y.id => y \in u.deployments
  BY <1>1
<1>4. Sound(u)
  BY <1>1, <1>2, <1>3, SoundSubset
<1>5. QED
  BY <1>4 DEF u

LEMMA DeleteDeploymentsFields ==
  ASSUME NEW t \in Content, NEW gone
  PROVE  LET u == DeleteDeployments(t, gone) IN
         /\ u \in Content /\ u.next = t.next
         /\ u.languages = t.languages /\ u.recipients = t.recipients
         /\ u.deployments = t.deployments \ gone
         /\ u.playlists = t.playlists \ PlaylistsOf(t, gone)
         /\ u.messages = t.messages \ Orphans(t, PlaylistsOf(t, gone))
<1> DEFINE v == [t EXCEPT !.deployments = @ \ gone]
           g == PlaylistsOf(t, gone)
<1>1. /\ v \in Content /\ v.next = t.next
      /\ v.languages = t.languages /\ v.recipients = t.recipients
      /\ v.deployments = t.deployments \ gone
      /\ v.playlists = t.playlists /\ v.messages = t.messages
  BY DEF Content
<1>2. Orphans(v, g) = Orphans(t, g)
  BY <1>1 DEF Orphans
<1>3. DeleteDeployments(t, gone) = DeletePlaylists(v, g)
  BY DEF DeleteDeployments
<1> HIDE DEF v, g
<1>4. LET u == DeletePlaylists(v, g) IN
      /\ u \in Content /\ u.next = v.next
      /\ u.languages = v.languages /\ u.recipients = v.recipients
      /\ u.deployments = v.deployments
      /\ u.playlists = v.playlists \ g
      /\ u.messages = v.messages \ Orphans(v, g)
  BY <1>1, DeletePlaylistsFields
<1>5. QED
  BY <1>1, <1>2, <1>3, <1>4 DEF g

LEMMA DeleteDeploymentsSound ==
  ASSUME NEW t, Sound(t), NEW gone
  PROVE  Sound(DeleteDeployments(t, gone))
<1> DEFINE u == DeleteDeployments(t, gone)
           g == PlaylistsOf(t, gone)
<1>1. /\ u \in Content /\ u.next = t.next
      /\ u.deployments = t.deployments \ gone
      /\ u.playlists = t.playlists \ g
      /\ u.messages = t.messages \ Orphans(t, g)
  BY DeleteDeploymentsFields DEF Sound
<1>2. \A x \in u.playlists, y \in t.deployments :
        x.deployment = y.id => y \in u.deployments
  BY <1>1 DEF PlaylistsOf
<1> HIDE DEF u, g
<1>3. \A x \in u.messages, y \in t.playlists :
        x.playlist = y.id => y \in u.playlists
  BY <1>1 DEF Orphans
<1>4. Sound(u)
  BY <1>1, <1>2, <1>3, SoundSubset
<1>5. QED
  BY <1>4 DEF u

LEMMA InsertDeployment ==
  ASSUME NEW t, Sound(t), NEW number \in Nat,
         number \notin Numbers(t.deployments)
  PROVE  LET u == [t EXCEPT !.deployments =
                              @ \cup {[id |-> t.next, number |-> number]},
                            !.next = @ + 1]
         IN /\ Sound(u)
            /\ u.next = t.next + 1 /\ t.next \in Ids
            /\ u.languages = t.languages /\ u.recipients = t.recipients
            /\ u.deployments
                 = t.deployments \cup {[id |-> t.next, number |-> number]}
            /\ u.playlists = t.playlists /\ u.messages = t.messages
<1> DEFINE new == [id |-> t.next, number |-> number]
           u == [t EXCEPT !.deployments = @ \cup {new}, !.next = @ + 1]
<1>1. t \in Content /\ t.next \in Ids
  BY DEF Sound, Content
<1>2. new \in Deployment
  BY <1>1 DEF Deployment
<1>3. new.id = t.next /\ new.number = number
  OBVIOUS
<1> HIDE DEF new
<1>4. /\ u \in Content
      /\ u.next = t.next + 1
      /\ u.languages = t.languages /\ u.recipients = t.recipients
      /\ u.deployments = t.deployments \cup {new}
      /\ u.playlists = t.playlists /\ u.messages = t.messages
  <2>1. /\ t.next + 1 \in Ids
        /\ t.deployments \cup {new} \in SUBSET Deployment
    BY <1>1, <1>2 DEF Content, Ids
  <2>2. u = [t EXCEPT !.deployments = t.deployments \cup {new},
                      !.next = t.next + 1]
    BY <1>1 DEF Content
  <2> HIDE DEF u
  <2>3. QED
    BY <1>1, <2>1, <2>2 DEF Content
<1> HIDE DEF u
<1>5. \A x \in t.deployments : x.id # new.id /\ x.number # new.number
  <2>1. \A x \in t.deployments : x.id < t.next /\ x.id \in Nat
    BY <1>1 DEF Sound, Drawn, Content, Deployment, Ids
  <2>2. QED
    BY <1>1, <1>3, <2>1 DEF Numbers, Ids
<1>6. Consistent(u)
  BY <1>4, <1>5 DEF Sound, Consistent
<1>7. Drawn(u)
  <2>1. \A x \in t.deployments \cup t.playlists \cup t.messages :
          x.id < t.next /\ x.id \in Nat
    BY <1>1 DEF Sound, Drawn, Content, Deployment, Playlist, Message, Ids
  <2>2. QED
    BY <1>1, <1>3, <1>4, <2>1 DEF Drawn, Ids
<1>8. QED
  BY <1>1, <1>4, <1>6, <1>7 DEF Sound, u, new

LEMMA WithoutMessages ==
  ASSUME NEW t, Sound(t), NEW gone \in SUBSET t.messages
  PROVE  LET u == [t EXCEPT !.messages = @ \ gone] IN
         /\ Sound(u) /\ u.next = t.next
         /\ u.languages = t.languages /\ u.recipients = t.recipients
         /\ u.deployments = t.deployments /\ u.playlists = t.playlists
         /\ u.messages = t.messages \ gone
<1> DEFINE u == [t EXCEPT !.messages = @ \ gone]
<1>1. /\ u \in Content /\ u.next = t.next
      /\ u.languages = t.languages /\ u.recipients = t.recipients
      /\ u.deployments = t.deployments /\ u.playlists = t.playlists
      /\ u.messages = t.messages \ gone
  BY DEF Sound, Content
<1>2. Consistent(t) /\ Drawn(t)
  BY DEF Sound
<1> HIDE DEF u
<1>3. \A x \in u.playlists, y \in t.deployments :
           x.deployment = y.id => y \in u.deployments
  BY <1>1
<1>4. \A x \in u.messages, y \in t.playlists :
           x.playlist = y.id => y \in u.playlists
  BY <1>1
<1>5. Sound(u)
  BY <1>1, <1>3, <1>4, SoundSubset
<1>6. QED
  BY <1>1, <1>5 DEF u

LEMMA RetitlePlaylist ==
  ASSUME NEW t, Sound(t), NEW x \in t.playlists, NEW title \in Titles
  PROVE  LET y == [x EXCEPT !.title = title]
             u == [t EXCEPT !.playlists = (@ \ {x}) \cup {y}]
         IN /\ Sound(u) /\ u.next = t.next
            /\ u.languages = t.languages /\ u.recipients = t.recipients
            /\ u.deployments = t.deployments /\ u.messages = t.messages
            /\ u.playlists = (t.playlists \ {x}) \cup {y}
            /\ y.id = x.id /\ y.deployment = x.deployment
            /\ y.position = x.position /\ y.title = title
<1> DEFINE y == [x EXCEPT !.title = title]
           u == [t EXCEPT !.playlists = (@ \ {x}) \cup {y}]
<1>1. t \in Content /\ x \in Playlist
  BY DEF Sound, Content
<1>2. /\ y \in Playlist /\ y.id = x.id /\ y.deployment = x.deployment
      /\ y.position = x.position /\ y.title = title
  BY <1>1 DEF Playlist
<1> HIDE DEF y
<1>3. /\ u \in Content /\ u.next = t.next
      /\ u.languages = t.languages /\ u.recipients = t.recipients
      /\ u.deployments = t.deployments /\ u.messages = t.messages
      /\ u.playlists = (t.playlists \ {x}) \cup {y}
  BY <1>1, <1>2 DEF Content
<1> HIDE DEF u
<1>4. /\ \A p, q \in t.playlists :
           p.id = q.id \/ (p.deployment = q.deployment /\ p.position = q.position)
             => p = q
      /\ \A p \in t.playlists : \E d \in t.deployments : p.deployment = d.id
      /\ \A m \in t.messages : \E p \in t.playlists : m.playlist = p.id
  BY DEF Sound, Consistent
<1>5. \A p, q \in u.playlists :
        p.id = q.id \/ (p.deployment = q.deployment /\ p.position = q.position)
          => p = q
  <2>1. \A p \in u.playlists :
          p = y \/ (p \in t.playlists /\ p # x)
    BY <1>3
  <2>2. \A p \in t.playlists :
          p.id = y.id \/ (p.deployment = y.deployment /\ p.position = y.position)
            => p = x
    BY <1>2, <1>4
  <2>3. QED
    BY <1>4, <2>1, <2>2
<1>6. \A p \in u.playlists : \E d \in u.deployments : p.deployment = d.id
  BY <1>2, <1>3, <1>4
<1>7. \A m \in u.messages : \E p \in u.playlists : m.playlist = p.id
  <2>1. \A p \in t.playlists : \E q \in u.playlists : q.id = p.id
    BY <1>2, <1>3
  <2>2. QED
    BY <1>3, <1>4, <2>1
<1>8. Consistent(u)
  BY <1>3, <1>5, <1>6, <1>7 DEF Sound, Consistent
<1>9. Drawn(u)
  BY <1>2, <1>3 DEF Sound, Drawn
<1>10. QED
  BY <1>2, <1>3, <1>8, <1>9 DEF Sound, u, y

LEMMA InsertPlaylist ==
  ASSUME NEW t, Sound(t), NEW id \in Ids, id <= t.next,
         \A x \in t.playlists : x.id # id,
         NEW d \in t.deployments, NEW position \in Nat, NEW title \in Titles,
         \A x \in t.playlists : ~ (x.deployment = d.id /\ x.position = position)
  PROVE  LET y == [id |-> id, deployment |-> d.id, position |-> position,
                   title |-> title]
             u == [t EXCEPT !.playlists = @ \cup {y}, !.next = @ + 1]
         IN /\ Sound(u) /\ u.next = t.next + 1
            /\ u.languages = t.languages /\ u.recipients = t.recipients
            /\ u.deployments = t.deployments /\ u.messages = t.messages
            /\ u.playlists = t.playlists \cup {y}
            /\ y.id = id /\ y.deployment = d.id /\ y.position = position
            /\ y.title = title
<1> DEFINE y == [id |-> id, deployment |-> d.id, position |-> position,
                 title |-> title]
           u == [t EXCEPT !.playlists = @ \cup {y}, !.next = @ + 1]
<1>1. t \in Content /\ t.next \in Ids /\ d.id \in Ids
  BY DEF Sound, Content, Deployment
<1>2. /\ y \in Playlist /\ y.id = id /\ y.deployment = d.id
      /\ y.position = position /\ y.title = title
  BY <1>1 DEF Playlist
<1> HIDE DEF y
<1>3. /\ u \in Content /\ u.next = t.next + 1
      /\ u.languages = t.languages /\ u.recipients = t.recipients
      /\ u.deployments = t.deployments /\ u.messages = t.messages
      /\ u.playlists = t.playlists \cup {y}
  <2>1. t.next + 1 \in Ids /\ t.playlists \cup {y} \in SUBSET Playlist
    BY <1>1, <1>2 DEF Content, Ids
  <2>2. u = [t EXCEPT !.playlists = t.playlists \cup {y}, !.next = t.next + 1]
    BY <1>1 DEF Content
  <2> HIDE DEF u
  <2>3. QED
    BY <1>1, <2>1, <2>2 DEF Content
<1> HIDE DEF u
<1>4. Consistent(u)
  BY <1>2, <1>3 DEF Sound, Consistent
<1>5. Drawn(u)
  <2>1. \A x \in t.deployments \cup t.playlists \cup t.messages :
          x.id < t.next /\ x.id \in Nat
    BY <1>1 DEF Sound, Drawn, Content, Deployment, Playlist, Message, Ids
  <2>2. QED
    BY <1>1, <1>2, <1>3, <2>1 DEF Drawn, Ids
<1>6. QED
  BY <1>2, <1>3, <1>4, <1>5 DEF Sound, u, y

LEMMA OverwriteMessage ==
  ASSUME NEW t, Sound(t), NEW x \in t.messages, NEW title \in Titles,
         NEW languages \in SUBSET Languages,
         \A m \in t.messages :
           m.playlist = x.playlist /\ m.title = title => m = x
  PROVE  LET y == [x EXCEPT !.title = title,
                            !.languages = @ \cup languages]
             u == [t EXCEPT !.messages = (@ \ {x}) \cup {y}]
         IN /\ Sound(u) /\ u.next = t.next
            /\ u.languages = t.languages /\ u.recipients = t.recipients
            /\ u.deployments = t.deployments /\ u.playlists = t.playlists
            /\ u.messages = (t.messages \ {x}) \cup {y}
            /\ y.id = x.id /\ y.playlist = x.playlist
            /\ y.position = x.position /\ y.title = title
            /\ languages \subseteq y.languages
<1> DEFINE y == [x EXCEPT !.title = title, !.languages = @ \cup languages]
           u == [t EXCEPT !.messages = (@ \ {x}) \cup {y}]
<1>1. t \in Content /\ x \in Message
  BY DEF Sound, Content
<1>2. /\ y \in Message /\ y.id = x.id /\ y.playlist = x.playlist
      /\ y.position = x.position /\ y.title = title
      /\ languages \subseteq y.languages
  BY <1>1 DEF Message
<1> HIDE DEF y
<1>3. /\ u \in Content /\ u.next = t.next
      /\ u.languages = t.languages /\ u.recipients = t.recipients
      /\ u.deployments = t.deployments /\ u.playlists = t.playlists
      /\ u.messages = (t.messages \ {x}) \cup {y}
  BY <1>1, <1>2 DEF Content
<1> HIDE DEF u
<1>4. /\ \A m, n \in t.messages :
           m.id = n.id \/ (m.playlist = n.playlist /\ m.position = n.position)
             \/ (m.playlist = n.playlist /\ m.title = n.title)
             => m = n
      /\ \A m \in t.messages : \E p \in t.playlists : m.playlist = p.id
  BY DEF Sound, Consistent
<1>5. \A m, n \in u.messages :
        m.id = n.id \/ (m.playlist = n.playlist /\ m.position = n.position)
          \/ (m.playlist = n.playlist /\ m.title = n.title)
          => m = n
  <2>1. \A m \in u.messages : m = y \/ (m \in t.messages /\ m # x)
    BY <1>3
  <2>2. \A m \in t.messages :
          m.id = y.id \/ (m.playlist = y.playlist /\ m.position = y.position)
            \/ (m.playlist = y.playlist /\ m.title = y.title)
            => m = x
    BY <1>2, <1>4
  <2>3. QED
    BY <1>4, <2>1, <2>2
<1>6. Consistent(u)
  BY <1>2, <1>3, <1>4, <1>5 DEF Sound, Consistent
<1>7. Drawn(u)
  BY <1>2, <1>3 DEF Sound, Drawn
<1>8. QED
  BY <1>2, <1>3, <1>6, <1>7 DEF Sound, u, y

LEMMA InsertMessage ==
  ASSUME NEW t, Sound(t), NEW y \in Message, y.id <= t.next,
         \A x \in t.messages : x.id # y.id,
         \E p \in t.playlists : y.playlist = p.id,
         \A x \in t.messages :
           x.playlist = y.playlist => /\ x.position # y.position
                                      /\ x.title # y.title
  PROVE  LET u == [t EXCEPT !.messages = @ \cup {y}, !.next = @ + 1]
         IN /\ Sound(u) /\ u.next = t.next + 1
            /\ u.languages = t.languages /\ u.recipients = t.recipients
            /\ u.deployments = t.deployments /\ u.playlists = t.playlists
            /\ u.messages = t.messages \cup {y}
<1> DEFINE u == [t EXCEPT !.messages = @ \cup {y}, !.next = @ + 1]
<1>1. t \in Content /\ t.next \in Ids
  BY DEF Sound, Content
<1>2. /\ u \in Content /\ u.next = t.next + 1
      /\ u.languages = t.languages /\ u.recipients = t.recipients
      /\ u.deployments = t.deployments /\ u.playlists = t.playlists
      /\ u.messages = t.messages \cup {y}
  <2>1. t.next + 1 \in Ids /\ t.messages \cup {y} \in SUBSET Message
    BY <1>1 DEF Content, Ids
  <2>2. u = [t EXCEPT !.messages = t.messages \cup {y}, !.next = t.next + 1]
    BY <1>1 DEF Content
  <2> HIDE DEF u
  <2>3. QED
    BY <1>1, <2>1, <2>2 DEF Content
<1> HIDE DEF u
<1>3. Consistent(u)
  BY <1>2 DEF Sound, Consistent
<1>4. Drawn(u)
  <2>1. \A x \in t.deployments \cup t.playlists \cup t.messages \cup {y} :
          x.id \in Nat
    BY <1>1 DEF Content, Deployment, Playlist, Message, Ids
  <2>2. \A x \in t.deployments \cup t.playlists \cup t.messages : x.id < t.next
    BY DEF Sound, Drawn
  <2>3. QED
    BY <1>1, <1>2, <2>1, <2>2 DEF Drawn, Ids
<1>5. QED
  BY <1>2, <1>3, <1>4 DEF Sound, u

-----------------------------------------------------------------------------
(* SpecContent: what each statement does to rows that are sound.           *)

\* Where the loops are.
LoopInv ==
  /\ statement = "messages" => /\ nthDeployment \in DOMAIN sent.deployments
                               /\ nthPlaylist \in DOMAIN ThisDeployment.playlists
  /\ statement \in {"missing", "recipients"} =>
       nthDeployment > Len(sent.deployments)
  /\ statement = "idle" => tx = content /\ nthDeployment = 1
  /\ statement \in {"idle", "deployments"} => given = {} /\ nthPlaylist = 1
  /\ accepted => statement = "idle"

\* The row whose messages are saved is there; keys are of rows already drawn.
KeysInv ==
  /\ Sound(content) /\ Sound(tx)
  /\ statement = "messages" => \E x \in tx.playlists : x.id = row
  /\ statement # "idle" => /\ content.next <= tx.next
                           /\ Read(sent, content.next)

RowsInv == UpdateTypeOK /\ LoopInv /\ KeysInv

Kept == UNCHANGED <<content, cascades, sent, accepted, before, updates>>

Undone == Kept /\ statement # "idle" /\ Throw

DeploymentSkipped ==
  /\ Kept /\ statement = "deployments"
  /\ nthDeployment \in DOMAIN sent.deployments
  /\ ThisDeployment.number \in Numbers(content.deployments)
  /\ nthDeployment' = nthDeployment + 1
  /\ UNCHANGED <<statement, tx, given, nthPlaylist, nthMessage, nthRecipient,
                 row>>

DeploymentSaved(y) ==
  /\ Kept /\ statement = "deployments"
  /\ nthDeployment \in DOMAIN sent.deployments
  /\ y.number = ThisDeployment.number /\ y.id \in Ids
  /\ Sound(tx') /\ tx'.next = tx.next + 1
  /\ tx'.languages = tx.languages /\ tx'.recipients = tx.recipients
  /\ tx'.deployments = tx.deployments \cup {y}
  /\ tx'.playlists = tx.playlists /\ tx'.messages = tx.messages
  /\ nthDeployment' = nthDeployment + 1
  /\ UNCHANGED <<statement, given, nthPlaylist, nthMessage, nthRecipient, row>>

LeftOutDeleted ==
  /\ Kept /\ statement = "deployments"
  /\ nthDeployment > Len(sent.deployments)
  /\ Sound(tx') /\ tx'.next = tx.next
  /\ tx'.languages = tx.languages /\ tx'.recipients = tx.recipients
  /\ tx'.deployments = tx.deployments \ LeftOut
  /\ tx'.playlists = tx.playlists \ PlaylistsOf(tx, LeftOut)
  /\ tx'.messages = tx.messages \ Orphans(tx, PlaylistsOf(tx, LeftOut))
  /\ statement' = "playlists" /\ nthDeployment' = 1
  /\ UNCHANGED <<given, nthPlaylist, nthMessage, nthRecipient, row>>

\* Row y takes the place of ThisPlaylist, over the row x or as a new one.
Replaced(y) ==
  /\ given' = given
  /\ \E x \in tx.playlists :
       /\ x.id = y.id /\ x.deployment = y.deployment
       /\ x.position = y.position
       /\ tx'.playlists = (tx.playlists \ {x}) \cup {y}

Inserted(y) ==
  /\ \A x \in tx.playlists : x.id # y.id
  /\ tx'.playlists = tx.playlists \cup {y}
  /\ given' = given \/ given' = given \cup {y.id}
  /\ y.id \in given' \/ ThisPlaylist.key \in {New, y.id}

PlaylistSaved(y) ==
  /\ Kept /\ statement = "playlists"
  /\ nthDeployment \in DOMAIN sent.deployments
  /\ nthPlaylist \in DOMAIN ThisDeployment.playlists
  /\ Replaced(y) \/ Inserted(y)
  /\ Placed(tx.deployments, y, ThisDeployment, ThisPlaylist)
  /\ y.title = ThisPlaylist.title /\ y.id \in Ids
  /\ Sound(tx') /\ tx.next <= tx'.next
  /\ tx'.languages = tx.languages /\ tx'.recipients = tx.recipients
  /\ tx'.deployments = tx.deployments
  /\ tx'.messages
       = tx.messages \ RemovedMessages(tx, y.id, ThisPlaylist.messages)
  /\ given' \in SUBSET Ids
  /\ row' = y.id /\ nthMessage' = 1 /\ statement' = "messages"
  /\ UNCHANGED <<nthDeployment, nthPlaylist, nthRecipient>>

MessageSaved(y) ==
  /\ Kept /\ statement = "messages"
  /\ nthMessage \in DOMAIN ThisPlaylist.messages
  /\ y.playlist = row
  /\ y.position = ThisMessage.position /\ y.title = ThisMessage.title
  /\ ThisMessage.languages \subseteq y.languages
  /\ \/ \E x \in tx.messages : /\ x.id = y.id /\ x.playlist = row
                               /\ x.position = y.position
     \/ \A x \in tx.messages : /\ x.id # y.id /\ x.id # ThisMessage.key
                               /\ ~ (x.playlist = row /\ x.position = y.position)
  /\ tx'.messages = {x \in tx.messages :
                       ~ (x.playlist = row /\ x.position = y.position)} \cup {y}
  /\ Sound(tx') /\ tx.next <= tx'.next
  /\ tx'.languages = tx.languages /\ tx'.recipients = tx.recipients
  /\ tx'.deployments = tx.deployments /\ tx'.playlists = tx.playlists
  /\ nthMessage' = nthMessage + 1
  /\ UNCHANGED <<statement, given, nthDeployment, nthPlaylist, nthRecipient,
                 row>>

MissingPlaylistsDeleted ==
  /\ Kept /\ statement = "playlists"
  /\ nthDeployment > Len(sent.deployments)
  /\ Sound(tx') /\ tx'.next = tx.next
  /\ tx'.languages = tx.languages /\ tx'.recipients = tx.recipients
  /\ tx'.deployments = tx.deployments
  /\ tx'.playlists = tx.playlists \ MissingPlaylists
  /\ tx'.messages = tx.messages \ Orphans(tx, MissingPlaylists)
  /\ statement' = "missing"
  /\ UNCHANGED <<given, loops>>

MissingDeploymentsDeleted ==
  /\ Kept /\ statement = "missing"
  /\ Sound(tx') /\ tx'.next = tx.next
  /\ tx'.languages = tx.languages /\ tx'.recipients = tx.recipients
  /\ tx'.deployments = tx.deployments \ MissingDeployments
  /\ tx'.playlists = tx.playlists \ PlaylistsOf(tx, MissingDeployments)
  /\ tx'.messages
       = tx.messages \ Orphans(tx, PlaylistsOf(tx, MissingDeployments))
  /\ statement' = "recipients"
  /\ UNCHANGED <<given, loops>>

RecipientSaved(r) ==
  /\ Kept /\ statement = "recipients"
  /\ nthRecipient \in DOMAIN sent.recipients
  /\ r = sent.recipients[nthRecipient]
  /\ r.language \in sent.languages
  /\ Sound(tx') /\ tx'.next = tx.next
  /\ tx'.languages = tx.languages
  /\ tx'.recipients = [tx.recipients EXCEPT ![r.id] = r.language]
  /\ tx'.deployments = tx.deployments /\ tx'.playlists = tx.playlists
  /\ tx'.messages = tx.messages
  /\ nthRecipient' = nthRecipient + 1
  /\ UNCHANGED <<statement, given, nthDeployment, nthPlaylist, nthMessage,
                 row>>

LEMMA SentFacts ==
  ASSUME sent \in SentContent
  PROVE  /\ sent.languages \in SUBSET Languages
         /\ sent.deployments \in Seq(SentDeployment)
         /\ sent.recipients \in Seq(SentRecipient)
         /\ \A i \in DOMAIN sent.deployments :
              /\ sent.deployments[i].key \in Nat
              /\ sent.deployments[i].number \in Nat
              /\ sent.deployments[i].playlists \in Seq(SentPlaylist)
              /\ \A j \in DOMAIN sent.deployments[i].playlists :
                   LET p == sent.deployments[i].playlists[j] IN
                   /\ p.key \in Keys /\ p.position \in Nat
                   /\ p.title \in Titles /\ p.messages \in Seq(SentMessage)
                   /\ \A k \in DOMAIN p.messages :
                        /\ p.messages[k].key \in Keys
                        /\ p.messages[k].position \in Nat
                        /\ p.messages[k].title \in Titles
                        /\ p.messages[k].languages \in SUBSET Languages
         /\ \A i \in DOMAIN sent.recipients :
              /\ sent.recipients[i].id \in RecipientIds
              /\ sent.recipients[i].language \in Languages \cup {NoLanguage}
<1>1. /\ sent.languages \in SUBSET Languages
      /\ sent.deployments \in Seq(SentDeployment)
      /\ sent.recipients \in Seq(SentRecipient)
  BY DEF SentContent
<1>2. \A i \in DOMAIN sent.deployments : sent.deployments[i] \in SentDeployment
  BY <1>1
<1>3. \A p \in SentPlaylist :
        /\ p.key \in Keys /\ p.position \in Nat
        /\ p.title \in Titles /\ p.messages \in Seq(SentMessage)
        /\ \A k \in DOMAIN p.messages :
             /\ p.messages[k].key \in Keys
             /\ p.messages[k].position \in Nat
             /\ p.messages[k].title \in Titles
             /\ p.messages[k].languages \in SUBSET Languages
  <2>1. TAKE p \in SentPlaylist
  <2>2. /\ p.key \in Keys /\ p.position \in Nat
        /\ p.title \in Titles /\ p.messages \in Seq(SentMessage)
    BY DEF SentPlaylist
  <2>3. \A k \in DOMAIN p.messages : p.messages[k] \in SentMessage
    BY <2>2
  <2>4. QED
    BY <2>2, <2>3 DEF SentMessage
<1>4. \A d \in SentDeployment :
        /\ d.key \in Nat /\ d.number \in Nat
        /\ d.playlists \in Seq(SentPlaylist)
        /\ \A j \in DOMAIN d.playlists : d.playlists[j] \in SentPlaylist
  BY DEF SentDeployment
<1>5. \A i \in DOMAIN sent.recipients : sent.recipients[i] \in SentRecipient
  BY <1>1
<1>6. QED
  BY <1>1, <1>2, <1>3, <1>4, <1>5 DEF SentRecipient

LEMMA SaveDeploymentStep ==
  ASSUME RowsInv, Kept, SaveDeployment
  PROVE  Undone \/ DeploymentSkipped \/ \E y : DeploymentSaved(y)
<1> DEFINE number == ThisDeployment.number
           y == [id |-> tx.next, number |-> number]
<1>1. nthDeployment \in DOMAIN sent.deployments /\ number \in Nat
  BY SentFacts DEF RowsInv, UpdateTypeOK, SaveDeployment, Ids, ThisDeployment
<1>2. y.number = number /\ y.id = tx.next
  OBVIOUS
<1>3. CASE number \in Numbers(content.deployments)
           /\ nthDeployment' = nthDeployment + 1
           /\ UNCHANGED <<statement, tx, given, nthPlaylist, nthMessage,
                          nthRecipient, row>>
  BY <1>1, <1>3 DEF DeploymentSkipped, SaveDeployment
<1>4. CASE /\ number \notin Numbers(tx.deployments)
           /\ tx' = [tx EXCEPT !.deployments = @ \cup {y}, !.next = @ + 1]
           /\ nthDeployment' = nthDeployment + 1
           /\ UNCHANGED <<statement, given, nthPlaylist, nthMessage,
                          nthRecipient, row>>
  <2>1. Sound(tx)
    BY DEF RowsInv, KeysInv
  <2> HIDE DEF number
  <2>2. /\ Sound(tx')
        /\ tx'.next = tx.next + 1 /\ tx.next \in Ids
        /\ tx'.languages = tx.languages /\ tx'.recipients = tx.recipients
        /\ tx'.deployments = tx.deployments \cup {y}
        /\ tx'.playlists = tx.playlists /\ tx'.messages = tx.messages
    BY <1>1, <1>4, <2>1, InsertDeployment
  <2> HIDE DEF y
  <2>3. DeploymentSaved(y)
    BY <1>1, <1>2, <1>4, <2>2 DEF DeploymentSaved, SaveDeployment, number
  <2>4. QED
    BY <2>3
<1>5. CASE Throw
  BY <1>5 DEF Undone, SaveDeployment
<1>6. QED
  BY <1>3, <1>4, <1>5 DEF SaveDeployment, ThisDeployment

LEMMA DeleteLeftOutStep ==
  ASSUME RowsInv, Kept, DeleteLeftOut
  PROVE  Undone \/ LeftOutDeleted
<1>1. CASE Throw
  BY <1>1 DEF Undone, DeleteLeftOut
<1>2. CASE /\ tx' = DeleteDeployments(tx, LeftOut)
           /\ statement' = "playlists" /\ nthDeployment' = 1
           /\ UNCHANGED <<given, nthPlaylist, nthMessage, nthRecipient, row>>
  <2> DEFINE u == DeleteDeployments(tx, LeftOut)
  <2>1. Sound(tx) /\ tx \in Content
    BY DEF RowsInv, KeysInv, Sound
  <2> HIDE DEF u
  <2>2. /\ u.next = tx.next
        /\ u.languages = tx.languages /\ u.recipients = tx.recipients
        /\ u.deployments = tx.deployments \ LeftOut
        /\ u.playlists = tx.playlists \ PlaylistsOf(tx, LeftOut)
        /\ u.messages = tx.messages \ Orphans(tx, PlaylistsOf(tx, LeftOut))
    BY <2>1, DeleteDeploymentsFields DEF u
  <2>3. Sound(u)
    BY <2>1, DeleteDeploymentsSound DEF u
  <2>4. QED
    BY <1>2, <2>2, <2>3 DEF LeftOutDeleted, DeleteLeftOut, u
<1>3. QED
  BY <1>1, <1>2 DEF DeleteLeftOut

LEMMA DeleteMissingPlaylistsStep ==
  ASSUME RowsInv, Kept, DeleteMissingPlaylists
  PROVE  Undone \/ MissingPlaylistsDeleted
<1>1. CASE Throw
  BY <1>1 DEF Undone, DeleteMissingPlaylists
<1>2. CASE /\ tx' = DeletePlaylists(tx, MissingPlaylists)
           /\ statement' = "missing"
           /\ UNCHANGED <<given, loops>>
  <2> DEFINE gone == MissingPlaylists
             u == DeletePlaylists(tx, gone)
  <2>1. Sound(tx) /\ tx \in Content
    BY DEF RowsInv, KeysInv, Sound
  <2> HIDE DEF u, gone
  <2>2. /\ u.next = tx.next
        /\ u.languages = tx.languages /\ u.recipients = tx.recipients
        /\ u.deployments = tx.deployments
        /\ u.playlists = tx.playlists \ gone
        /\ u.messages = tx.messages \ Orphans(tx, gone)
    BY <2>1, DeletePlaylistsFields DEF u
  <2>3. Sound(u)
    BY <2>1, DeletePlaylistsSound DEF u
  <2>4. QED
    BY <1>2, <2>2, <2>3
       DEF MissingPlaylistsDeleted, DeleteMissingPlaylists, u, gone
<1>3. QED
  BY <1>1, <1>2 DEF DeleteMissingPlaylists

LEMMA DeleteMissingDeploymentsStep ==
  ASSUME RowsInv, Kept, DeleteMissingDeployments
  PROVE  Undone \/ MissingDeploymentsDeleted
<1>1. CASE Throw
  BY <1>1 DEF Undone, DeleteMissingDeployments
<1>2. CASE /\ tx' = DeleteDeployments(tx, MissingDeployments)
           /\ statement' = "recipients"
           /\ UNCHANGED <<given, loops>>
  <2> DEFINE gone == MissingDeployments
             u == DeleteDeployments(tx, gone)
  <2>1. Sound(tx) /\ tx \in Content
    BY DEF RowsInv, KeysInv, Sound
  <2> HIDE DEF u, gone
  <2>2. /\ u.next = tx.next
        /\ u.languages = tx.languages /\ u.recipients = tx.recipients
        /\ u.deployments = tx.deployments \ gone
        /\ u.playlists = tx.playlists \ PlaylistsOf(tx, gone)
        /\ u.messages = tx.messages \ Orphans(tx, PlaylistsOf(tx, gone))
    BY <2>1, DeleteDeploymentsFields DEF u
  <2>3. Sound(u)
    BY <2>1, DeleteDeploymentsSound DEF u
  <2>4. QED
    BY <1>2, <2>2, <2>3
       DEF MissingDeploymentsDeleted, DeleteMissingDeployments, u, gone
<1>3. QED
  BY <1>1, <1>2 DEF DeleteMissingDeployments

LEMMA SaveRecipientStep ==
  ASSUME RowsInv, Kept, SaveRecipient
  PROVE  Undone \/ \E r : RecipientSaved(r)
<1> DEFINE r == sent.recipients[nthRecipient]
<1>1. CASE Throw
  BY <1>1 DEF Undone, SaveRecipient
<1>2. CASE /\ Listed(r.language)
           /\ tx' = [tx EXCEPT !.recipients[r.id] = r.language]
           /\ nthRecipient' = nthRecipient + 1
           /\ UNCHANGED <<statement, given, nthDeployment, nthPlaylist,
                          nthMessage, row>>
  <2>1. /\ nthRecipient \in DOMAIN sent.recipients
        /\ r.id \in RecipientIds /\ r.language \in Languages \cup {NoLanguage}
    BY SentFacts DEF RowsInv, UpdateTypeOK, SaveRecipient, Ids
  <2>2. Sound(tx) /\ tx \in Content
    BY DEF RowsInv, KeysInv, Sound
  <2> HIDE DEF r
  <2>3. /\ tx' \in Content /\ tx'.next = tx.next
        /\ tx'.languages = tx.languages
        /\ tx'.recipients = [tx.recipients EXCEPT ![r.id] = r.language]
        /\ tx'.deployments = tx.deployments /\ tx'.playlists = tx.playlists
        /\ tx'.messages = tx.messages
    BY <1>2, <2>1, <2>2 DEF Content
  <2>4. Sound(tx')
    BY <2>2, <2>3, SoundSubset
  <2>5. RecipientSaved(r)
    BY <1>2, <2>1, <2>3, <2>4 DEF RecipientSaved, SaveRecipient, Listed, r
  <2>6. QED
    BY <2>5
<1>3. QED
  BY <1>1, <1>2 DEF SaveRecipient

LEMMA InDomain ==
  ASSUME NEW S, NEW s \in Seq(S), NEW n \in Ids, n <= Len(s)
  PROVE  n \in DOMAIN s
  BY DEF Ids

\* A row inserted for a key that may have been read takes that key, or the
\* next one.
LEMMA KeyOfNewRow ==
  ASSUME RowsInv, statement # "idle", NEW key \in Keys, key < content.next,
         NEW rows, rows = tx.playlists \/ rows = tx.messages,
         ~ \E x \in rows : x.id = key
  PROVE  LET id == IF key \in {New, Given} THEN tx.next ELSE key IN
         /\ id \in Ids /\ id <= tx.next
         /\ \A x \in rows : x.id # id
         /\ key \in {New, Given, id}
<1>1. Sound(tx) /\ content.next <= tx.next /\ content \in Content
  BY DEF RowsInv, KeysInv, UpdateTypeOK
<1>2. tx.next \in Nat \ {0} /\ content.next \in Nat \ {0}
  BY <1>1 DEF Sound, Content, Ids
<1>3. \A x \in rows : x.id < tx.next /\ x.id \in Nat
  BY <1>1 DEF Sound, Drawn, Content, Playlist, Message, Ids
<1>4. QED
  BY <1>1, <1>2, <1>3 DEF Keys, Ids, New, Given

LEMMA SavePlaylistStep ==
  ASSUME RowsInv, Kept, SavePlaylist
  PROVE  Undone \/ \E y : PlaylistSaved(y)
<1> DEFINE p == ThisPlaylist
           home == DeploymentOf(tx.deployments, ThisDeployment)
           here == {x \in tx.playlists :
                      Placed(tx.deployments, x, ThisDeployment, p)}
           id == IF p.key \in {New, Given} THEN tx.next ELSE p.key
           taken == \E x \in tx.playlists : x.id = p.key
<1>1. /\ nthDeployment \in DOMAIN sent.deployments
      /\ nthPlaylist \in DOMAIN ThisDeployment.playlists
      /\ p \in Elements(ThisDeployment.playlists)
      /\ ThisDeployment \in Elements(sent.deployments)
      /\ p.key \in Keys /\ p.position \in Nat /\ p.title \in Titles
  <2>1. sent \in SentContent /\ nthDeployment \in Ids /\ nthPlaylist \in Ids
    BY DEF RowsInv, UpdateTypeOK
  <2>2. nthDeployment \in DOMAIN sent.deployments
    BY <2>1, SentFacts, InDomain DEF SavePlaylist
  <2>3. nthPlaylist \in DOMAIN ThisDeployment.playlists
    BY <2>1, <2>2, SentFacts, InDomain DEF SavePlaylist, ThisDeployment
  <2>4. QED
    BY <2>1, <2>2, <2>3, SentFacts DEF ThisDeployment, ThisPlaylist, Elements
<1>2. /\ statement = "playlists" /\ Sound(tx) /\ tx \in Content
      /\ p.key < content.next
  BY <1>1 DEF SavePlaylist, RowsInv, KeysInv, Read, UpdateTypeOK
<1>3. tx.next \in Ids /\ tx.next <= tx.next + 1 /\ given \in SUBSET Ids
  BY <1>2 DEF Content, Ids, RowsInv, UpdateTypeOK
<1> HIDE DEF p
<1>4. ASSUME NEW x \in here,
             SaveMessagesOf(x.id,
               [tx EXCEPT !.playlists =
                            (@ \ {x}) \cup {[x EXCEPT !.title = p.title]}]),
             UNCHANGED given
      PROVE  \E y : PlaylistSaved(y)
  <2> DEFINE y == [x EXCEPT !.title = p.title]
             u == [tx EXCEPT !.playlists = (@ \ {x}) \cup {y}]
             gone == RemovedMessages(u, x.id, p.messages)
  <2>1. /\ Sound(u) /\ u.next = tx.next
        /\ u.languages = tx.languages /\ u.recipients = tx.recipients
        /\ u.deployments = tx.deployments /\ u.messages = tx.messages
        /\ u.playlists = (tx.playlists \ {x}) \cup {y}
        /\ y.id = x.id /\ y.deployment = x.deployment
        /\ y.position = x.position /\ y.title = p.title
    BY <1>1, <1>2, <1>4, RetitlePlaylist
  <2>2. /\ tx' = [u EXCEPT !.messages = @ \ gone]
        /\ row' = x.id /\ nthMessage' = 1 /\ statement' = "messages"
        /\ UNCHANGED <<nthDeployment, nthPlaylist, nthRecipient>>
    BY <1>4 DEF SaveMessagesOf, p
  <2> HIDE DEF u, y
  <2>3. /\ gone = RemovedMessages(tx, x.id, p.messages)
        /\ gone \in SUBSET u.messages
    BY <2>1 DEF RemovedMessages
  <2> HIDE DEF gone
  <2>4. /\ Sound(tx') /\ tx'.next = u.next
        /\ tx'.languages = u.languages /\ tx'.recipients = u.recipients
        /\ tx'.deployments = u.deployments /\ tx'.playlists = u.playlists
        /\ tx'.messages = u.messages \ gone
    BY <2>1, <2>2, <2>3, WithoutMessages
  <2>5. Replaced(y)
    BY <1>4, <2>1, <2>4 DEF Replaced
  <2>6. Placed(tx.deployments, y, ThisDeployment, p)
    BY <1>4, <2>1 DEF Placed
  <2>7. x.id \in Ids
    BY <1>2 DEF Content, Playlist
  <2>8. tx.next <= tx'.next
    BY <1>3, <2>1, <2>4 DEF Ids
  <2>9. PlaylistSaved(y)
    BY <1>1, <1>2, <1>3, <1>4, <2>1, <2>2, <2>3, <2>4, <2>5, <2>6, <2>7, <2>8
       DEF PlaylistSaved, p
  <2>10. QED
    BY <2>9
<1>5. ASSUME here = {}, ~ taken, NEW d \in home,
             SaveMessagesOf(id,
               [tx EXCEPT !.playlists =
                            @ \cup {[id |-> id, deployment |-> d.id,
                                     position |-> p.position,
                                     title |-> p.title]},
                          !.next = @ + 1]),
             given' = IF p.key = Given THEN given \cup {id} ELSE given
      PROVE  \E y : PlaylistSaved(y)
  <2> DEFINE y == [id |-> id, deployment |-> d.id, position |-> p.position,
                   title |-> p.title]
             u == [tx EXCEPT !.playlists = @ \cup {y}, !.next = @ + 1]
             gone == RemovedMessages(u, id, p.messages)
  <2>1. /\ id \in Ids /\ id <= tx.next
        /\ \A x \in tx.playlists : x.id # id
        /\ p.key \in {New, Given, id}
    BY <1>1, <1>2, <1>5, KeyOfNewRow
  <2>2. d \in tx.deployments
    BY <1>5 DEF DeploymentOf
  <2>3. \A x \in tx.playlists : ~ (x.deployment = d.id /\ x.position = p.position)
    BY <1>5 DEF Placed
  <2> HIDE DEF id, home
  <2>4. /\ Sound(u) /\ u.next = tx.next + 1
        /\ u.languages = tx.languages /\ u.recipients = tx.recipients
        /\ u.deployments = tx.deployments /\ u.messages = tx.messages
        /\ u.playlists = tx.playlists \cup {y}
        /\ y.id = id /\ y.deployment = d.id /\ y.position = p.position
        /\ y.title = p.title
    BY <1>1, <1>2, <2>1, <2>2, <2>3, InsertPlaylist
  <2>5. /\ tx' = [u EXCEPT !.messages = @ \ gone]
        /\ row' = id /\ nthMessage' = 1 /\ statement' = "messages"
        /\ UNCHANGED <<nthDeployment, nthPlaylist, nthRecipient>>
    BY <1>5 DEF SaveMessagesOf, p
  <2> HIDE DEF u, y
  <2>6. /\ gone = RemovedMessages(tx, id, p.messages)
        /\ gone \in SUBSET u.messages
    BY <2>4 DEF RemovedMessages
  <2> HIDE DEF gone
  <2>7. /\ Sound(tx') /\ tx'.next = u.next
        /\ tx'.languages = u.languages /\ tx'.recipients = u.recipients
        /\ tx'.deployments = u.deployments /\ tx'.playlists = u.playlists
        /\ tx'.messages = u.messages \ gone
    BY <2>4, <2>5, <2>6, WithoutMessages
  <2>8. given' = given \/ given' = given \cup {id}
    BY <1>5
  <2>9. id \in given' \/ p.key \in {New, id}
    BY <1>5, <2>1
  <2>10. Inserted(y) /\ given' \in SUBSET Ids
    BY <1>3, <2>1, <2>4, <2>7, <2>8, <2>9 DEF Inserted, p
  <2>11. Placed(tx.deployments, y, ThisDeployment, p)
    BY <1>5, <2>4 DEF Placed, home
  <2>12. tx.next <= tx'.next
    BY <1>3, <2>4, <2>7 DEF Ids
  <2>13. PlaylistSaved(y)
    BY <1>1, <1>2, <2>1, <2>4, <2>5, <2>6, <2>7, <2>10, <2>11, <2>12
       DEF PlaylistSaved, p
  <2>14. QED
    BY <2>13
<1>6. CASE Throw
  BY <1>2, <1>6 DEF Undone
<1>7. QED
  BY <1>4, <1>5, <1>6 DEF SavePlaylist, p

LEMMA SaveMessageStep ==
  ASSUME RowsInv, Kept, SaveMessage
  PROVE  Undone \/ \E y : MessageSaved(y)
<1> DEFINE m == ThisMessage
           here == {x \in tx.messages :
                      x.playlist = row /\ x.position = m.position}
           same == {x \in tx.messages \ here :
                      x.playlist = row /\ x.title = m.title}
           id == IF m.key \in {New, Given} THEN tx.next ELSE m.key
           taken == \E x \in tx.messages : x.id = m.key
<1>1. /\ nthMessage \in DOMAIN ThisPlaylist.messages
      /\ m \in Elements(ThisPlaylist.messages)
      /\ ThisPlaylist \in Elements(ThisDeployment.playlists)
      /\ ThisDeployment \in Elements(sent.deployments)
      /\ m.key \in Keys /\ m.position \in Nat /\ m.title \in Titles
      /\ m.languages \in SUBSET Languages
  <2>1. /\ sent \in SentContent /\ nthMessage \in Ids
        /\ nthDeployment \in DOMAIN sent.deployments
        /\ nthPlaylist \in DOMAIN ThisDeployment.playlists
    BY DEF RowsInv, UpdateTypeOK, LoopInv, SaveMessage
  <2>2. nthMessage \in DOMAIN ThisPlaylist.messages
    <3>1. ThisPlaylist.messages \in Seq(SentMessage)
      BY <2>1, SentFacts DEF ThisDeployment, ThisPlaylist
    <3>2. QED
      BY <2>1, <3>1, InDomain DEF SaveMessage
  <2>3. QED
    BY <2>1, <2>2, SentFacts
       DEF ThisDeployment, ThisPlaylist, ThisMessage, Elements
<1>2. /\ statement = "messages" /\ Sound(tx) /\ tx \in Content
      /\ m.key < content.next
      /\ \E x \in tx.playlists : x.id = row
  BY <1>1 DEF SaveMessage, RowsInv, KeysInv, Read, UpdateTypeOK
<1>3. tx.next \in Ids /\ tx.next <= tx.next + 1
  BY <1>2 DEF Content, Ids
<1>4. \A x, z \in tx.messages :
        x.playlist = z.playlist /\ x.position = z.position => x = z
  BY <1>2 DEF Sound, Consistent
<1>5. \A x \in tx.messages :
        x.playlist = row /\ x.title = m.title =>
          x.position = m.position \/ x \in same
  OBVIOUS
<1> HIDE DEF m, same
<1>6. ASSUME same = {}, NEW x \in here,
             tx' = [tx EXCEPT !.messages =
                      (@ \ {x}) \cup
                        {[x EXCEPT !.title = m.title,
                                   !.languages = @ \cup m.languages]}],
             nthMessage' = nthMessage + 1,
             UNCHANGED <<statement, given, nthDeployment, nthPlaylist,
                         nthRecipient, row>>
      PROVE  \E y : MessageSaved(y)
  <2> DEFINE y == [x EXCEPT !.title = m.title,
                            !.languages = @ \cup m.languages]
             u == [tx EXCEPT !.messages = (@ \ {x}) \cup {y}]
  <2>1. x \in tx.messages /\ x.playlist = row /\ x.position = m.position
    BY <1>6
  <2>2. \A z \in tx.messages :
          z.playlist = x.playlist /\ z.title = m.title => z = x
    BY <1>4, <1>5, <1>6, <2>1
  <2> HIDE DEF here
  <2>3. /\ Sound(u) /\ u.next = tx.next
        /\ u.languages = tx.languages /\ u.recipients = tx.recipients
        /\ u.deployments = tx.deployments /\ u.playlists = tx.playlists
        /\ u.messages = (tx.messages \ {x}) \cup {y}
        /\ y.id = x.id /\ y.playlist = x.playlist
        /\ y.position = x.position /\ y.title = m.title
        /\ m.languages \subseteq y.languages
    BY <1>1, <1>2, <2>1, <2>2, OverwriteMessage
  <2>4. tx' = u
    BY <1>6
  <2> HIDE DEF y, u
  <2>5. tx.messages \ {x} = {z \in tx.messages :
                                ~ (z.playlist = row /\ z.position = y.position)}
    BY <1>4, <2>1, <2>3
  <2>6. tx.next <= u.next
    BY <1>3, <2>3 DEF Ids
  <2>7. MessageSaved(y)
    BY <1>1, <1>2, <1>6, <2>1, <2>3, <2>4, <2>5, <2>6 DEF MessageSaved, m
  <2>8. QED
    BY <2>7
<1>7. ASSUME same = {}, here = {}, ~ taken,
             tx' = [tx EXCEPT !.messages =
                       @ \cup {[id |-> id, playlist |-> row,
                                position |-> m.position,
                                title |-> m.title,
                                languages |-> m.languages]},
                       !.next = @ + 1],
             nthMessage' = nthMessage + 1,
             UNCHANGED <<statement, given, nthDeployment, nthPlaylist,
                         nthRecipient, row>>
      PROVE  \E y : MessageSaved(y)
  <2> DEFINE y == [id |-> id, playlist |-> row, position |-> m.position,
                   title |-> m.title, languages |-> m.languages]
             u == [tx EXCEPT !.messages = @ \cup {y}, !.next = @ + 1]
  <2>1. /\ id \in Ids /\ id <= tx.next
        /\ \A x \in tx.messages : x.id # id
    BY <1>1, <1>2, <1>7, KeyOfNewRow
  <2>2. row \in Ids
    BY <1>2 DEF Content, Playlist
  <2> HIDE DEF id
  <2>3. /\ y \in Message /\ y.id = id /\ y.playlist = row
        /\ y.position = m.position /\ y.title = m.title
        /\ y.languages = m.languages
    BY <1>1, <2>1, <2>2 DEF Message
  <2> HIDE DEF y
  <2>4. \A x \in tx.messages : ~ (x.playlist = row /\ x.position = y.position)
    BY <1>7, <2>3
  <2>5. \A x \in tx.messages :
          x.playlist = y.playlist => /\ x.position # y.position
                                     /\ x.title # y.title
    BY <1>5, <1>7, <2>3, <2>4
  <2>6. tx' = u
    BY <1>7 DEF y
  <2>7. /\ Sound(u) /\ u.next = tx.next + 1
        /\ u.languages = tx.languages /\ u.recipients = tx.recipients
        /\ u.deployments = tx.deployments /\ u.playlists = tx.playlists
        /\ u.messages = tx.messages \cup {y}
    <3>1. \E p \in tx.playlists : y.playlist = p.id
      BY <1>2, <2>3
    <3>2. y.id <= tx.next /\ \A x \in tx.messages : x.id # y.id
      BY <2>1, <2>3
    <3> HIDE DEF u
    <3>3. QED
      BY <1>2, <2>3, <2>5, <3>1, <3>2, InsertMessage DEF u
  <2> HIDE DEF u
  <2>8. tx.next <= u.next
    BY <1>3, <2>7 DEF Ids
  <2>9. tx.messages = {z \in tx.messages :
                         ~ (z.playlist = row /\ z.position = y.position)}
    BY <2>4
  <2>10. MessageSaved(y)
    BY <1>1, <1>2, <1>7, <2>1, <2>3, <2>4, <2>6, <2>7, <2>8, <2>9
       DEF MessageSaved, m
  <2>11. QED
    BY <2>10
<1>8. CASE Throw
  BY <1>2, <1>8 DEF Undone
<1>9. QED
  BY <1>6, <1>7, <1>8 DEF SaveMessage, m, same

\* A step of the transaction.
Step ==
  \/ Undone
  \/ DeploymentSkipped \/ (\E y : DeploymentSaved(y)) \/ LeftOutDeleted
  \/ (\E y : PlaylistSaved(y)) \/ (\E y : MessageSaved(y))
  \/ (Kept /\ NextPlaylist) \/ (Kept /\ NextDeployment)
  \/ MissingPlaylistsDeleted \/ MissingDeploymentsDeleted
  \/ (\E r : RecipientSaved(r))

LEMMA TransactionSteps ==
  ASSUME RowsInv, Transaction
  PROVE  Step
<1>1. Kept
  BY DEF Transaction, Kept
<1>2. CASE CheckDeployments \/ CallFails
  BY <1>1, <1>2 DEF Step, Undone, CheckDeployments, CallFails
<1>3. CASE SaveDeployment
  BY <1>1, <1>3, SaveDeploymentStep DEF Step
<1>4. CASE DeleteLeftOut
  BY <1>1, <1>4, DeleteLeftOutStep DEF Step
<1>5. CASE SavePlaylist
  BY <1>1, <1>5, SavePlaylistStep DEF Step
<1>6. CASE SaveMessage
  BY <1>1, <1>6, SaveMessageStep DEF Step
<1>7. CASE NextPlaylist \/ NextDeployment
  BY <1>1, <1>7 DEF Step
<1>8. CASE DeleteMissingPlaylists
  BY <1>1, <1>8, DeleteMissingPlaylistsStep DEF Step
<1>9. CASE DeleteMissingDeployments
  BY <1>1, <1>9, DeleteMissingDeploymentsStep DEF Step
<1>10. CASE SaveRecipient
  BY <1>1, <1>10, SaveRecipientStep DEF Step
<1>11. QED
  BY <1>2, <1>3, <1>4, <1>5, <1>6, <1>7, <1>8, <1>9, <1>10 DEF Transaction

LEMMA RowsInit == UpdateInit => RowsInv
<1> SUFFICES ASSUME UpdateInit
             PROVE  RowsInv
  OBVIOUS
<1>1. Sound(content)
  BY ContentsAssumption DEF UpdateInit, Sound
<1>2. sent \in SentContent
  BY DEF UpdateInit, SentContent
<1>3. UpdateTypeOK
  <2>1. content \in Content /\ 1 \in Ids /\ 0 \in Nat
    BY <1>1 DEF Sound, Ids
  <2>2. QED
    BY <1>2, <2>1 DEF UpdateInit, UpdateTypeOK
<1>4. LoopInv /\ KeysInv
  BY <1>1 DEF UpdateInit, LoopInv, KeysInv
<1>5. QED
  BY <1>3, <1>4 DEF RowsInv

\* The rows seen by the next statement are sound, with all that is kept.
LEMMA TypeStep ==
  ASSUME UpdateTypeOK, Kept, tx' \in Content, given' \in SUBSET Ids,
         statement' \in {"idle", "deployments", "playlists", "messages",
                         "missing", "recipients"},
         nthDeployment' \in Ids, nthPlaylist' \in Ids, nthMessage' \in Ids,
         nthRecipient' \in Ids, row' \in Nat
  PROVE  UpdateTypeOK'
  BY DEF UpdateTypeOK, Kept

LEMMA RowsStep ==
  ASSUME RowsInv, Step
  PROVE  RowsInv'
<1> USE DEF RowsInv
<1>1. /\ \A n \in Ids : n + 1 \in Ids
      /\ 1 \in Ids /\ 0 \in Nat
      /\ \A id \in Ids : id \in Nat
  BY DEF Ids
<1>2. /\ sent \in SentContent /\ given \in SUBSET Ids
      /\ nthDeployment \in Ids /\ nthPlaylist \in Ids
      /\ nthMessage \in Ids /\ nthRecipient \in Ids /\ row \in Nat
      /\ Sound(content) /\ Sound(tx)
      /\ content.next \in Nat /\ tx.next \in Nat
  BY DEF UpdateTypeOK, KeysInv, Content, Ids
<1>3. CASE Undone
  <2>1. UpdateTypeOK'
    BY <1>1, <1>2, <1>3, TypeStep DEF Undone, Throw, Idle, Sound
  <2>2. LoopInv'
    BY <1>3 DEF LoopInv, Undone, Throw, Idle, Kept
  <2>3. KeysInv'
    BY <1>2, <1>3 DEF KeysInv, Undone, Throw, Idle, Kept
  <2>4. QED
    BY <2>1, <2>2, <2>3
<1>4. CASE DeploymentSkipped
  <2>1. UpdateTypeOK'
    BY <1>1, <1>2, <1>4, TypeStep DEF DeploymentSkipped, UpdateTypeOK
  <2>2. LoopInv'
    BY <1>4 DEF LoopInv, DeploymentSkipped, Kept
  <2>3. KeysInv'
    BY <1>2, <1>4 DEF KeysInv, DeploymentSkipped, Kept
  <2>4. QED
    BY <2>1, <2>2, <2>3
<1>5. ASSUME NEW y, DeploymentSaved(y)
      PROVE  RowsInv'
  <2>1. UpdateTypeOK'
    BY <1>1, <1>2, <1>5, TypeStep DEF DeploymentSaved, UpdateTypeOK, Sound
  <2>2. LoopInv'
    BY <1>5 DEF LoopInv, DeploymentSaved, Kept
  <2>3. KeysInv'
    BY <1>2, <1>5 DEF KeysInv, DeploymentSaved, Kept
  <2>4. QED
    BY <2>1, <2>2, <2>3
<1>6. CASE LeftOutDeleted
  <2>1. UpdateTypeOK'
    BY <1>1, <1>2, <1>6, TypeStep DEF LeftOutDeleted, UpdateTypeOK, Sound
  <2>2. LoopInv'
    BY <1>6 DEF LoopInv, LeftOutDeleted, Kept
  <2>3. KeysInv'
    BY <1>2, <1>6 DEF KeysInv, LeftOutDeleted, Kept
  <2>4. QED
    BY <2>1, <2>2, <2>3
<1>7. ASSUME NEW y, PlaylistSaved(y)
      PROVE  RowsInv'
  <2>1. UpdateTypeOK'
    BY <1>1, <1>2, <1>7, TypeStep DEF PlaylistSaved, UpdateTypeOK, Sound
  <2>2. LoopInv'
    BY <1>7 DEF LoopInv, PlaylistSaved, Kept, ThisDeployment
  <2>3. \E x \in tx'.playlists : x.id = row'
    BY <1>7 DEF PlaylistSaved, Replaced, Inserted
  <2>4. KeysInv'
    BY <1>2, <1>7, <2>3 DEF KeysInv, PlaylistSaved, Kept, Sound, Content, Ids
  <2>5. QED
    BY <2>1, <2>2, <2>4
<1>8. ASSUME NEW y, MessageSaved(y)
      PROVE  RowsInv'
  <2>1. UpdateTypeOK'
    BY <1>1, <1>2, <1>8, TypeStep DEF MessageSaved, UpdateTypeOK, Sound
  <2>2. LoopInv'
    BY <1>8 DEF LoopInv, MessageSaved, Kept, ThisDeployment
  <2>3. KeysInv'
    BY <1>2, <1>8 DEF KeysInv, MessageSaved, Kept, Sound, Content, Ids
  <2>4. QED
    BY <2>1, <2>2, <2>3
<1>9. CASE Kept /\ (NextPlaylist \/ NextDeployment)
  <2>1. UpdateTypeOK'
    BY <1>1, <1>2, <1>9, TypeStep DEF NextPlaylist, NextDeployment, UpdateTypeOK
  <2>2. LoopInv'
    BY <1>9 DEF LoopInv, NextPlaylist, NextDeployment, Kept
  <2>3. KeysInv'
    BY <1>2, <1>9 DEF KeysInv, NextPlaylist, NextDeployment, Kept
  <2>4. QED
    BY <2>1, <2>2, <2>3
<1>10. CASE MissingPlaylistsDeleted \/ MissingDeploymentsDeleted
  <2>1. UpdateTypeOK'
    BY <1>1, <1>2, <1>10, TypeStep
       DEF MissingPlaylistsDeleted, MissingDeploymentsDeleted, UpdateTypeOK,
           Sound, loops
  <2>2. LoopInv'
    BY <1>10 DEF LoopInv, MissingPlaylistsDeleted, MissingDeploymentsDeleted,
                 Kept, loops
  <2>3. KeysInv'
    BY <1>2, <1>10
       DEF KeysInv, MissingPlaylistsDeleted, MissingDeploymentsDeleted, Kept
  <2>4. QED
    BY <2>1, <2>2, <2>3
<1>11. ASSUME NEW r, RecipientSaved(r)
       PROVE  RowsInv'
  <2>1. UpdateTypeOK'
    BY <1>1, <1>2, <1>11, TypeStep DEF RecipientSaved, UpdateTypeOK, Sound
  <2>2. LoopInv'
    BY <1>11 DEF LoopInv, RecipientSaved, Kept
  <2>3. KeysInv'
    BY <1>2, <1>11 DEF KeysInv, RecipientSaved, Kept
  <2>4. QED
    BY <2>1, <2>2, <2>3
<1>12. QED
  BY <1>3, <1>4, <1>5, <1>6, <1>7, <1>8, <1>9, <1>10, <1>11 DEF Step

LEMMA RowsBegin ==
  ASSUME RowsInv, NEW c \in Updates, Begin(c)
  PROVE  RowsInv'
<1>1. /\ c \in SentContent /\ c.languages \in SUBSET Languages
  BY UpdatesAssumption DEF SentContent
<1>2. /\ Sound(content) /\ content \in Content /\ content.next \in Nat
  BY DEF RowsInv, KeysInv, Sound, Content, Ids
<1>3. /\ tx' \in Content /\ tx'.next = content.next
      /\ tx'.deployments = content.deployments
      /\ tx'.playlists = content.playlists
      /\ tx'.messages = content.messages
  BY <1>1, <1>2 DEF Begin, Content
<1>4. Sound(tx')
  BY <1>2, <1>3, SoundSubset
<1>5. UpdateTypeOK'
  <2>1. /\ sent' = c /\ updates' = updates + 1 /\ accepted' = FALSE
        /\ statement' = "deployments"
        /\ UNCHANGED <<content, cascades, given, loops, before>>
    BY DEF Begin
  <2>2. cascades' \in BOOLEAN /\ accepted' \in BOOLEAN
    BY <2>1 DEF RowsInv, UpdateTypeOK
  <2>3. /\ content' \in Content /\ before' \in Content /\ given' \in SUBSET Ids
        /\ nthDeployment' \in Ids /\ nthPlaylist' \in Ids
        /\ nthMessage' \in Ids /\ nthRecipient' \in Ids /\ row' \in Nat
        /\ updates' \in Nat
    BY <2>1 DEF RowsInv, UpdateTypeOK, loops
  <2>4. QED
    BY <1>1, <1>3, <2>1, <2>2, <2>3 DEF UpdateTypeOK
<1>6. LoopInv'
  BY DEF RowsInv, LoopInv, Begin, loops
<1>7. KeysInv'
  BY <1>2, <1>3, <1>4 DEF KeysInv, Begin
<1>8. QED
  BY <1>5, <1>6, <1>7 DEF RowsInv

LEMMA RowsCommit ==
  ASSUME RowsInv, Commit
  PROVE  RowsInv'
<1>1. Sound(content) /\ Sound(tx)
  BY DEF RowsInv, KeysInv
<1>2. UpdateTypeOK'
  BY <1>1 DEF RowsInv, UpdateTypeOK, Commit, Idle, Sound, Ids
<1>3. LoopInv' /\ KeysInv'
  BY <1>1 DEF LoopInv, KeysInv, Commit, Idle
<1>4. QED
  BY <1>2, <1>3 DEF RowsInv

LEMMA RowsNext == RowsInv /\ [UpdateNext]_updateVars => RowsInv'
<1>1. ASSUME RowsInv, UNCHANGED updateVars
      PROVE  RowsInv'
  BY <1>1 DEF RowsInv, UpdateTypeOK, LoopInv, KeysInv, updateVars, loops,
              ThisDeployment
<1>2. QED
  BY <1>1, RowsBegin, RowsCommit, TransactionSteps, RowsStep DEF UpdateNext

LEMMA RowsAlways == UpdateSpec => []RowsInv
<1>1. QED
  BY RowsInit, RowsNext, PTL DEF UpdateSpec

\* The variables of the update keep their types.
THEOREM UpdateTypeCorrect == UpdateSpec => []UpdateTypeOK
<1>1. RowsInv => UpdateTypeOK
  BY DEF RowsInv
<1>2. QED
  BY <1>1, RowsAlways, PTL

\* The committed rows keep their unique keys and references.
THEOREM RowsStayConsistent == UpdateSpec => []RowsConsistent
<1>1. RowsInv => RowsConsistent
  BY DEF RowsInv, KeysInv, Sound, RowsConsistent
<1>2. QED
  BY <1>1, RowsAlways, PTL

-----------------------------------------------------------------------------
(* SpecContent: the recipients.                                            *)

\* The recipients saved so far have one of the languages sent.
RecipientsInv ==
  /\ statement # "recipients" => nthRecipient = 1
  /\ statement # "idle" => tx.languages = sent.languages
  /\ statement = "recipients" =>
       \A k \in DOMAIN sent.recipients :
         k < nthRecipient =>
           tx.recipients[sent.recipients[k].id] \in sent.languages
  /\ RecipientLanguageListed

LEMMA RecipientsStep ==
  ASSUME RowsInv, RecipientsInv, Step
  PROVE  RecipientsInv'
<1>1. RecipientLanguageListed'
  BY DEF Step, Kept, Undone, DeploymentSkipped, DeploymentSaved, LeftOutDeleted,
         PlaylistSaved, MessageSaved, MissingPlaylistsDeleted,
         MissingDeploymentsDeleted, RecipientSaved, RecipientsInv,
         RecipientLanguageListed
<1>2. /\ \A k \in DOMAIN sent.recipients :
           k \in Nat /\ k >= 1 /\ sent.recipients[k].id \in RecipientIds
      /\ nthRecipient \in Nat
      /\ tx.recipients \in [RecipientIds -> Languages \cup {NoLanguage}]
  BY SentFacts DEF RowsInv, UpdateTypeOK, Content, Ids
<1>3. CASE Undone
  BY <1>1, <1>3 DEF RecipientsInv, Undone, Throw, Idle
<1>4. ASSUME NEW r, RecipientSaved(r)
      PROVE  RecipientsInv'
  <2>1. \A k \in DOMAIN sent'.recipients :
          k < nthRecipient' =>
            tx'.recipients[sent'.recipients[k].id] \in sent'.languages
    <3>1. sent' = sent
      BY <1>4 DEF RecipientSaved, Kept
    <3> SUFFICES ASSUME NEW k \in DOMAIN sent.recipients, k < nthRecipient + 1
                 PROVE  tx'.recipients[sent.recipients[k].id] \in sent.languages
      BY <1>4, <3>1 DEF RecipientSaved
    <3>2. CASE sent.recipients[k].id = r.id
      BY <1>2, <1>4, <3>2 DEF RecipientSaved
    <3>3. CASE sent.recipients[k].id # r.id
      <4>1. k # nthRecipient
        BY <1>4, <3>3 DEF RecipientSaved
      <4>2. tx.recipients[sent.recipients[k].id] \in sent.languages
        BY <1>2, <1>4, <4>1 DEF RecipientSaved, RecipientsInv
      <4>3. QED
        BY <1>2, <1>4, <3>3, <4>2 DEF RecipientSaved
    <3>4. QED
      BY <3>2, <3>3
  <2>2. QED
    BY <1>1, <1>4, <2>1 DEF RecipientSaved, RecipientsInv, Kept
<1>5. CASE MissingDeploymentsDeleted
  BY <1>1, <1>2, <1>5 DEF MissingDeploymentsDeleted, RecipientsInv, Kept, loops
<1>6. CASE Kept /\ (NextPlaylist \/ NextDeployment)
  BY <1>1, <1>6 DEF NextPlaylist, NextDeployment, RecipientsInv, Kept
<1>7. CASE DeploymentSkipped \/ LeftOutDeleted \/ MissingPlaylistsDeleted
  BY <1>1, <1>7 DEF DeploymentSkipped, LeftOutDeleted, MissingPlaylistsDeleted,
                    RecipientsInv, Kept, loops
<1>8. ASSUME NEW y, DeploymentSaved(y) \/ PlaylistSaved(y) \/ MessageSaved(y)
      PROVE  RecipientsInv'
  BY <1>1, <1>8 DEF DeploymentSaved, PlaylistSaved, MessageSaved,
                    RecipientsInv, Kept
<1>9. QED
  BY <1>3, <1>4, <1>5, <1>6, <1>7, <1>8 DEF Step

LEMMA RecipientsCommit ==
  ASSUME RowsInv, RecipientsInv, Commit
  PROVE  RecipientsInv'
<1>1. \A k \in DOMAIN sent.recipients : k < nthRecipient
  BY SentFacts DEF RowsInv, UpdateTypeOK, Commit, Ids
<1>2. \A s \in Elements(sent.recipients) :
        tx.recipients[s.id] \in tx.languages
  BY <1>1 DEF RecipientsInv, Commit, Elements
<1>3. RecipientLanguageListed'
  BY <1>2 DEF RecipientLanguageListed, Commit, Elements
<1>4. QED
  BY <1>3 DEF RecipientsInv, Commit, Idle

LEMMA RecipientsNext ==
  RowsInv /\ RecipientsInv /\ [UpdateNext]_updateVars => RecipientsInv'
<1> SUFFICES ASSUME RowsInv, RecipientsInv, [UpdateNext]_updateVars
             PROVE  RecipientsInv'
  OBVIOUS
<1>1. CASE UNCHANGED updateVars
  BY <1>1 DEF RecipientsInv, RecipientLanguageListed, updateVars, loops
<1>2. ASSUME NEW c \in Updates, Begin(c)
      PROVE  RecipientsInv'
  <2>1. content \in Content
    BY DEF RowsInv, UpdateTypeOK
  <2>2. tx'.languages = c.languages
    BY <1>2, <2>1 DEF Begin, Content
  <2>3. QED
    BY <1>2, <2>2 DEF RecipientsInv, RecipientLanguageListed, Begin, loops
<1>3. QED
  BY <1>1, <1>2, RecipientsCommit, TransactionSteps, RecipientsStep
     DEF UpdateNext

\* After an accepted update, the recipients it sent have one of its languages.
THEOREM RecipientsListed == UpdateSpec => []RecipientLanguageListed
<1>1. UpdateInit => RecipientsInv
  BY DEF UpdateInit, RecipientsInv, RecipientLanguageListed
<1>2. UpdateSpec => []RecipientsInv
  BY <1>1, RowsAlways, RecipientsNext, PTL DEF UpdateSpec
<1>3. RecipientsInv => RecipientLanguageListed
  BY DEF RecipientsInv
<1>4. QED
  BY <1>2, <1>3, PTL

-----------------------------------------------------------------------------
(* SpecContent: the deployments.                                           *)

SentNumbers == Numbers(Elements(sent.deployments))

DeploymentsGood(after, prior) ==
  /\ \A x \in after : x.number \in SentNumbers
  /\ \A d \in Elements(sent.deployments) :
       \/ d.number \in Numbers(after)
       \/ /\ d.key # New
          /\ \A x \in prior :
               x.number = d.number =>
                 \A e \in Elements(sent.deployments) : e.key # x.id

\* What is left to delete while deployments are saved, and what is there of
\* those sent when playlists are.
SavingDeployments ==
  /\ content.deployments \subseteq tx.deployments
  /\ \A x \in tx.deployments \ content.deployments : x.number \in SentNumbers
  /\ \A i \in DOMAIN sent.deployments :
       i < nthDeployment =>
         sent.deployments[i].number \in Numbers(tx.deployments)

DeploymentsSaved ==
  /\ \A x \in tx.deployments : x.number \in SentNumbers
  /\ SentNumbers \subseteq Numbers(tx.deployments)
  /\ \A x \in content.deployments :
       x.number \in SentNumbers => x \in tx.deployments

DeploymentsInv ==
  /\ statement = "deployments" => SavingDeployments
  /\ statement \in {"playlists", "messages", "missing"} => DeploymentsSaved
  /\ statement = "recipients" =>
       DeploymentsGood(tx.deployments, content.deployments)
  /\ accepted => DeploymentsGood(content.deployments, before.deployments)

LEMMA SkippedKept ==
  ASSUME RowsInv, SavingDeployments, DeploymentSkipped
  PROVE  SavingDeployments'
<1>1. ThisDeployment.number \in Numbers(tx.deployments)
  BY DEF SavingDeployments, DeploymentSkipped, Numbers
<1>2. \A i \in DOMAIN sent.deployments :
        i < nthDeployment + 1 => i < nthDeployment \/ i = nthDeployment
  BY SentFacts DEF RowsInv, UpdateTypeOK, Ids
<1>3. QED
  BY <1>1, <1>2 DEF SavingDeployments, DeploymentSkipped, Kept, ThisDeployment,
                    SentNumbers

LEMMA SavedKept ==
  ASSUME RowsInv, SavingDeployments, NEW y, DeploymentSaved(y)
  PROVE  SavingDeployments'
<1>1. /\ sent' = sent /\ content' = content
      /\ nthDeployment' = nthDeployment + 1
      /\ tx'.deployments = tx.deployments \cup {y}
      /\ y.number = sent.deployments[nthDeployment].number
      /\ nthDeployment \in DOMAIN sent.deployments
  BY DEF DeploymentSaved, Kept, ThisDeployment
<1>2. \A i \in DOMAIN sent.deployments :
        i < nthDeployment + 1 => i < nthDeployment \/ i = nthDeployment
  BY SentFacts DEF RowsInv, UpdateTypeOK, Ids
<1>3. y.number \in SentNumbers
  BY <1>1 DEF SentNumbers, Numbers, Elements
<1>4. Numbers(tx'.deployments) = Numbers(tx.deployments) \cup {y.number}
  BY <1>1 DEF Numbers
<1>5. SentNumbers' = SentNumbers
  BY <1>1 DEF SentNumbers
<1>6. content'.deployments \subseteq tx'.deployments
  BY <1>1 DEF SavingDeployments
<1>7. \A x \in tx'.deployments \ content'.deployments : x.number \in SentNumbers'
  BY <1>1, <1>3, <1>5 DEF SavingDeployments
<1>8. \A i \in DOMAIN sent'.deployments :
        i < nthDeployment' =>
          sent'.deployments[i].number \in Numbers(tx'.deployments)
  BY <1>1, <1>2, <1>4 DEF SavingDeployments
<1>9. QED
  BY <1>6, <1>7, <1>8 DEF SavingDeployments

LEMMA LeftOutGone ==
  ASSUME RowsInv, SavingDeployments, LeftOutDeleted
  PROVE  DeploymentsSaved'
<1>1. /\ sent' = sent /\ content' = content
      /\ tx'.deployments = tx.deployments \ LeftOut
  BY DEF LeftOutDeleted, Kept
<1>2. SentNumbers' = SentNumbers
  BY <1>1 DEF SentNumbers
<1>3. LeftOut = {x \in content.deployments : x.number \notin SentNumbers}
  BY DEF LeftOut, SentNumbers
<1>4. SentNumbers \subseteq Numbers(tx.deployments)
  <2>1. \A i \in DOMAIN sent.deployments : i < nthDeployment
    BY SentFacts DEF RowsInv, UpdateTypeOK, LeftOutDeleted, Ids
  <2>2. QED
    BY <2>1 DEF SavingDeployments, SentNumbers, Numbers, Elements
<1>5. \A x \in tx'.deployments : x.number \in SentNumbers
  BY <1>1, <1>3 DEF SavingDeployments
<1>6. SentNumbers \subseteq Numbers(tx'.deployments)
  BY <1>1, <1>3, <1>4 DEF Numbers
<1>7. \A x \in content.deployments :
        x.number \in SentNumbers => x \in tx'.deployments
  BY <1>1, <1>3 DEF SavingDeployments
<1>8. QED
  BY <1>1, <1>2, <1>5, <1>6, <1>7 DEF DeploymentsSaved

LEMMA MissingGone ==
  ASSUME RowsInv, DeploymentsSaved, MissingDeploymentsDeleted
  PROVE  DeploymentsGood(tx.deployments, content.deployments)'
<1> DEFINE keys == {d.key : d \in Elements(sent.deployments)}
<1>1. /\ sent' = sent /\ content' = content
      /\ tx'.deployments = tx.deployments \ MissingDeployments
  BY DEF MissingDeploymentsDeleted, Kept
<1>2. \A x \in MissingDeployments : New \notin keys /\ x.id \notin keys
  BY DEF MissingDeployments, Missing
<1>3. \A x \in tx'.deployments : x.number \in SentNumbers
  BY <1>1 DEF DeploymentsSaved
<1>4. ASSUME NEW d \in Elements(sent.deployments),
             d.number \notin Numbers(tx'.deployments)
      PROVE  /\ d.key # New
             /\ \A z \in content.deployments :
                  z.number = d.number =>
                    \A e \in Elements(sent.deployments) : e.key # z.id
  <2>1. d.number \in SentNumbers
    BY DEF SentNumbers, Numbers
  <2>2. PICK x \in tx.deployments : x.number = d.number
    BY <2>1 DEF DeploymentsSaved, Numbers
  <2>3. x \in MissingDeployments
    BY <1>1, <1>4, <2>2 DEF Numbers
  <2>4. \A z \in content.deployments : z.number = d.number => z = x
    BY <2>1, <2>2 DEF DeploymentsSaved, RowsInv, KeysInv, Sound, Consistent
  <2>5. QED
    BY <1>2, <2>3, <2>4
<1>5. DeploymentsGood(tx'.deployments, content.deployments)
  BY <1>3, <1>4 DEF DeploymentsGood
<1>6. QED
  BY <1>1, <1>5 DEF DeploymentsGood, SentNumbers

LEMMA DeploymentsStep ==
  ASSUME RowsInv, DeploymentsInv, Step
  PROVE  DeploymentsInv'
<1>1. accepted' = accepted /\ (accepted => statement = "idle")
  BY DEF Step, Kept, Undone, DeploymentSkipped, DeploymentSaved, LeftOutDeleted,
         PlaylistSaved, MessageSaved, MissingPlaylistsDeleted,
         MissingDeploymentsDeleted, RecipientSaved, RowsInv, LoopInv
<1>2. CASE Undone
  BY <1>1, <1>2 DEF DeploymentsInv, Undone, Throw, Idle
<1>3. CASE DeploymentSkipped
  BY <1>1, <1>3, SkippedKept DEF DeploymentsInv, DeploymentSkipped
<1>4. ASSUME NEW y, DeploymentSaved(y)
      PROVE  DeploymentsInv'
  BY <1>1, <1>4, SavedKept DEF DeploymentsInv, DeploymentSaved
<1>5. CASE LeftOutDeleted
  BY <1>1, <1>5, LeftOutGone DEF DeploymentsInv, LeftOutDeleted
<1>6. CASE MissingDeploymentsDeleted
  BY <1>1, <1>6, MissingGone DEF DeploymentsInv, MissingDeploymentsDeleted
<1>7. CASE Kept /\ (NextPlaylist \/ NextDeployment)
  BY <1>1, <1>7 DEF DeploymentsInv, DeploymentsSaved, SentNumbers, Kept,
                    NextPlaylist, NextDeployment
<1>8. CASE MissingPlaylistsDeleted
  BY <1>1, <1>8 DEF DeploymentsInv, DeploymentsSaved, SentNumbers, Kept,
                    MissingPlaylistsDeleted
<1>9. ASSUME NEW y, PlaylistSaved(y) \/ MessageSaved(y)
      PROVE  DeploymentsInv'
  BY <1>1, <1>9 DEF DeploymentsInv, DeploymentsSaved, SentNumbers, Kept,
                    PlaylistSaved, MessageSaved
<1>10. ASSUME NEW r, RecipientSaved(r)
       PROVE  DeploymentsInv'
  BY <1>1, <1>10 DEF DeploymentsInv, DeploymentsGood, SentNumbers, Kept,
                     RecipientSaved
<1>11. QED
  BY <1>2, <1>3, <1>4, <1>5, <1>6, <1>7, <1>8, <1>9, <1>10 DEF Step

LEMMA DeploymentsNext ==
  RowsInv /\ DeploymentsInv /\ [UpdateNext]_updateVars => DeploymentsInv'
<1> SUFFICES ASSUME RowsInv, DeploymentsInv, [UpdateNext]_updateVars
             PROVE  DeploymentsInv'
  OBVIOUS
<1>1. CASE UNCHANGED updateVars
  BY <1>1 DEF DeploymentsInv, DeploymentsSaved, SavingDeployments,
              DeploymentsGood, SentNumbers, updateVars, loops
<1>2. ASSUME NEW c \in Updates, Begin(c)
      PROVE  DeploymentsInv'
  <2>1. /\ content \in Content /\ nthDeployment' = 1
        /\ \A i \in DOMAIN c.deployments : i \in Nat /\ ~ (i < 1)
    <3>1. c.deployments \in Seq(SentDeployment)
      BY UpdatesAssumption DEF SentContent
    <3>2. QED
      BY <1>2, <3>1 DEF RowsInv, UpdateTypeOK, LoopInv, Begin, loops
  <2>2. tx'.deployments = content.deployments
    BY <1>2, <2>1 DEF Begin, Content
  <2>3. SavingDeployments'
    BY <1>2, <2>1, <2>2 DEF SavingDeployments, Begin
  <2>4. QED
    BY <1>2, <2>3 DEF DeploymentsInv, Begin
<1>3. CASE Commit
  BY <1>3 DEF DeploymentsInv, DeploymentsGood, SentNumbers, Commit, Idle
<1>4. QED
  BY <1>1, <1>2, <1>3, TransactionSteps, DeploymentsStep DEF UpdateNext

\* After an accepted update there are the deployments sent and no others,
\* except one written by its number and deleted by its key.
THEOREM DeploymentsFollow == UpdateSpec => []DeploymentsAsSent
<1>1. UpdateInit => DeploymentsInv
  BY DEF UpdateInit, DeploymentsInv
<1>2. UpdateSpec => []DeploymentsInv
  BY <1>1, RowsAlways, DeploymentsNext, PTL DEF UpdateSpec
<1>3. DeploymentsInv => DeploymentsAsSent
  BY DEF DeploymentsInv, DeploymentsGood, DeploymentsAsSent, SentNumbers
<1>4. QED
  BY <1>2, <1>3, PTL

-----------------------------------------------------------------------------
(* SpecContent: the playlists.                                             *)

\* The playlist sent in place i, j has been written.
Reached(i, j) ==
  \/ i < nthDeployment
  \/ i = nthDeployment /\ j < nthPlaylist
  \/ statement = "messages" /\ i = nthDeployment /\ j = nthPlaylist

\* The row was there before, in the same place.
WasThere(x, prior) ==
  \E y \in prior : /\ y.id = x.id /\ y.deployment = x.deployment
                   /\ y.position = x.position

PlacedAsSent(numbered, x) ==
  \E d \in Elements(sent.deployments) : \E p \in Elements(d.playlists) :
    Placed(numbered, x, d, p)

PlaylistsGood(after, numbered, prior) ==
  /\ \A d \in Elements(sent.deployments) : \A p \in Elements(d.playlists) :
       \/ \E x \in after : Placed(numbered, x, d, p)
       \/ \E x \in prior : /\ Placed(numbered, x, d, p)
                           /\ x.id \notin PlaylistKeys(sent)
  /\ \A x \in after : \/ PlaylistKeys(sent) \cap {New, x.id} # {}
                      \/ PlacedAsSent(numbered, x)

\* Where each row comes from, so that it is known which may be deleted.
OriginsKnown ==
  \A x \in tx.playlists : \/ WasThere(x, content.playlists)
                          \/ x.id \in given
                          \/ PlaylistKeys(sent) \cap {New, x.id} # {}

SavingPlaylists ==
  /\ \A x \in tx.playlists : x.id \in given => PlacedAsSent(tx.deployments, x)
  /\ \A i \in DOMAIN sent.deployments :
       \A j \in DOMAIN sent.deployments[i].playlists :
         Reached(i, j) =>
           \E x \in tx.playlists :
             Placed(tx.deployments, x, sent.deployments[i],
                    sent.deployments[i].playlists[j])

PlacesInv ==
  /\ statement \in {"deployments", "playlists", "messages"} => OriginsKnown
  /\ statement \in {"playlists", "messages"} => SavingPlaylists
  /\ statement \in {"missing", "recipients"} =>
       PlaylistsGood(tx.playlists, tx.deployments, content.playlists)
  /\ accepted =>
       PlaylistsGood(content.playlists, content.deployments, before.playlists)

\* A row in the same place as another one is placed alike.
LEMMA SamePlace ==
  ASSUME NEW numbered, NEW x, NEW y, NEW d, NEW p,
         x.deployment = y.deployment, x.position = y.position,
         Placed(numbered, x, d, p)
  PROVE  Placed(numbered, y, d, p)
  BY DEF Placed

LEMMA LoopTypes ==
  ASSUME RowsInv
  PROVE  /\ nthDeployment \in Nat /\ nthPlaylist \in Nat /\ nthMessage \in Nat
         /\ Len(sent.deployments) \in Nat
         /\ \A i \in DOMAIN sent.deployments :
              /\ i \in Nat /\ 1 <= i /\ i <= Len(sent.deployments)
              /\ Len(sent.deployments[i].playlists) \in Nat
              /\ \A j \in DOMAIN sent.deployments[i].playlists :
                   /\ j \in Nat /\ 1 <= j
                   /\ j <= Len(sent.deployments[i].playlists)
<1>1. /\ sent \in SentContent /\ nthDeployment \in Ids /\ nthPlaylist \in Ids
      /\ nthMessage \in Ids
  BY DEF RowsInv, UpdateTypeOK
<1>2. sent.deployments \in Seq(SentDeployment)
  BY <1>1, SentFacts
<1>3. \A i \in DOMAIN sent.deployments :
        /\ Len(sent.deployments[i].playlists) \in Nat
        /\ \A j \in DOMAIN sent.deployments[i].playlists :
             /\ j \in Nat /\ 1 <= j
             /\ j <= Len(sent.deployments[i].playlists)
  <2>1. TAKE i \in DOMAIN sent.deployments
  <2>2. sent.deployments[i].playlists \in Seq(SentPlaylist)
    BY <1>1, SentFacts
  <2>3. QED
    BY <2>2
<1>4. QED
  BY <1>1, <1>2, <1>3 DEF Ids

LEMMA OriginsOfSaved ==
  ASSUME RowsInv, OriginsKnown, NEW y, PlaylistSaved(y)
  PROVE  OriginsKnown'
<1>1. sent' = sent /\ content' = content /\ given \subseteq given'
  BY DEF PlaylistSaved, Kept, Replaced, Inserted
<1>2. ThisPlaylist.key \in PlaylistKeys(sent)
  BY DEF PlaylistSaved, PlaylistKeys, Elements, ThisDeployment, ThisPlaylist
<1>3. \/ WasThere(y, content.playlists)
      \/ y.id \in given'
      \/ PlaylistKeys(sent) \cap {New, y.id} # {}
  <2>1. CASE Replaced(y)
    BY <1>1, <2>1 DEF Replaced, OriginsKnown, WasThere
  <2>2. CASE Inserted(y)
    BY <1>2, <2>2 DEF Inserted
  <2>3. QED
    BY <2>1, <2>2 DEF PlaylistSaved
<1>4. \A x \in tx'.playlists : x = y \/ x \in tx.playlists
  BY DEF PlaylistSaved, Replaced, Inserted
<1>5. \A x \in tx'.playlists : \/ WasThere(x, content.playlists)
                               \/ x.id \in given'
                               \/ PlaylistKeys(sent) \cap {New, x.id} # {}
  BY <1>1, <1>3, <1>4 DEF OriginsKnown
<1>6. QED
  BY <1>1, <1>5 DEF OriginsKnown, WasThere

LEMMA PlacesOfSaved ==
  ASSUME RowsInv, SavingPlaylists, NEW y, PlaylistSaved(y)
  PROVE  SavingPlaylists'
<1>1. /\ sent' = sent /\ tx'.deployments = tx.deployments
      /\ nthDeployment' = nthDeployment /\ nthPlaylist' = nthPlaylist
      /\ statement = "playlists"
      /\ nthDeployment \in DOMAIN sent.deployments
      /\ nthPlaylist \in DOMAIN ThisDeployment.playlists
      /\ Placed(tx.deployments, y, ThisDeployment, ThisPlaylist)
  BY DEF PlaylistSaved, Kept
<1>2. PlacedAsSent(tx.deployments, y)
  BY <1>1 DEF PlacedAsSent, ThisDeployment, ThisPlaylist, Elements
<1>3. \A x \in tx'.playlists : x.id \in given' => PlacedAsSent(tx.deployments, x)
  BY <1>2 DEF SavingPlaylists, PlaylistSaved, Replaced, Inserted
<1>4. ASSUME NEW x \in tx.playlists, NEW d, NEW p,
             Placed(tx.deployments, x, d, p)
      PROVE  \E z \in tx'.playlists : Placed(tx.deployments, z, d, p)
  BY <1>4, SamePlace DEF PlaylistSaved, Replaced, Inserted
<1>5. y \in tx'.playlists
  BY DEF PlaylistSaved, Replaced, Inserted
<1>6. ASSUME NEW i \in DOMAIN sent.deployments,
             NEW j \in DOMAIN sent.deployments[i].playlists,
             Reached(i, j)'
      PROVE  \E x \in tx'.playlists :
               Placed(tx.deployments, x, sent.deployments[i],
                      sent.deployments[i].playlists[j])
  <2>1. CASE Reached(i, j)
    BY <1>4, <2>1 DEF SavingPlaylists
  <2>2. CASE i = nthDeployment /\ j = nthPlaylist
    BY <1>1, <1>5, <2>2 DEF ThisDeployment, ThisPlaylist
  <2>3. QED
    BY <1>1, <1>6, <2>1, <2>2 DEF Reached
<1>7. QED
  BY <1>1, <1>3, <1>6 DEF SavingPlaylists, PlacedAsSent

LEMMA MissingPlaylistsGone ==
  ASSUME RowsInv, OriginsKnown, SavingPlaylists, MissingPlaylistsDeleted
  PROVE  PlaylistsGood(tx.playlists, tx.deployments, content.playlists)'
<1>1. /\ sent' = sent /\ content' = content
      /\ tx'.deployments = tx.deployments
      /\ tx'.playlists = tx.playlists \ MissingPlaylists
      /\ nthDeployment > Len(sent.deployments)
  BY DEF MissingPlaylistsDeleted, Kept
<1>2. \A x \in MissingPlaylists : /\ New \notin PlaylistKeys(sent)
                                  /\ x.id \notin PlaylistKeys(sent)
                                  /\ x.id \notin given
  BY DEF MissingPlaylists, Missing
<1>3. \A x \in tx.playlists \ MissingPlaylists :
        \/ PlaylistKeys(sent) \cap {New, x.id} # {}
        \/ x.id \in given
  BY DEF MissingPlaylists, Missing
<1>4. \A i \in DOMAIN sent.deployments :
        \A j \in DOMAIN sent.deployments[i].playlists : Reached(i, j)
  BY <1>1, LoopTypes DEF Reached
<1>5. ASSUME NEW d \in Elements(sent.deployments),
             NEW p \in Elements(d.playlists)
      PROVE  \/ \E x \in tx'.playlists : Placed(tx.deployments, x, d, p)
             \/ \E x \in content.playlists : /\ Placed(tx.deployments, x, d, p)
                                             /\ x.id \notin PlaylistKeys(sent)
  <2>1. PICK x \in tx.playlists : Placed(tx.deployments, x, d, p)
    BY <1>4 DEF SavingPlaylists, Elements
  <2>2. CASE x \in MissingPlaylists
    BY <1>2, <2>1, <2>2, SamePlace DEF OriginsKnown, WasThere
  <2>3. QED
    BY <1>1, <2>1, <2>2
<1>6. \A x \in tx'.playlists : \/ PlaylistKeys(sent) \cap {New, x.id} # {}
                               \/ PlacedAsSent(tx.deployments, x)
  BY <1>1, <1>3 DEF SavingPlaylists
<1>7. QED
  BY <1>1, <1>5, <1>6 DEF PlaylistsGood, PlacedAsSent

\* A deployment that was sent with its key, or without one, is not missing.
LEMMA HomeStays ==
  ASSUME NEW d \in Elements(sent.deployments),
         NEW y \in DeploymentOf(tx.deployments, d)
  PROVE  y \notin MissingDeployments
  BY DEF DeploymentOf, MissingDeployments, Missing

LEMMA PlacesStay ==
  ASSUME RowsInv, MissingDeploymentsDeleted,
         NEW d \in Elements(sent.deployments), NEW p
  PROVE  /\ \A x : Placed(tx'.deployments, x, d, p)
                     <=> Placed(tx.deployments, x, d, p)
         /\ \A x \in tx.playlists :
              Placed(tx.deployments, x, d, p) => x \in tx'.playlists
<1>1. /\ tx'.deployments = tx.deployments \ MissingDeployments
      /\ tx'.playlists = tx.playlists \ PlaylistsOf(tx, MissingDeployments)
  BY DEF MissingDeploymentsDeleted
<1>2. DeploymentOf(tx'.deployments, d) = DeploymentOf(tx.deployments, d)
  BY <1>1, HomeStays DEF DeploymentOf
<1>3. ASSUME NEW x \in tx.playlists, Placed(tx.deployments, x, d, p)
      PROVE  x \notin PlaylistsOf(tx, MissingDeployments)
  <2>1. PICK y \in DeploymentOf(tx.deployments, d) : x.deployment = y.id
    BY <1>3 DEF Placed
  <2>2. y \in tx.deployments /\ y \notin MissingDeployments
    BY HomeStays DEF DeploymentOf
  <2>3. \A z \in MissingDeployments : z \in tx.deployments
    BY DEF MissingDeployments, Missing
  <2>4. \A z \in MissingDeployments : z.id # y.id
    BY <2>2, <2>3 DEF RowsInv, KeysInv, Sound, Consistent
  <2>5. QED
    BY <2>1, <2>4 DEF PlaylistsOf
<1>4. QED
  BY <1>1, <1>2, <1>3 DEF Placed

LEMMA PlaylistsStayGood ==
  ASSUME RowsInv, MissingDeploymentsDeleted,
         PlaylistsGood(tx.playlists, tx.deployments, content.playlists)
  PROVE  PlaylistsGood(tx.playlists, tx.deployments, content.playlists)'
<1>1. /\ sent' = sent /\ content' = content
      /\ tx'.playlists \subseteq tx.playlists
  BY DEF MissingDeploymentsDeleted, Kept
<1>2. ASSUME NEW d \in Elements(sent.deployments),
             NEW p \in Elements(d.playlists)
      PROVE  \/ \E x \in tx'.playlists : Placed(tx'.deployments, x, d, p)
             \/ \E x \in content.playlists : /\ Placed(tx'.deployments, x, d, p)
                                             /\ x.id \notin PlaylistKeys(sent)
  BY PlacesStay DEF PlaylistsGood
<1>3. \A x \in tx'.playlists : \/ PlaylistKeys(sent) \cap {New, x.id} # {}
                               \/ PlacedAsSent(tx'.deployments, x)
  BY <1>1, PlacesStay DEF PlaylistsGood, PlacedAsSent
<1>4. QED
  BY <1>1, <1>2, <1>3 DEF PlaylistsGood, PlacedAsSent

LEMMA PlacesOfLoops ==
  ASSUME RowsInv, PlacesInv, Kept, NextPlaylist \/ NextDeployment
  PROVE  PlacesInv'
<1>1. /\ sent' = sent /\ content' = content /\ before' = before
      /\ tx' = tx /\ given' = given /\ accepted' = accepted
      /\ statement \in {"playlists", "messages"} /\ statement' = "playlists"
  BY DEF Kept, NextPlaylist, NextDeployment
<1>2. \A i \in DOMAIN sent.deployments :
        \A j \in DOMAIN sent.deployments[i].playlists :
          Reached(i, j)' => Reached(i, j)
  BY LoopTypes DEF Reached, NextPlaylist, NextDeployment, ThisDeployment
<1>3. OriginsKnown' /\ SavingPlaylists'
  BY <1>1, <1>2 DEF PlacesInv, OriginsKnown, SavingPlaylists, PlacedAsSent,
                    WasThere
<1>4. ~ accepted
  BY <1>1 DEF RowsInv, LoopInv
<1>5. QED
  BY <1>1, <1>3, <1>4 DEF PlacesInv

LEMMA PlacesStep ==
  ASSUME RowsInv, PlacesInv, Step
  PROVE  PlacesInv'
<1>1. accepted' = accepted /\ (accepted => statement = "idle")
  BY DEF Step, Kept, Undone, DeploymentSkipped, DeploymentSaved, LeftOutDeleted,
         PlaylistSaved, MessageSaved, MissingPlaylistsDeleted,
         MissingDeploymentsDeleted, RecipientSaved, RowsInv, LoopInv
<1>2. CASE Undone
  BY <1>1, <1>2 DEF PlacesInv, Undone, Throw, Idle
<1>3. CASE DeploymentSkipped
  BY <1>1, <1>3 DEF PlacesInv, DeploymentSkipped, OriginsKnown, WasThere, Kept
<1>4. ASSUME NEW y, DeploymentSaved(y)
      PROVE  PlacesInv'
  BY <1>1, <1>4 DEF PlacesInv, DeploymentSaved, OriginsKnown, WasThere, Kept
<1>5. CASE LeftOutDeleted
  <2>1. OriginsKnown'
    BY <1>5 DEF PlacesInv, LeftOutDeleted, OriginsKnown, WasThere, Kept
  <2>2. \A i \in DOMAIN sent.deployments :
          \A j \in DOMAIN sent.deployments[i].playlists : ~ Reached(i, j)'
    BY <1>5, LoopTypes DEF Reached, LeftOutDeleted, RowsInv, LoopInv
  <2>3. sent' = sent /\ given' = {}
    BY <1>5 DEF LeftOutDeleted, Kept, RowsInv, LoopInv
  <2>4. SavingPlaylists'
    BY <2>2, <2>3 DEF SavingPlaylists
  <2>5. QED
    BY <1>1, <1>5, <2>1, <2>4 DEF PlacesInv, LeftOutDeleted
<1>6. ASSUME NEW y, PlaylistSaved(y)
      PROVE  PlacesInv'
  BY <1>1, <1>6, OriginsOfSaved, PlacesOfSaved DEF PlacesInv, PlaylistSaved
<1>7. ASSUME NEW y, MessageSaved(y)
      PROVE  PlacesInv'
  BY <1>1, <1>7 DEF PlacesInv, MessageSaved, OriginsKnown, WasThere, Kept,
                    SavingPlaylists, PlacedAsSent, Reached
<1>8. CASE Kept /\ (NextPlaylist \/ NextDeployment)
  BY <1>8, PlacesOfLoops
<1>9. CASE MissingPlaylistsDeleted
  BY <1>1, <1>9, MissingPlaylistsGone DEF PlacesInv, MissingPlaylistsDeleted
<1>10. CASE MissingDeploymentsDeleted
  BY <1>1, <1>10, PlaylistsStayGood DEF PlacesInv, MissingDeploymentsDeleted
<1>11. ASSUME NEW r, RecipientSaved(r)
       PROVE  PlacesInv'
  BY <1>1, <1>11 DEF PlacesInv, PlaylistsGood, PlacedAsSent, RecipientSaved, Kept
<1>12. QED
  BY <1>2, <1>3, <1>4, <1>5, <1>6, <1>7, <1>8, <1>9, <1>10, <1>11 DEF Step

LEMMA PlacesNext ==
  RowsInv /\ PlacesInv /\ [UpdateNext]_updateVars => PlacesInv'
<1> SUFFICES ASSUME RowsInv, PlacesInv, [UpdateNext]_updateVars
             PROVE  PlacesInv'
  OBVIOUS
<1>1. CASE UNCHANGED updateVars
  BY <1>1 DEF PlacesInv, PlaylistsGood, PlacedAsSent, OriginsKnown, WasThere,
              SavingPlaylists, Reached, updateVars, loops
<1>2. ASSUME NEW c \in Updates, Begin(c)
      PROVE  PlacesInv'
  <2>1. content \in Content
    BY DEF RowsInv, UpdateTypeOK
  <2>2. tx'.playlists = content.playlists
    BY <1>2, <2>1 DEF Begin, Content
  <2>3. OriginsKnown'
    BY <1>2, <2>2 DEF OriginsKnown, WasThere, Begin
  <2>4. QED
    BY <1>2, <2>3 DEF PlacesInv, Begin
<1>3. CASE Commit
  BY <1>3 DEF PlacesInv, PlaylistsGood, PlacedAsSent, Commit, Idle
<1>4. QED
  BY <1>1, <1>2, <1>3, TransactionSteps, PlacesStep DEF UpdateNext

\* After an accepted update the playlists it sent are there, except one
\* written over a row whose key was not sent, and any other was named.
THEOREM PlaylistsFollow == UpdateSpec => []PlaylistsAsSent
<1>1. UpdateInit => PlacesInv
  BY DEF UpdateInit, PlacesInv
<1>2. UpdateSpec => []PlacesInv
  BY <1>1, RowsAlways, PlacesNext, PTL DEF UpdateSpec
<1>3. PlacesInv => PlaylistsAsSent
  BY DEF PlacesInv, PlaylistsGood, PlacedAsSent, PlaylistsAsSent
<1>4. QED
  BY <1>2, <1>3, PTL

-----------------------------------------------------------------------------
(* SpecContent: the messages.                                              *)

\* The first n - 1 messages of list have been saved in playlist id.  Of the
\* rows that were there, the ones at the positions old are left as they were;
\* all of them are named, and those named so far by a message whose position
\* is one of theirs.
SavedSoFar(messages, id, list, n) ==
  \A l \in DOMAIN list :
    l < n => \E m \in messages :
               /\ m.playlist = id
               /\ m.position = list[l].position /\ m.title = list[l].title
               /\ list[l].languages \subseteq m.languages

OldRows(messages, id, list, n, old) ==
  \A m \in messages :
    m.playlist = id =>
      /\ \/ m.position \in old
         \/ \E l \in DOMAIN list : l < n /\ m.position = list[l].position
      /\ m.position \in old => m.id \in MessageKeys(list)
      /\ \A l \in DOMAIN list :
           l < n /\ m.id = list[l].key /\ m.position \in old =>
             list[l].position \in old

InRows(messages, id, old) ==
  \A q \in old : \E m \in messages : m.playlist = id /\ m.position = q

\* A list that names as many rows as it has positions for them has a message
\* for each of them.
LEMMA AllOverwritten ==
  ASSUME NEW messages, NEW id, NEW n \in Nat, NEW old,
         NEW list \in Seq(SentMessage), Apart(list), n > Len(list),
         \A m, k \in messages :
           m.id = k.id \/ (m.playlist = k.playlist /\ m.position = k.position)
             => m = k,
         OldRows(messages, id, list, n, old), InRows(messages, id, old)
  PROVE  \A m \in messages :
           m.playlist = id /\ m.position \in old =>
             \E l \in DOMAIN list : m.position = list[l].position
<1> DEFINE Sent == {l \in DOMAIN list : list[l].position \in old}
           Names(k, l) == \E m \in messages :
                            /\ m.playlist = id /\ m.position = list[l].position
                            /\ m.id = list[k].key
           f == [l \in Sent |-> CHOOSE k \in Sent : Names(k, l)]
<1>1. \A l \in DOMAIN list : l \in 1 .. Len(list) /\ l < n
  OBVIOUS
<1>2. IsFiniteSet(Sent)
  <2>1. IsFiniteSet(1 .. Len(list))
    BY FS_Interval
  <2>2. Sent \in SUBSET (1 .. Len(list))
    BY <1>1
  <2> HIDE DEF Sent
  <2>3. QED
    BY <2>1, <2>2, FS_Subset
<1>3. ASSUME NEW m \in messages, m.playlist = id, m.position \in old
      PROVE  \E k \in Sent : m.id = list[k].key
  <2>1. PICK k \in DOMAIN list : m.id = list[k].key
    BY <1>3 DEF OldRows, MessageKeys, Elements
  <2>2. list[k].position \in old
    BY <1>1, <1>3, <2>1 DEF OldRows
  <2>3. QED
    BY <2>1, <2>2
<1>4. \A l \in Sent : \E k \in Sent : Names(k, l)
  <2>1. TAKE l \in Sent
  <2>2. PICK m \in messages : m.playlist = id /\ m.position = list[l].position
    BY DEF InRows
  <2>3. QED
    BY <1>3, <2>2
<1>5. \A l \in Sent : f[l] \in Sent /\ Names(f[l], l)
  BY <1>4
<1> HIDE DEF f
<1>6. f \in [Sent -> Sent]
  BY <1>5 DEF f
<1>7. \A k \in Sent : \A l, j \in Sent : Names(k, l) /\ Names(k, j) => l = j
  <2>1. \A l, j \in DOMAIN list : list[l].position = list[j].position => l = j
    BY DEF Apart
  <2>2. QED
    BY <2>1
<1> HIDE DEF Sent, Names
<1>8. f \in Injection(Sent, Sent)
  BY <1>5, <1>6, <1>7 DEF Injection, IsInjective
<1>9. f \in Surjection(Sent, Sent)
  BY <1>2, <1>8, FS_Injection
<1>10. SUFFICES ASSUME NEW m \in messages, m.playlist = id, m.position \in old
                PROVE  \E l \in DOMAIN list : m.position = list[l].position
  OBVIOUS
<1>11. PICK k \in Sent : m.id = list[k].key
  BY <1>3, <1>10
<1>12. PICK l \in Sent : f[l] = k
  BY <1>9 DEF Surjection
<1>13. Names(k, l)
  BY <1>5, <1>12
<1>14. m.position = list[l].position
  BY <1>11, <1>13 DEF Names
<1>15. l \in DOMAIN list
  BY DEF Sent
<1>16. QED
  BY <1>14, <1>15

\* When the last one is saved the playlist has the messages sent.
LEMMA AllSaved ==
  ASSUME NEW messages, NEW id, NEW n \in Nat, NEW old,
         NEW list \in Seq(SentMessage), Apart(list), n > Len(list),
         \A m, k \in messages :
           m.id = k.id \/ (m.playlist = k.playlist /\ m.position = k.position)
             => m = k,
         SavedSoFar(messages, id, list, n),
         OldRows(messages, id, list, n, old), InRows(messages, id, old)
  PROVE  HasMessages(messages, id, list)
<1>1. \A l \in DOMAIN list : l < n
  OBVIOUS
<1>2. \A m \in messages :
        m.playlist = id => \E l \in DOMAIN list : m.position = list[l].position
  BY AllOverwritten DEF OldRows
<1>3. \A l \in DOMAIN list :
        \E m \in messages : /\ m.playlist = id
                            /\ m.position = list[l].position
                            /\ m.title = list[l].title
                            /\ list[l].languages \subseteq m.languages
  BY <1>1 DEF SavedSoFar
<1>4. ASSUME NEW m \in messages, m.playlist = id
      PROVE  \E l \in DOMAIN list :
               /\ m.position = list[l].position /\ m.title = list[l].title
               /\ list[l].languages \subseteq m.languages
  <2>1. PICK l \in DOMAIN list : m.position = list[l].position
    BY <1>2, <1>4
  <2>2. PICK k \in messages : /\ k.playlist = id
                              /\ k.position = list[l].position
                              /\ k.title = list[l].title
                              /\ list[l].languages \subseteq k.languages
    BY <1>3
  <2>3. k = m
    BY <1>4, <2>1, <2>2
  <2>4. QED
    BY <2>1, <2>2, <2>3
<1>5. QED
  BY <1>3, <1>4 DEF HasMessages, Elements

Progress(messages, id, list, n) ==
  /\ SavedSoFar(messages, id, list, n)
  /\ \E old \in SUBSET {m.position : m \in messages} :
       OldRows(messages, id, list, n, old) /\ InRows(messages, id, old)

LEMMA ProgressBegins ==
  ASSUME NEW messages, NEW id, NEW list \in Seq(SentMessage),
         \A m \in messages : m.playlist = id => m.id \in MessageKeys(list)
  PROVE  Progress(messages, id, list, 1)
<1> DEFINE old == {m.position : m \in {k \in messages : k.playlist = id}}
<1>1. \A l \in DOMAIN list : ~ (l < 1)
  OBVIOUS
<1>2. SavedSoFar(messages, id, list, 1)
  BY <1>1 DEF SavedSoFar
<1>3. OldRows(messages, id, list, 1, old)
  BY <1>1 DEF OldRows
<1>4. InRows(messages, id, old)
  BY DEF InRows
<1>5. old \in SUBSET {m.position : m \in messages}
  OBVIOUS
<1> HIDE DEF old
<1>6. QED
  BY <1>2, <1>3, <1>4, <1>5 DEF Progress

LEMMA ProgressGoesOn ==
  ASSUME NEW messages, NEW after, NEW id, NEW list \in Seq(SentMessage),
         Apart(list), NEW n \in DOMAIN list, Progress(messages, id, list, n),
         NEW y, y.playlist = id, y.position = list[n].position,
         y.title = list[n].title, list[n].languages \subseteq y.languages,
         \/ \E x \in messages : /\ x.id = y.id /\ x.playlist = id
                                /\ x.position = y.position
         \/ \A x \in messages : /\ x.id # y.id /\ x.id # list[n].key
                                /\ ~ (x.playlist = id /\ x.position = y.position),
         after = {x \in messages :
                    ~ (x.playlist = id /\ x.position = y.position)} \cup {y}
  PROVE  Progress(after, id, list, n + 1)
<1>1. \A l \in DOMAIN list : l < n + 1 <=> (l < n \/ l = n)
  OBVIOUS
<1>2. \A l \in DOMAIN list : list[l].position = list[n].position => l = n
  BY DEF Apart
<1>3. n \in Nat /\ ~ (n < n)
  OBVIOUS
<1>4. SavedSoFar(after, id, list, n + 1)
  <2> SUFFICES ASSUME NEW l \in DOMAIN list, l < n + 1
               PROVE  \E m \in after :
                        /\ m.playlist = id /\ m.position = list[l].position
                        /\ m.title = list[l].title
                        /\ list[l].languages \subseteq m.languages
    BY DEF SavedSoFar
  <2>1. CASE l = n
    BY <2>1
  <2>2. CASE l < n
    <3>1. PICK m \in messages : /\ m.playlist = id
                                /\ m.position = list[l].position
                                /\ m.title = list[l].title
                                /\ list[l].languages \subseteq m.languages
      BY <2>2 DEF Progress, SavedSoFar
    <3>2. m.position # y.position
      BY <1>2, <1>3, <2>2, <3>1
    <3>3. QED
      BY <3>1, <3>2
  <2>3. QED
    BY <1>1, <2>1, <2>2
<1>5. PICK old : OldRows(messages, id, list, n, old) /\ InRows(messages, id, old)
  BY DEF Progress
<1>6. \A m \in after : m = y \/ m \in messages
  OBVIOUS
<1>7. InRows(after, id, old)
  BY <1>5 DEF InRows
<1>8. ASSUME NEW m \in after, m.playlist = id,
             NEW x \in messages, x.id = y.id, x.playlist = id,
             x.position = y.position
      PROVE  /\ \/ m.position \in old
                \/ \E l \in DOMAIN list :
                     l < n + 1 /\ m.position = list[l].position
             /\ m.position \in old => m.id \in MessageKeys(list)
             /\ \A l \in DOMAIN list :
                  l < n + 1 /\ m.id = list[l].key /\ m.position \in old =>
                    list[l].position \in old
  <2>1. PICK k \in messages :
          k.playlist = id /\ k.id = m.id /\ k.position = m.position
    BY <1>6, <1>8
  <2>2. list[n].position \in old
    BY <1>2, <1>3, <1>5, <1>8 DEF OldRows
  <2>3. /\ \/ k.position \in old
           \/ \E l \in DOMAIN list : l < n /\ k.position = list[l].position
        /\ k.position \in old => k.id \in MessageKeys(list)
        /\ \A l \in DOMAIN list :
             l < n /\ k.id = list[l].key /\ k.position \in old =>
               list[l].position \in old
    BY <1>5, <2>1 DEF OldRows
  <2>4. QED
    BY <1>1, <2>1, <2>2, <2>3
<1>9. ASSUME NEW m \in after, m.playlist = id,
             \A x \in messages :
               /\ x.id # y.id /\ x.id # list[n].key
               /\ ~ (x.playlist = id /\ x.position = y.position)
      PROVE  /\ \/ m.position \in old
                \/ \E l \in DOMAIN list :
                     l < n + 1 /\ m.position = list[l].position
             /\ m.position \in old => m.id \in MessageKeys(list)
             /\ \A l \in DOMAIN list :
                  l < n + 1 /\ m.id = list[l].key /\ m.position \in old =>
                    list[l].position \in old
  <2>1. y.position \notin old
    BY <1>5, <1>9 DEF InRows
  <2>2. CASE m = y
    BY <1>1, <2>1, <2>2
  <2>3. CASE m \in messages
    <3>1. m.id # list[n].key
      BY <1>9, <2>3
    <3>2. QED
      BY <1>1, <1>5, <1>9, <2>3, <3>1 DEF OldRows
  <2>4. QED
    BY <1>6, <2>2, <2>3
<1>10. OldRows(after, id, list, n + 1, old)
  BY <1>8, <1>9 DEF OldRows
<1>11. old \in SUBSET {m.position : m \in after}
  BY <1>7 DEF InRows
<1>12. QED
  BY <1>4, <1>7, <1>10, <1>11 DEF Progress

\* The playlist written is the one sent, and its messages are on the way.
RowInv ==
  statement = "messages" =>
    /\ \E x \in tx.playlists :
         x.id = row /\ Placed(tx.deployments, x, ThisDeployment, ThisPlaylist)
    /\ Apart(ThisPlaylist.messages) =>
         Progress(tx.messages, row, ThisPlaylist.messages, nthMessage)

LastReached(x, i, j) ==
  /\ Reached(i, j)
  /\ Placed(tx.deployments, x, sent.deployments[i],
            sent.deployments[i].playlists[j])
  /\ \A k \in DOMAIN sent.deployments :
       \A l \in DOMAIN sent.deployments[k].playlists :
         Reached(k, l) /\ (k > i \/ (k = i /\ l > j)) =>
           ~ Placed(tx.deployments, x, sent.deployments[k],
                    sent.deployments[k].playlists[l])

\* The messages of the playlist in place i, j are not those being saved.
Finished(i, j) ==
  ~ (statement = "messages" /\ i = nthDeployment /\ j = nthPlaylist)

Written(x, i, j) ==
  LET p == sent.deployments[i].playlists[j] IN
  /\ x.title = p.title
  /\ Finished(i, j) /\ Apart(p.messages) =>
       HasMessages(tx.messages, x.id, p.messages)

WrittenSoFar ==
  \A x \in tx.playlists : \A i \in DOMAIN sent.deployments :
    \A j \in DOMAIN sent.deployments[i].playlists :
      LastReached(x, i, j) => Written(x, i, j)

WrittenInv ==
  /\ RowInv
  /\ statement \in {"playlists", "messages", "missing", "recipients"} =>
       WrittenSoFar
  /\ MessagesAsSent

\* Two playlists cannot be in the place of one.
LEMMA OnePlace ==
  ASSUME NEW t, Sound(t), NEW x \in t.playlists, NEW z \in t.playlists,
         NEW d, NEW p,
         Placed(t.deployments, x, d, p), Placed(t.deployments, z, d, p)
  PROVE  x = z
<1>1. PICK y \in DeploymentOf(t.deployments, d) :
        x.deployment = y.id /\ x.position = p.position
  BY DEF Placed
<1>2. PICK w \in DeploymentOf(t.deployments, d) :
        z.deployment = w.id /\ z.position = p.position
  BY DEF Placed
<1>3. \A a, b \in t.deployments : a.number = b.number \/ a.id = b.id => a = b
  BY DEF Sound, Consistent
<1>4. \A a \in t.deployments : a.id # New
  BY DEF Sound, Content, Deployment, Ids, New
<1>5. y = w
  BY <1>3, <1>4 DEF DeploymentOf
<1>6. QED
  BY <1>1, <1>2, <1>5 DEF Sound, Consistent

LEMMA SameMessages ==
  ASSUME NEW A, NEW B, NEW id, NEW list,
         \A m : m.playlist = id => (m \in A <=> m \in B),
         HasMessages(A, id, list)
  PROVE  HasMessages(B, id, list)
<1>1. {m \in A : m.playlist = id} = {m \in B : m.playlist = id}
  OBVIOUS
<1>2. QED
  BY <1>1 DEF HasMessages

\* What the rows that stay keep when playlists go.
LEMMA OthersKeepMessages ==
  ASSUME NEW t, Sound(t), NEW gone \in SUBSET t.playlists,
         NEW x \in t.playlists \ gone
  PROVE  \A m : m.playlist = x.id =>
                  (m \in t.messages \ Orphans(t, gone) <=> m \in t.messages)
<1>1. \A p \in gone : p.id # x.id
  BY DEF Sound, Consistent
<1>2. QED
  BY <1>1 DEF Orphans

LEMMA RowOfPlaylist ==
  ASSUME RowsInv, NEW y, PlaylistSaved(y)
  PROVE  RowInv'
<1>1. /\ sent' = sent /\ nthDeployment' = nthDeployment
      /\ nthPlaylist' = nthPlaylist /\ tx'.deployments = tx.deployments
      /\ row' = y.id /\ nthMessage' = 1
      /\ y \in tx'.playlists
      /\ Placed(tx.deployments, y, ThisDeployment, ThisPlaylist)
      /\ tx'.messages
           = tx.messages \ RemovedMessages(tx, y.id, ThisPlaylist.messages)
  BY DEF PlaylistSaved, Kept, Replaced, Inserted
<1>2. ThisDeployment' = ThisDeployment /\ ThisPlaylist' = ThisPlaylist
  BY <1>1 DEF ThisDeployment, ThisPlaylist
<1>3. ThisPlaylist.messages \in Seq(SentMessage)
  BY SentFacts DEF RowsInv, UpdateTypeOK, PlaylistSaved, ThisDeployment,
                   ThisPlaylist
<1>4. \A m \in tx'.messages :
        m.playlist = y.id => m.id \in MessageKeys(ThisPlaylist.messages)
  BY <1>1 DEF RemovedMessages
<1>5. Progress(tx'.messages, y.id, ThisPlaylist.messages, 1)
  BY <1>3, <1>4, ProgressBegins
<1>6. QED
  BY <1>1, <1>2, <1>5 DEF RowInv

LEMMA RowOfMessage ==
  ASSUME RowsInv, RowInv, NEW y, MessageSaved(y)
  PROVE  RowInv'
<1>1. /\ sent' = sent /\ nthDeployment' = nthDeployment
      /\ nthPlaylist' = nthPlaylist /\ tx'.deployments = tx.deployments
      /\ tx'.playlists = tx.playlists
      /\ row' = row /\ nthMessage' = nthMessage + 1
      /\ statement = "messages"
  BY DEF MessageSaved, Kept
<1>2. ThisDeployment' = ThisDeployment /\ ThisPlaylist' = ThisPlaylist
  BY <1>1 DEF ThisDeployment, ThisPlaylist
<1>3. ThisPlaylist.messages \in Seq(SentMessage)
  BY <1>1, SentFacts DEF RowsInv, UpdateTypeOK, LoopInv, ThisDeployment,
                         ThisPlaylist
<1>4. ASSUME Apart(ThisPlaylist.messages)
      PROVE  Progress(tx'.messages, row, ThisPlaylist.messages, nthMessage + 1)
  <2>1. Progress(tx.messages, row, ThisPlaylist.messages, nthMessage)
    BY <1>1, <1>4 DEF RowInv
  <2>2. QED
    BY <1>3, <1>4, <2>1, ProgressGoesOn DEF MessageSaved, ThisMessage
<1>5. QED
  BY <1>1, <1>2, <1>4 DEF RowInv

\* Steps after which the same playlists have been reached, in their places.
LEMMA SameReached ==
  ASSUME sent' = sent, NEW x,
         \A i \in DOMAIN sent.deployments :
           \A j \in DOMAIN sent.deployments[i].playlists :
             /\ Reached(i, j)' <=> Reached(i, j)
             /\ Placed(tx'.deployments, x, sent.deployments[i],
                       sent.deployments[i].playlists[j])
                  <=> Placed(tx.deployments, x, sent.deployments[i],
                             sent.deployments[i].playlists[j]),
         NEW i \in DOMAIN sent.deployments,
         NEW j \in DOMAIN sent.deployments[i].playlists
  PROVE  LastReached(x, i, j)' <=> LastReached(x, i, j)
  BY DEF LastReached

LEMMA WrittenAfterPlaylist ==
  ASSUME RowsInv, RowsInv', WrittenSoFar, NEW y, PlaylistSaved(y)
  PROVE  WrittenSoFar'
<1>1. /\ sent' = sent /\ nthDeployment' = nthDeployment
      /\ nthPlaylist' = nthPlaylist /\ tx'.deployments = tx.deployments
      /\ statement = "playlists" /\ statement' = "messages"
      /\ nthDeployment \in DOMAIN sent.deployments
      /\ nthPlaylist \in DOMAIN sent.deployments[nthDeployment].playlists
      /\ Placed(tx.deployments, y, ThisDeployment, ThisPlaylist)
      /\ y.title = ThisPlaylist.title
      /\ y \in tx'.playlists
      /\ \A x \in tx'.playlists : x = y \/ x \in tx.playlists
      /\ tx'.messages
           = tx.messages \ RemovedMessages(tx, y.id, ThisPlaylist.messages)
  BY DEF PlaylistSaved, Kept, Replaced, Inserted, ThisDeployment
<1>2. /\ ThisDeployment = sent.deployments[nthDeployment]
      /\ ThisPlaylist = sent.deployments[nthDeployment].playlists[nthPlaylist]
  BY DEF ThisDeployment, ThisPlaylist
<1>3. SUFFICES ASSUME NEW x \in tx'.playlists,
                      NEW i \in DOMAIN sent.deployments,
                      NEW j \in DOMAIN sent.deployments[i].playlists,
                      LastReached(x, i, j)'
               PROVE  Written(x, i, j)'
  BY <1>1 DEF WrittenSoFar
<1>4. \A k, l : Reached(k, l)' <=> Reached(k, l)
                                   \/ (k = nthDeployment /\ l = nthPlaylist)
  BY <1>1 DEF Reached
<1>5. \A k, l : Reached(k, l) => \/ nthDeployment > k
                                 \/ nthDeployment = k /\ nthPlaylist > l
  BY <1>1 DEF Reached
<1>6. /\ Reached(i, j) \/ (i = nthDeployment /\ j = nthPlaylist)
      /\ Placed(tx.deployments, x, sent.deployments[i],
                sent.deployments[i].playlists[j])
      /\ \A k \in DOMAIN sent.deployments :
           \A l \in DOMAIN sent.deployments[k].playlists :
             (Reached(k, l) \/ (k = nthDeployment /\ l = nthPlaylist))
               /\ (k > i \/ (k = i /\ l > j)) =>
               ~ Placed(tx.deployments, x, sent.deployments[k],
                        sent.deployments[k].playlists[l])
  BY <1>1, <1>3, <1>4 DEF LastReached
<1>7. CASE x = y
  <2>1. i = nthDeployment /\ j = nthPlaylist
    BY <1>1, <1>2, <1>5, <1>6, <1>7
  <2>2. QED
    BY <1>1, <1>2, <1>7, <2>1 DEF Written, Finished
<1>8. CASE x # y
  <2>1. Sound(tx')
    BY DEF PlaylistSaved
  <2>2. ~ Placed(tx.deployments, x, ThisDeployment, ThisPlaylist)
    BY <1>1, <1>8, <2>1, OnePlace
  <2>3. Reached(i, j)
    BY <1>2, <1>6, <2>2
  <2>4. LastReached(x, i, j)
    BY <1>6, <2>3 DEF LastReached
  <2>5. Written(x, i, j) /\ x \in tx.playlists
    BY <1>1, <1>8, <2>4 DEF WrittenSoFar
  <2>6. x.id # y.id
    BY <1>1, <1>8, <2>1 DEF Sound, Consistent
  <2>7. \A m : m.playlist = x.id => (m \in tx'.messages <=> m \in tx.messages)
    BY <1>1, <2>6 DEF RemovedMessages
  <2>8. Finished(i, j)
    BY <1>1 DEF Finished
  <2>9. QED
    BY <1>1, <2>5, <2>7, <2>8, SameMessages DEF Written
<1>9. QED
  BY <1>7, <1>8

LEMMA WrittenAfterMessage ==
  ASSUME RowsInv, RowInv, WrittenSoFar, NEW y, MessageSaved(y)
  PROVE  WrittenSoFar'
<1>1. /\ sent' = sent /\ nthDeployment' = nthDeployment
      /\ nthPlaylist' = nthPlaylist /\ tx'.deployments = tx.deployments
      /\ tx'.playlists = tx.playlists
      /\ statement = "messages" /\ statement' = "messages"
      /\ y.playlist = row
      /\ tx'.messages = {x \in tx.messages :
                           ~ (x.playlist = row /\ x.position = y.position)}
                          \cup {y}
  BY DEF MessageSaved, Kept
<1>2. SUFFICES ASSUME NEW x \in tx.playlists,
                      NEW i \in DOMAIN sent.deployments,
                      NEW j \in DOMAIN sent.deployments[i].playlists,
                      LastReached(x, i, j)'
               PROVE  Written(x, i, j)'
  BY <1>1 DEF WrittenSoFar
<1>3. LastReached(x, i, j)
  BY <1>1, <1>2, SameReached DEF Reached
<1>4. Written(x, i, j)
  BY <1>3 DEF WrittenSoFar
<1>5. CASE i = nthDeployment /\ j = nthPlaylist
  BY <1>1, <1>4, <1>5 DEF Written, Finished
<1>6. CASE ~ (i = nthDeployment /\ j = nthPlaylist)
  <2>1. \/ nthDeployment > i
        \/ nthDeployment = i /\ nthPlaylist > j
    BY <1>3, <1>6 DEF LastReached, Reached
  <2>2. /\ nthDeployment \in DOMAIN sent.deployments
        /\ nthPlaylist \in DOMAIN sent.deployments[nthDeployment].playlists
        /\ Reached(nthDeployment, nthPlaylist)
    BY <1>1 DEF RowsInv, LoopInv, ThisDeployment, Reached
  <2>3. ~ Placed(tx.deployments, x, ThisDeployment, ThisPlaylist)
    BY <1>3, <2>1, <2>2 DEF LastReached, ThisDeployment, ThisPlaylist
  <2>4. PICK z \in tx.playlists :
          z.id = row /\ Placed(tx.deployments, z, ThisDeployment, ThisPlaylist)
    BY <1>1 DEF RowInv
  <2>5. x.id # row
    BY <2>3, <2>4 DEF RowsInv, KeysInv, Sound, Consistent
  <2>6. \A m : m.playlist = x.id => (m \in tx'.messages <=> m \in tx.messages)
    BY <1>1, <2>5
  <2>7. Finished(i, j)
    BY <1>6 DEF Finished
  <2>8. QED
    BY <1>1, <1>4, <2>6, <2>7, SameMessages DEF Written
<1>7. QED
  BY <1>5, <1>6

LEMMA WrittenAfterLoops ==
  ASSUME RowsInv, RowInv, WrittenSoFar, Kept, NextPlaylist \/ NextDeployment
  PROVE  WrittenSoFar'
<1>1. /\ sent' = sent /\ tx' = tx
      /\ statement \in {"playlists", "messages"} /\ statement' = "playlists"
  BY DEF Kept, NextPlaylist, NextDeployment
<1>2. \A i \in DOMAIN sent.deployments :
        \A j \in DOMAIN sent.deployments[i].playlists :
          Reached(i, j)' <=> Reached(i, j)
  BY LoopTypes DEF Reached, NextPlaylist, NextDeployment, ThisDeployment,
                   RowsInv, LoopInv
<1>3. SUFFICES ASSUME NEW x \in tx.playlists,
                      NEW i \in DOMAIN sent.deployments,
                      NEW j \in DOMAIN sent.deployments[i].playlists,
                      LastReached(x, i, j)'
               PROVE  Written(x, i, j)'
  BY <1>1 DEF WrittenSoFar
<1>4. LastReached(x, i, j)
  BY <1>1, <1>2, <1>3, SameReached
<1>5. Written(x, i, j)
  BY <1>4 DEF WrittenSoFar
<1>6. CASE Finished(i, j)
  BY <1>1, <1>5, <1>6 DEF Written
<1>7. CASE ~ Finished(i, j)
  <2>1. /\ statement = "messages" /\ i = nthDeployment /\ j = nthPlaylist
        /\ nthMessage > Len(ThisPlaylist.messages)
        /\ ThisPlaylist = sent.deployments[i].playlists[j]
        /\ ThisDeployment = sent.deployments[i]
    BY <1>7 DEF Finished, NextPlaylist, NextDeployment, ThisDeployment,
                ThisPlaylist
  <2>2. PICK z \in tx.playlists :
          z.id = row /\ Placed(tx.deployments, z, ThisDeployment, ThisPlaylist)
    BY <2>1 DEF RowInv
  <2>3. Sound(tx)
    BY DEF RowsInv, KeysInv
  <2>4. x.id = row
    <3>1. Placed(tx.deployments, x, ThisDeployment, ThisPlaylist)
      BY <1>4, <2>1 DEF LastReached
    <3>2. QED
      BY <2>2, <2>3, <3>1, OnePlace
  <2>5. ThisPlaylist.messages \in Seq(SentMessage) /\ nthMessage \in Nat
    BY <2>1, LoopTypes, SentFacts DEF RowsInv, UpdateTypeOK
  <2>6. ASSUME Apart(ThisPlaylist.messages)
        PROVE  HasMessages(tx.messages, row, ThisPlaylist.messages)
    <3>1. Progress(tx.messages, row, ThisPlaylist.messages, nthMessage)
      BY <2>1, <2>6 DEF RowInv
    <3>2. \A m, k \in tx.messages :
            m.id = k.id \/ (m.playlist = k.playlist /\ m.position = k.position)
              => m = k
      BY <2>3 DEF Sound, Consistent
    <3>3. QED
      BY <2>1, <2>5, <2>6, <3>1, <3>2, AllSaved DEF Progress
  <2>7. QED
    BY <1>1, <1>5, <2>1, <2>4, <2>6 DEF Written
<1>8. QED
  BY <1>6, <1>7

LEMMA WrittenAfterMissing ==
  ASSUME RowsInv, WrittenSoFar,
         MissingPlaylistsDeleted \/ MissingDeploymentsDeleted
  PROVE  WrittenSoFar'
<1>1. /\ sent' = sent /\ UNCHANGED loops
      /\ statement \in {"playlists", "missing"}
      /\ statement' \in {"missing", "recipients"}
  BY DEF MissingPlaylistsDeleted, MissingDeploymentsDeleted, Kept
<1>2. PICK gone \in SUBSET tx.playlists :
        /\ tx'.playlists = tx.playlists \ gone
        /\ tx'.messages = tx.messages \ Orphans(tx, gone)
  <2>1. CASE MissingPlaylistsDeleted
    <3>1. MissingPlaylists \in SUBSET tx.playlists
      BY DEF MissingPlaylists, Missing
    <3>2. QED
      BY <2>1, <3>1 DEF MissingPlaylistsDeleted
  <2>2. CASE MissingDeploymentsDeleted
    <3>1. PlaylistsOf(tx, MissingDeployments) \in SUBSET tx.playlists
      BY DEF PlaylistsOf
    <3>2. QED
      BY <2>2, <3>1 DEF MissingDeploymentsDeleted
  <2>3. QED
    BY <2>1, <2>2
<1>3. \A d \in Elements(sent.deployments) :
        \A p, x :
          Placed(tx'.deployments, x, d, p) <=> Placed(tx.deployments, x, d, p)
  <2>1. CASE MissingPlaylistsDeleted
    BY <2>1 DEF MissingPlaylistsDeleted
  <2>2. CASE MissingDeploymentsDeleted
    BY <2>2, PlacesStay
  <2>3. QED
    BY <2>1, <2>2
<1>4. SUFFICES ASSUME NEW x \in tx.playlists \ gone,
                      NEW i \in DOMAIN sent.deployments,
                      NEW j \in DOMAIN sent.deployments[i].playlists,
                      LastReached(x, i, j)'
               PROVE  Written(x, i, j)'
  BY <1>1, <1>2 DEF WrittenSoFar
<1>5. \A k, l : Reached(k, l)' <=> Reached(k, l)
  BY <1>1 DEF Reached, loops
<1>6. LastReached(x, i, j)
  BY <1>1, <1>3, <1>4, <1>5, SameReached DEF Elements
<1>7. Written(x, i, j) /\ Finished(i, j)
  BY <1>1, <1>6 DEF WrittenSoFar, Finished
<1>8. \A m : m.playlist = x.id => (m \in tx'.messages <=> m \in tx.messages)
  BY <1>2, OthersKeepMessages DEF RowsInv, KeysInv
<1>9. QED
  BY <1>1, <1>7, <1>8, SameMessages DEF Written

LEMMA WrittenStep ==
  ASSUME RowsInv, RowsInv', WrittenInv, Step
  PROVE  WrittenInv'
<1>1. MessagesAsSent'
  <2>1. accepted' = accepted /\ statement # "idle"
    BY DEF Step, Kept, Undone, DeploymentSkipped, DeploymentSaved,
           LeftOutDeleted, PlaylistSaved, MessageSaved,
           MissingPlaylistsDeleted, MissingDeploymentsDeleted, RecipientSaved,
           NextPlaylist, NextDeployment
  <2>2. QED
    BY <2>1 DEF RowsInv, LoopInv, MessagesAsSent
<1>2. CASE Undone
  BY <1>1, <1>2 DEF WrittenInv, RowInv, Undone, Throw, Idle
<1>3. CASE DeploymentSkipped
  BY <1>1, <1>3 DEF WrittenInv, RowInv, DeploymentSkipped
<1>4. ASSUME NEW y, DeploymentSaved(y)
      PROVE  WrittenInv'
  BY <1>1, <1>4 DEF WrittenInv, RowInv, DeploymentSaved
<1>5. CASE LeftOutDeleted
  <2>1. \A i \in DOMAIN sent.deployments :
          \A j \in DOMAIN sent.deployments[i].playlists : ~ Reached(i, j)'
    BY <1>5, LoopTypes DEF Reached, LeftOutDeleted, RowsInv, LoopInv
  <2>2. sent' = sent
    BY <1>5 DEF LeftOutDeleted, Kept
  <2>3. WrittenSoFar'
    BY <2>1, <2>2 DEF WrittenSoFar, LastReached
  <2>4. QED
    BY <1>1, <1>5, <2>3 DEF WrittenInv, RowInv, LeftOutDeleted
<1>6. ASSUME NEW y, PlaylistSaved(y)
      PROVE  WrittenInv'
  BY <1>1, <1>6, RowOfPlaylist, WrittenAfterPlaylist
     DEF WrittenInv, PlaylistSaved
<1>7. ASSUME NEW y, MessageSaved(y)
      PROVE  WrittenInv'
  BY <1>1, <1>7, RowOfMessage, WrittenAfterMessage DEF WrittenInv, MessageSaved
<1>8. CASE Kept /\ (NextPlaylist \/ NextDeployment)
  BY <1>1, <1>8, WrittenAfterLoops
     DEF WrittenInv, RowInv, NextPlaylist, NextDeployment
<1>9. CASE MissingPlaylistsDeleted \/ MissingDeploymentsDeleted
  BY <1>1, <1>9, WrittenAfterMissing
     DEF WrittenInv, RowInv, MissingPlaylistsDeleted, MissingDeploymentsDeleted
<1>10. ASSUME NEW r, RecipientSaved(r)
       PROVE  WrittenInv'
  <2>1. WrittenSoFar
    BY <1>10 DEF WrittenInv, RecipientSaved
  <2>2. WrittenSoFar'
    BY <1>10, <2>1 DEF WrittenSoFar, LastReached, Reached, Written, Finished,
                       RecipientSaved, Kept
  <2>3. QED
    BY <1>1, <1>10, <2>2 DEF WrittenInv, RowInv, RecipientSaved
<1>11. QED
  BY <1>2, <1>3, <1>4, <1>5, <1>6, <1>7, <1>8, <1>9, <1>10 DEF Step

LEMMA WrittenCommit ==
  ASSUME RowsInv, WrittenInv, Commit
  PROVE  WrittenInv'
<1>1. /\ statement = "recipients" /\ content' = tx /\ sent' = sent
      /\ statement' = "idle"
  BY DEF Commit, Idle
<1>2. \A i \in DOMAIN sent.deployments : \A j : Reached(i, j)
  BY <1>1, LoopTypes DEF RowsInv, LoopInv, Reached
<1>3. ASSUME NEW x \in tx.playlists,
             NEW i \in DOMAIN sent.deployments,
             NEW j \in DOMAIN sent.deployments[i].playlists,
             WrittenLast(x, i, j)'
      PROVE  Written(x, i, j) /\ Finished(i, j)
  <2>1. LastReached(x, i, j)
    BY <1>1, <1>2, <1>3 DEF LastReached, WrittenLast
  <2>2. QED
    BY <1>1, <2>1 DEF WrittenInv, WrittenSoFar, Finished
<1>4. MessagesAsSent'
  BY <1>1, <1>3 DEF MessagesAsSent, Written
<1>5. QED
  BY <1>1, <1>4 DEF WrittenInv, RowInv

LEMMA WrittenNext ==
  RowsInv /\ WrittenInv /\ [UpdateNext]_updateVars => WrittenInv'
<1> SUFFICES ASSUME RowsInv, WrittenInv, [UpdateNext]_updateVars
             PROVE  WrittenInv'
  OBVIOUS
<1>1. RowsInv'
  BY RowsNext
<1>2. CASE UNCHANGED updateVars
  BY <1>2 DEF WrittenInv, RowInv, WrittenSoFar, LastReached, Reached, Written,
              Finished, MessagesAsSent, WrittenLast, ThisDeployment,
              ThisPlaylist, updateVars, loops
<1>3. ASSUME NEW c \in Updates, Begin(c)
      PROVE  WrittenInv'
  BY <1>3 DEF WrittenInv, RowInv, MessagesAsSent, Begin
<1>4. QED
  BY <1>1, <1>2, <1>3, WrittenCommit, TransactionSteps, WrittenStep
     DEF UpdateNext

\* After an accepted update a playlist has the title sent for its place, and
\* exactly the messages sent with it if no two of them have one position.
THEOREM MessagesFollow == UpdateSpec => []MessagesAsSent
<1>1. UpdateInit => WrittenInv
  BY DEF UpdateInit, WrittenInv, RowInv, MessagesAsSent
<1>2. UpdateSpec => []WrittenInv
  BY <1>1, RowsAlways, WrittenNext, PTL DEF UpdateSpec
<1>3. WrittenInv => MessagesAsSent
  BY DEF WrittenInv
<1>4. QED
  BY <1>2, <1>3, PTL
=============================================================================
