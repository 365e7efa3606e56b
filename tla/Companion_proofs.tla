--------------------------- MODULE Companion_proofs ---------------------------
(***************************************************************************)
(* Theorems about Companion for any number of phones, repetitions, plays   *)
(* and recordings.                                                         *)
(***************************************************************************)
EXTENDS Companion, FiniteSetTheorems, TLAPS

-----------------------------------------------------------------------------
(* What a request holds, by the stage it is in.                            *)

Counting == {"sum", "find", "save"}
Receiving == {"recordings", "insert", "upload"}

Locals ==
  /\ left = [c \in Clients |-> left[c]] /\ now = [c \in Clients |-> now[c]]
  /\ held = [c \in Clients |-> held[c]] /\ saved = [c \in Clients |-> saved[c]]

\* What a request for statistics is about, and the row it has found.
StatsLocal(c) ==
  /\ at[c] = "events" => ask[c].kind = "stats"
  /\ at[c] \in Counting =>
       \A k \in left[c] : \E p \in events : p.content = k
  /\ at[c] \in {"find", "save"} =>
       /\ held[c] # {} /\ held[c] \subseteq events
       /\ \A p, q \in held[c] : p.content = q.content
       /\ \A p \in held[c] : p.content \in left[c]
  /\ at[c] = "save" =>
       /\ \E p \in held[c] : p.village = now[c].village
       /\ now[c].row \in 0 .. Len(stat)
       /\ now[c].row # 0 =>
            \A p \in held[c] : /\ stat[now[c].row].content = p.content
                               /\ stat[now[c].row].village = now[c].village

\* What a request with recordings is about: each has its own uuid or one lent.
FeedbackLocal(c) ==
  /\ at[c] \in Receiving => left[c] \subseteq Recordings
  /\ at[c] \in {"insert", "upload"} =>
       /\ now[c].name \in Recordings /\ now[c].uuid \in Recordings
       /\ now[c].uuid = now[c].name \/ now[c].uuid \in lent
  /\ at[c] = "upload" => now[c].uuid \in messages
  /\ saved[c] \subseteq messages

TInv ==
  /\ TypeOK /\ Locals
  /\ \A c \in Clients : StatsLocal(c)
  /\ \A c \in Clients : FeedbackLocal(c)

-----------------------------------------------------------------------------
LEMMA StatsRequest ==
  ASSUME ask \in Workloads, NEW c \in Clients, ask[c].kind = "stats"
  PROVE  ask[c].plays \subseteq Plays
BY CompanionAssumption DEF Requests

LEMMA FeedbackRequest ==
  ASSUME ask \in Workloads, NEW c \in Clients, ask[c].kind = "feedback"
  PROVE  ask[c].recordings \subseteq Recordings
BY CompanionAssumption DEF Requests

LEMMA InitTyped == Init => TInv
BY CompanionAssumption
   DEF Init, TInv, TypeOK, Locals, StatsLocal, FeedbackLocal, Stages, Counting,
       Receiving, Files, Rows

-----------------------------------------------------------------------------
(* One step of a request.                                                  *)

Step(c) ==
  \/ Download(c) \/ Fetch(c) \/ End(c) \/ Zip(c)
  \/ StatsBegin(c) \/ Events(c) \/ Sum(c) \/ Find(c) \/ Save(c)
  \/ Unzip(c) \/ Take(c) \/ Insert(c) \/ Upload(c) \/ Reply(c)
  \/ Fail(c) \/ Again(c)

\* It changes nothing that the others hold ...
OthersKeep(c) ==
  /\ ask' = ask
  /\ \A d \in Clients \ {c} :
       /\ at'[d] = at[d] /\ left'[d] = left[d] /\ now'[d] = now[d]
       /\ held'[d] = held[d] /\ saved'[d] = saved[d]

\* ... and what is stored only grows; rows keep what they are about.
Grows ==
  /\ events \subseteq events' /\ messages \subseteq messages'
  /\ lent \subseteq lent' /\ raced \subseteq raced'
  /\ Len(stat) <= Len(stat')
  /\ \A i \in 1 .. Len(stat) : /\ stat'[i].content = stat[i].content
                               /\ stat'[i].village = stat[i].village

LEMMA OwnOnly ==
  ASSUME TypeOK, Locals, NEW c \in Clients, Step(c)
  PROVE  Locals' /\ OthersKeep(c)
<1> USE DEF Locals, OthersKeep, TypeOK, Asks, GoTo, Set, EndsAs, local
<1>1. CASE Download(c)
  BY <1>1 DEF Download
<1>2. CASE Fetch(c)
  BY <1>2 DEF Fetch
<1>3. CASE End(c)
  BY <1>3 DEF End
<1>4. CASE Zip(c)
  BY <1>4 DEF Zip
<1>5. CASE StatsBegin(c)
  BY <1>5 DEF StatsBegin
<1>6. CASE Events(c)
  BY <1>6 DEF Events
<1>7. CASE Sum(c)
  BY <1>7 DEF Sum
<1>8. CASE Find(c)
  BY <1>8 DEF Find
<1>9. CASE Save(c)
  BY <1>9 DEF Save
<1>10. CASE Unzip(c)
  BY <1>10 DEF Unzip
<1>11. CASE Take(c)
  BY <1>11 DEF Take
<1>12. CASE Insert(c)
  BY <1>12 DEF Insert
<1>13. CASE Upload(c)
  BY <1>13 DEF Upload
<1>14. CASE Reply(c)
  BY <1>14 DEF Reply
<1>15. CASE Fail(c)
  BY <1>15 DEF Fail
<1>16. CASE Again(c)
  BY <1>16 DEF Again
<1> QED
  BY <1>1, <1>2, <1>3, <1>4, <1>5, <1>6, <1>7, <1>8, <1>9, <1>10, <1>11, <1>12, <1>13, <1>14, <1>15, <1>16 DEF Step

LEMMA PlaceInRows ==
  ASSUME NEW S, NEW s \in Seq(S), NEW i \in Nat, i # 0, i <= Len(s), NEW r \in S
  PROVE  /\ [s EXCEPT ![i] = r] \in Seq(S)
         /\ Len([s EXCEPT ![i] = r]) = Len(s)
         /\ \A j \in 1 .. Len(s) : [s EXCEPT ![i] = r][j] = IF j = i THEN r ELSE s[j]
OBVIOUS

\* What Save writes, and where.
LEMMA SaveRow ==
  ASSUME TInv, NEW c \in Clients, Save(c)
  PROVE  LET mine == {p \in held[c] : p.village = now[c].village} IN
         \E p \in mine :
           /\ mine \subseteq events
           /\ \A q \in held[c] : q.content = p.content
           /\ p.content \in left[c]
           /\ LET row == [content |-> p.content, village |-> now[c].village,
                          plays |-> mine] IN
              /\ row \in Rows
              /\ \/ /\ now[c].row = 0 /\ stat' = Append(stat, row)
                 \/ /\ now[c].row \in 1 .. Len(stat)
                    /\ stat[now[c].row].content = p.content
                    /\ stat[now[c].row].village = now[c].village
                    /\ stat' = [stat EXCEPT ![now[c].row] = row]
           /\ behind' = IF held[c] = mine THEN behind \ {p.content} ELSE behind
           /\ IF held[c] = mine /\ left[c] = {p.content}
              THEN EndsAs(c, "done")
              ELSE /\ GoTo(c, IF held[c] = mine THEN "sum" ELSE "find")
                   /\ Set(left, c, IF held[c] = mine THEN left[c] \ {p.content}
                                   ELSE left[c])
                   /\ Set(held, c, held[c] \ mine) /\ Set(now, c, None)
                   /\ UNCHANGED saved
<1> DEFINE mine == {p \in held[c] : p.village = now[c].village}
           p == CHOOSE q \in mine : TRUE
<1>1. StatsLocal(c) /\ at[c] = "save"
  BY DEF TInv, Save
<1>2. p \in mine
  BY <1>1 DEF StatsLocal
<1>3. /\ mine \subseteq events /\ \A q \in held[c] : q.content = p.content
      /\ p.content \in left[c]
  BY <1>1, <1>2 DEF StatsLocal
<1>4. [content |-> p.content, village |-> now[c].village, plays |-> mine] \in Rows
  BY <1>2, <1>3 DEF Rows, TInv, TypeOK
<1>5. \/ now[c].row = 0
      \/ /\ now[c].row \in 1 .. Len(stat) /\ now[c].row # 0
         /\ stat[now[c].row].content = p.content
         /\ stat[now[c].row].village = now[c].village
  BY <1>1, <1>2 DEF StatsLocal
<1> QED
  BY <1>2, <1>3, <1>4, <1>5 DEF Save

\* The same, in short.
LEMMA SaveMoves ==
  ASSUME TInv, NEW c \in Clients, Save(c)
  PROVE  /\ \E s \in {"done", "sum", "find"} : at' = [at EXCEPT ![c] = s]
         /\ saved' = saved \/ saved' = [saved EXCEPT ![c] = {}]
         /\ \E row \in Rows :
              \/ stat' = Append(stat, row)
              \/ /\ now[c].row \in 1 .. Len(stat)
                 /\ stat[now[c].row].content = row.content
                 /\ stat[now[c].row].village = row.village
                 /\ stat' = [stat EXCEPT ![now[c].row] = row]
<1> DEFINE mine == {p \in held[c] : p.village = now[c].village}
<1>1. PICK p \in mine :
        /\ LET row == [content |-> p.content, village |-> now[c].village,
                       plays |-> mine] IN
           /\ row \in Rows
           /\ \/ now[c].row = 0 /\ stat' = Append(stat, row)
              \/ /\ now[c].row \in 1 .. Len(stat)
                 /\ stat[now[c].row].content = p.content
                 /\ stat[now[c].row].village = now[c].village
                 /\ stat' = [stat EXCEPT ![now[c].row] = row]
        /\ IF held[c] = mine /\ left[c] = {p.content}
           THEN EndsAs(c, "done")
           ELSE /\ GoTo(c, IF held[c] = mine THEN "sum" ELSE "find")
                /\ UNCHANGED saved
  BY SaveRow
<1>2. \E s \in {"done", "sum", "find"} : at' = [at EXCEPT ![c] = s]
  BY <1>1 DEF EndsAs, GoTo
<1>3. saved' = saved \/ saved' = [saved EXCEPT ![c] = {}]
  BY <1>1 DEF EndsAs, Set
<1>4. \E row \in Rows :
              \/ stat' = Append(stat, row)
              \/ /\ now[c].row \in 1 .. Len(stat)
                 /\ stat[now[c].row].content = row.content
                 /\ stat[now[c].row].village = row.village
                 /\ stat' = [stat EXCEPT ![now[c].row] = row]
  BY <1>1
<1> QED
  BY <1>2, <1>3, <1>4

LEMMA GrowsOnly ==
  ASSUME TInv, NEW c \in Clients, Step(c)
  PROVE  Grows
<1> USE DEF Grows, cache, statistics, feedback, local
<1>s. stat \in Seq(Rows)
  BY DEF TInv, TypeOK
<1>1. CASE Save(c)
  <2>1. events' = events /\ raced' = raced /\ UNCHANGED feedback
    BY <1>1 DEF Save
  <2>2. /\ Len(stat) <= Len(stat')
        /\ \A i \in 1 .. Len(stat) : /\ stat'[i].content = stat[i].content
                                     /\ stat'[i].village = stat[i].village
    <3>1. PICK row \in Rows :
             \/ stat' = Append(stat, row)
             \/ /\ now[c].row \in 1 .. Len(stat)
                /\ stat[now[c].row].content = row.content
                /\ stat[now[c].row].village = row.village
                /\ stat' = [stat EXCEPT ![now[c].row] = row]
      BY <1>1, SaveMoves
    <3>2. CASE stat' = Append(stat, row)
      BY <1>s, <3>2
    <3>3. CASE /\ now[c].row \in 1 .. Len(stat)
               /\ stat[now[c].row].content = row.content
               /\ stat[now[c].row].village = row.village
               /\ stat' = [stat EXCEPT ![now[c].row] = row]
      BY <1>s, <3>3, PlaceInRows
    <3> QED
      BY <3>1, <3>2, <3>3
  <2> QED
    BY <2>1, <2>2
<1>2. CASE Events(c)
  BY <1>2, <1>s DEF Events
<1>3. CASE Take(c)
  <2>1. lent \subseteq lent'
    BY <1>3 DEF Take
  <2>2. UNCHANGED <<messages, events, raced, stat>>
    BY <1>3 DEF Take
  <2> QED
    BY <2>1, <2>2, <1>s
<1>4. CASE Insert(c) \/ Upload(c)
  BY <1>4, <1>s DEF Insert, Upload
<1>5. CASE Download(c) \/ Fetch(c) \/ End(c) \/ Zip(c) \/ StatsBegin(c)
  BY <1>5, <1>s DEF Download, Fetch, End, Zip, StatsBegin
<1>6. CASE Sum(c) \/ Find(c) \/ Unzip(c) \/ Reply(c) \/ Fail(c) \/ Again(c)
  BY <1>6, <1>s DEF Sum, Find, Unzip, Reply, Fail, Again
<1> QED
  BY <1>1, <1>2, <1>3, <1>4, <1>5, <1>6 DEF Step

LEMMA OthersStay ==
  ASSUME TInv, NEW c \in Clients, OthersKeep(c), Grows,
         NEW d \in Clients, d # c
  PROVE  StatsLocal(d)' /\ FeedbackLocal(d)'
<1>1. Len(stat) \in Nat /\ Len(stat)' >= Len(stat)
  BY DEF TInv, TypeOK, Grows
<1>2. StatsLocal(d)'
  BY DEF TInv, OthersKeep, Grows, StatsLocal
<1>3. FeedbackLocal(d)'
  BY DEF TInv, OthersKeep, Grows, FeedbackLocal
<1> QED
  BY <1>2, <1>3

LEMMA Typed ==
  ASSUME TInv, NEW c \in Clients, Step(c)
  PROVE  TypeOK'
<1> USE DEF cache, statistics, feedback, local
<1>1. ask' = ask
  BY OwnOnly DEF TInv, OthersKeep
<1>2. at' \in [Clients -> Stages]
  <2> USE DEF Asks, GoTo, EndsAs, TInv, TypeOK, Stages
  <2>1. CASE Save(c)
    <3>1. \E s \in {"done", "sum", "find"} : at' = [at EXCEPT ![c] = s]
      BY <2>1, SaveMoves
    <3> QED
      BY <3>1
  <2>2. CASE Download(c) \/ Fetch(c) \/ End(c) \/ Zip(c) \/ StatsBegin(c)
    BY <2>2 DEF Download, Fetch, End, Zip, StatsBegin
  <2>3. CASE Events(c) \/ Sum(c) \/ Find(c) \/ Reply(c) \/ Fail(c) \/ Again(c)
    BY <2>3 DEF Events, Sum, Find, Reply, Fail, Again
  <2>4. CASE Unzip(c) \/ Take(c) \/ Insert(c) \/ Upload(c)
    BY <2>4 DEF Unzip, Take, Insert, Upload
  <2> QED
    BY <2>1, <2>2, <2>3, <2>4 DEF Step
<1>3. tries' \in [Clients -> 0 .. Tries]
  <2>1. tries \in [Clients -> 0 .. Tries] /\ Tries \in Nat
    BY CompanionAssumption DEF TInv, TypeOK
  <2>2. CASE Again(c)
    BY <2>1, <2>2 DEF Again, Set
  <2>3. CASE ~ Again(c)
    BY <2>1, <2>3 DEF Step, Download, Fetch, End, Zip, StatsBegin, Events, Sum,
       Find, Save, Unzip, Take, Insert, Upload, Reply, Fail
  <2> QED
    BY <2>2, <2>3
<1>4. /\ file' \in [Files -> {"none", "open", "flushing", "whole", "torn"}]
      /\ zip' = None \/ zip' \in SUBSET Files
      /\ blame' \subseteq {"broken", "overlap", "late"}
  <2> USE DEF TInv, TypeOK, Set
  <2>1. CASE Download(c) \/ Fetch(c) \/ End(c) \/ Zip(c) \/ Fail(c)
    BY <2>1 DEF Download, Fetch, End, Zip, Fail
  <2>2. CASE ~ (Download(c) \/ Fetch(c) \/ End(c) \/ Zip(c) \/ Fail(c))
    BY <2>2 DEF Step, StatsBegin, Events, Sum, Find, Save, Unzip, Take, Insert,
       Upload, Reply, Again
  <2> QED
    BY <2>1, <2>2
<1>5. events' \subseteq Plays /\ stat' \in Seq(Rows)
  <2> USE DEF TInv, TypeOK
  <2>1. CASE Events(c)
    <3>1. ask[c].kind = "stats"
      BY <2>1 DEF StatsLocal, Events
    <3>2. ask[c].plays \subseteq Plays
      BY <3>1, StatsRequest
    <3>3. events' = events \/ events' = events \cup ask[c].plays
      BY <2>1 DEF Events
    <3>4. stat' = stat
      BY <2>1 DEF Events
    <3> QED
      BY <3>2, <3>3, <3>4
  <2>2. CASE Save(c)
    <3>1. stat \in Seq(Rows)
      OBVIOUS
    <3>2. stat' \in Seq(Rows)
      <4> HIDE DEF TInv, TypeOK
      <4>1. PICK row \in Rows :
              \/ stat' = Append(stat, row)
              \/ /\ now[c].row \in 1 .. Len(stat)
                 /\ stat[now[c].row].content = row.content
                 /\ stat[now[c].row].village = row.village
                 /\ stat' = [stat EXCEPT ![now[c].row] = row]
        BY <2>2, SaveMoves
      <4> QED
        BY <3>1, <4>1, PlaceInRows
    <3> QED
      BY <2>2, <3>2 DEF Save
  <2>3. CASE ~ (Events(c) \/ Save(c))
    BY <2>3 DEF Step, Download, Fetch, End, Zip, StatsBegin, Sum, Find, Unzip,
       Take, Insert, Upload, Reply, Fail, Again
  <2> QED
    BY <2>1, <2>2, <2>3
<1>6. /\ messages' \subseteq Recordings /\ objects' \subseteq Recordings
      /\ unsent' \subseteq messages' /\ lent' \subseteq Recordings
  <2>0. /\ messages \subseteq Recordings /\ objects \subseteq Recordings
        /\ unsent \subseteq messages /\ lent \subseteq Recordings
        /\ FeedbackLocal(c)
    BY DEF TInv, TypeOK
  <2> USE <2>0 DEF FeedbackLocal, Receiving
  <2>1. CASE Take(c)
    <3>1. \A r \in left[c] : Metadata(c, r) \subseteq Recordings
      BY <2>1, CompanionAssumption DEF Metadata, Take
    <3>2. lent' \subseteq Recordings
      BY <2>1, <3>1 DEF Take
    <3> QED
      BY <2>1, <3>2 DEF Take
  <2>2. CASE Insert(c) \/ Upload(c) \/ Fail(c)
    BY <2>2 DEF Insert, Upload, Fail
  <2>3. CASE ~ (Take(c) \/ Insert(c) \/ Upload(c) \/ Fail(c))
    BY <2>3 DEF Step, Download, Fetch, End, Zip, StatsBegin, Events, Sum, Find,
       Save, Unzip, Reply, Again
  <2> QED
    BY <2>1, <2>2, <2>3
<1> QED
  BY <1>1, <1>2, <1>3, <1>4, <1>5, <1>6 DEF TypeOK, TInv

LEMMA OwnFeedback ==
  ASSUME TInv, NEW c \in Clients, Step(c)
  PROVE  FeedbackLocal(c)'
<1> USE DEF Receiving, Set, GoTo, EndsAs, local, Asks
<1>0. /\ FeedbackLocal(c) /\ Locals /\ at \in [Clients -> Stages]
  BY DEF TInv, TypeOK
<1>1. CASE Take(c)
  <2>1. \A r \in left[c] : Metadata(c, r) \subseteq Recordings
    BY <1>1, <1>0, CompanionAssumption DEF Metadata, Take, FeedbackLocal
  <2>2. PICK r \in left[c] :
       \/ /\ Set(left, c, left[c] \ {r})
          /\ UNCHANGED <<at, now, saved, lent>>
       \/ \E u \in Metadata(c, r) \ Strangers :
            IF u \in messages
            THEN /\ Set(saved, c, saved[c] \cup {u})
                 /\ Set(left, c, left[c] \ {r})
                 /\ UNCHANGED <<at, now, lent>>
            ELSE /\ Set(now, c, [name |-> r, uuid |-> u]) /\ GoTo(c, "insert")
                 /\ lent' = IF u = r THEN lent ELSE lent \cup {u}
                 /\ UNCHANGED <<left, saved>>
    BY <1>1 DEF Take
  <2>3. messages' = messages /\ at[c] = "recordings"
    BY <1>1 DEF Take
  <2>4. CASE Set(left, c, left[c] \ {r}) /\ UNCHANGED <<at, now, saved, lent>>
    BY <1>0, <2>3, <2>4 DEF FeedbackLocal, Locals
  <2>5. ASSUME NEW u \in Metadata(c, r) \ Strangers,
               u \in messages, Set(saved, c, saved[c] \cup {u}),
               Set(left, c, left[c] \ {r}), UNCHANGED <<at, now, lent>>
        PROVE  FeedbackLocal(c)'
    BY <1>0, <2>3, <2>5 DEF FeedbackLocal, Locals
  <2>6. ASSUME NEW u \in Metadata(c, r) \ Strangers,
               Set(now, c, [name |-> r, uuid |-> u]), GoTo(c, "insert"),
               lent' = IF u = r THEN lent ELSE lent \cup {u},
               UNCHANGED <<left, saved>>
        PROVE  FeedbackLocal(c)'
    <3>1. r \in Recordings /\ u \in Recordings
      BY <1>0, <2>1, <2>3 DEF FeedbackLocal
    <3>2. now'[c] = [name |-> r, uuid |-> u] /\ at'[c] = "insert"
      BY <1>0, <2>6 DEF Locals
    <3> QED
      BY <1>0, <2>3, <2>6, <3>1, <3>2 DEF FeedbackLocal
  <2> QED
    BY <2>2, <2>4, <2>5, <2>6
<1>2. CASE Insert(c)
  BY <1>0, <1>2 DEF Insert, FeedbackLocal, Locals
<1>3. CASE Upload(c)
  BY <1>0, <1>3 DEF Upload, FeedbackLocal, Locals
<1>4. CASE Unzip(c)
  <2>1. PICK S \in SUBSET {d \in Clients \ {c} :
                          at[d] # "idle" /\ ask[d].kind = "feedback"} :
          Set(left, c, UNION {ask[d].recordings : d \in S \cup {c}})
    BY <1>4 DEF Unzip
  <2>2. \A d \in S \cup {c} : ask[d].recordings \subseteq Recordings
    BY <1>4, FeedbackRequest DEF Unzip, TInv, TypeOK
  <2>3. left'[c] \subseteq Recordings
    BY <1>0, <2>1, <2>2 DEF Locals
  <2> QED
    BY <1>0, <1>4, <2>3 DEF Unzip, FeedbackLocal, feedback
<1>5. CASE Reply(c) \/ Again(c) \/ Fail(c)
  BY <1>0, <1>5 DEF Reply, Again, Fail, FeedbackLocal, Locals, feedback
<1>6. CASE Download(c) \/ Fetch(c) \/ End(c) \/ Zip(c)
  BY <1>0, <1>6 DEF Download, Fetch, End, Zip, FeedbackLocal, Locals, feedback
<1>7. CASE StatsBegin(c) \/ Events(c) \/ Sum(c) \/ Find(c)
  BY <1>0, <1>7 DEF StatsBegin, Events, Sum, Find, FeedbackLocal, Locals, feedback
<1>8. CASE Save(c)
  <2>1. at'[c] \in {"done", "sum", "find"} /\ saved'[c] \in {saved[c], {}}
    BY <1>0, <1>8, SaveMoves DEF Locals
  <2>2. messages' = messages
    BY <1>8 DEF Save, feedback
  <2> QED
    BY <1>0, <2>1, <2>2 DEF FeedbackLocal
<1> QED
  BY <1>1, <1>2, <1>3, <1>4, <1>5, <1>6, <1>7, <1>8 DEF Step

LEMMA OwnStats ==
  ASSUME TInv, NEW c \in Clients, Step(c)
  PROVE  StatsLocal(c)'
<1> USE DEF Counting, Set, GoTo, EndsAs, local, Asks
<1>0. /\ StatsLocal(c) /\ Locals /\ at \in [Clients -> Stages]
      /\ stat \in Seq(Rows)
  BY DEF TInv, TypeOK
<1>1. CASE StatsBegin(c)
  BY <1>0, <1>1 DEF StatsBegin, StatsLocal, Locals
<1>2. CASE Events(c)
  <2>1. CASE ask[c].known
    <3>1. at'[c] = "sum" /\ left'[c] = ContentsOf(ask[c].plays)
      BY <1>0, <1>2, <2>1 DEF Events, Locals
    <3>2. ask[c].plays \subseteq events'
      BY <1>2, <2>1 DEF Events
    <3> QED
      BY <3>1, <3>2 DEF StatsLocal, ContentsOf
  <2>2. CASE ~ ask[c].known
    <3>1. at'[c] = "failed"
      BY <1>0, <1>2, <2>2 DEF Events
    <3> QED
      BY <3>1 DEF StatsLocal
  <2> QED
    BY <2>1, <2>2
<1>3. CASE Sum(c)
  <2>1. CASE ask[c].loader
    <3>1. PICK k \in left[c] : Set(held, c, {p \in events : p.content = k})
      BY <1>3, <2>1 DEF Sum
    <3>2. /\ at'[c] = "find" /\ held'[c] = {p \in events : p.content = k}
          /\ left'[c] = left[c] /\ events' = events /\ at[c] = "sum"
      BY <1>0, <1>3, <2>1, <3>1 DEF Sum, Locals, statistics
    <3>3. \E p \in events : p.content = k
      BY <1>0, <3>2 DEF StatsLocal
    <3> QED
      BY <1>0, <3>2, <3>3 DEF StatsLocal
  <2>2. CASE ~ ask[c].loader
    <3>1. at'[c] = "failed"
      BY <1>0, <1>3, <2>2 DEF Sum
    <3> QED
      BY <3>1 DEF StatsLocal
  <2> QED
    BY <2>1, <2>2
<1>4. CASE Find(c)
  <2>1. PICK p \in held[c], i \in 0 .. Len(stat) :
          /\ Set(now, c, [village |-> p.village, row |-> i])
          /\ i # 0 => stat[i].content = p.content /\ stat[i].village = p.village
    <3>1. PICK p \in held[c] :
           LET is(i) == stat[i].content = p.content /\ stat[i].village = p.village
               there == {i \in 1 .. Len(stat) : is(i)} IN
           \E i \in IF there = {} THEN {0} ELSE there :
              Set(now, c, [village |-> p.village, row |-> i])
      BY <1>4 DEF Find
    <3> DEFINE there == {i \in 1 .. Len(stat) : /\ stat[i].content = p.content
                                                /\ stat[i].village = p.village}
    <3>2. PICK i \in IF there = {} THEN {0} ELSE there :
              Set(now, c, [village |-> p.village, row |-> i])
      BY <3>1
    <3>3. Len(stat) \in Nat
      BY <1>0
    <3>4. i \in 0 .. Len(stat) /\ (i # 0 => i \in there)
      BY <3>2, <3>3
    <3> QED
      BY <3>2, <3>4
  <2>2. /\ at'[c] = "save" /\ now'[c] = [village |-> p.village, row |-> i]
        /\ held' = held /\ left' = left /\ at[c] = "find"
        /\ stat' = stat /\ events' = events
    BY <1>0, <1>4, <2>1 DEF Find, Locals, statistics
  <2> QED
    BY <1>0, <2>1, <2>2 DEF StatsLocal
<1>5. CASE Save(c)
  <2> DEFINE mine == {p \in held[c] : p.village = now[c].village}
  <2>1. PICK p \in mine :
           /\ IF held[c] = mine /\ left[c] = {p.content}
              THEN EndsAs(c, "done")
              ELSE /\ GoTo(c, IF held[c] = mine THEN "sum" ELSE "find")
                   /\ Set(left, c, IF held[c] = mine THEN left[c] \ {p.content}
                                   ELSE left[c])
                   /\ Set(held, c, held[c] \ mine)
    BY <1>5, SaveRow
  <2>2. events' = events /\ at[c] = "save"
    BY <1>5 DEF Save
  <2>3. CASE at'[c] = "done"
    BY <2>3 DEF StatsLocal
  <2>4. CASE at'[c] = "sum" /\ left'[c] \subseteq left[c]
    BY <1>0, <2>2, <2>4 DEF StatsLocal
  <2>5. CASE /\ at'[c] = "find" /\ left'[c] = left[c] /\ held[c] # mine
             /\ held'[c] = held[c] \ mine
    BY <1>0, <2>2, <2>5 DEF StatsLocal
  <2> QED
    BY <1>0, <2>1, <2>3, <2>4, <2>5 DEF Locals
<1>6. CASE \/ Download(c) \/ Fetch(c) \/ End(c) \/ Zip(c) \/ Unzip(c) \/ Take(c)
           \/ Insert(c) \/ Upload(c) \/ Reply(c) \/ Fail(c) \/ Again(c)
  <2>1. at'[c] \in {"idle", "fetch", "body", "done", "recordings", "insert",
                   "upload", "failed"}
    BY <1>0, <1>6 DEF Download, Fetch, End, Zip, Unzip, Take, Insert, Upload,
       Reply, Fail, Again
  <2> QED
    BY <2>1 DEF StatsLocal
<1> QED
  BY <1>1, <1>2, <1>3, <1>4, <1>5, <1>6 DEF Step

LEMMA TypedStep ==
  ASSUME TInv, [Next]_vars
  PROVE  TInv'
<1>1. ASSUME NEW c \in Clients, Step(c)
      PROVE  TInv'
  <2>1. TypeOK' /\ Locals' /\ StatsLocal(c)' /\ FeedbackLocal(c)'
    BY <1>1, Typed, OwnOnly, OwnStats, OwnFeedback DEF TInv
  <2>2. \A d \in Clients : d # c => StatsLocal(d)' /\ FeedbackLocal(d)'
    BY <1>1, OwnOnly, GrowsOnly, OthersStay DEF TInv
  <2> QED
    BY <2>1, <2>2 DEF TInv
<1>2. ASSUME NEW f \in Files, Flush(f)
      PROVE  TInv'
  BY <1>2 DEF Flush, Set, TInv, TypeOK, Locals, StatsLocal, FeedbackLocal,
     local, statistics, feedback
<1>3. CASE UNCHANGED vars
  BY <1>3 DEF vars, TInv, TypeOK, Locals, StatsLocal, FeedbackLocal, local,
     cache, statistics, feedback
<1> QED
  BY <1>1, <1>2, <1>3 DEF Next, Step

-----------------------------------------------------------------------------
(* User feedback: a row without a recording is one whose upload is under   *)
(* way or failed, or whose uuid is lent.                                   *)

Uploading(u) == \E c \in Clients : at[c] = "upload" /\ now[c].uuid = u

FeedbackInv ==
  /\ told \subseteq messages
  /\ \A u \in messages : u \in objects \cup unsent \cup lent \/ Uploading(u)

LEMMA FeedbackStep ==
  ASSUME TInv, FeedbackInv, [Next]_vars
  PROVE  FeedbackInv'
<1> USE DEF FeedbackInv, local, cache, statistics, feedback
<1>0. /\ Locals /\ at \in [Clients -> Stages] /\ \A c \in Clients : FeedbackLocal(c)
  BY DEF TInv, TypeOK
\* Most steps leave what is stored and the uploads as they are.
<1>1. ASSUME NEW c \in Clients, OthersKeep(c), at[c] # "upload",
             UNCHANGED <<messages, objects, unsent>>, lent \subseteq lent',
             told' \subseteq messages
      PROVE  FeedbackInv'
  <2>1. ASSUME NEW u, Uploading(u) PROVE Uploading(u)'
    BY <1>1, <2>1 DEF Uploading, OthersKeep
  <2> QED
    BY <1>1, <2>1
<1>2. ASSUME NEW c \in Clients, Step(c)
      PROVE  FeedbackInv'
  <2>0. OthersKeep(c) /\ Grows
    BY <1>2, OwnOnly, GrowsOnly DEF TInv
  <2>1. CASE Insert(c)
    <3>1. \A d \in Clients : d # c => at'[d] = at[d] /\ now'[d] = now[d]
      BY <2>0 DEF OthersKeep
    <3>2. ASSUME NEW u, Uploading(u) PROVE Uploading(u)'
      BY <2>1, <3>1, <3>2 DEF Uploading, Insert
    <3>3. now[c].uuid \notin messages => Uploading(now[c].uuid)'
      BY <1>0, <2>1 DEF Uploading, Insert, GoTo
    <3> QED
      BY <2>1, <3>2, <3>3 DEF Insert
  <2>2. CASE Upload(c)
    <3>1. now[c].uuid \in objects' \cup lent
      BY <1>0, <2>2 DEF Upload, FeedbackLocal
    <3>2. ASSUME NEW u, Uploading(u), u # now[c].uuid PROVE Uploading(u)'
      BY <2>0, <2>2, <3>2 DEF Uploading, OthersKeep
    <3> QED
      BY <2>2, <3>1, <3>2 DEF Upload
  <2>3. CASE Reply(c)
    <3>1. told' \subseteq messages
      BY <1>0, <2>3 DEF Reply, FeedbackLocal
    <3> QED
      BY <1>1, <2>0, <2>3, <3>1 DEF Reply
  <2>4. CASE Fail(c)
    <3>1. CASE at[c] = "upload"
      <4>1. ASSUME NEW u, Uploading(u), u # now[c].uuid PROVE Uploading(u)'
        BY <2>0, <4>1 DEF Uploading, OthersKeep
      <4> QED
        BY <2>4, <3>1, <4>1 DEF Fail
    <3>2. CASE at[c] # "upload"
      BY <1>1, <2>0, <2>4, <3>2 DEF Fail
    <3> QED
      BY <3>1, <3>2
  <2>5. CASE Take(c)
    <3>1. at[c] # "upload" /\ UNCHANGED <<messages, objects, unsent, told>>
      BY <2>5 DEF Take
    <3> QED
      BY <1>1, <2>0, <3>1 DEF Grows
  <2>6. CASE \/ Download(c) \/ Fetch(c) \/ End(c) \/ Zip(c) \/ StatsBegin(c)
             \/ Events(c) \/ Sum(c) \/ Find(c) \/ Save(c) \/ Unzip(c) \/ Again(c)
    <3>1. at[c] # "upload" /\ UNCHANGED feedback
      BY <2>6 DEF Download, Fetch, End, Zip, StatsBegin, Events, Sum, Find, Save,
         Unzip, Again, Asks
    <3> QED
      BY <1>1, <2>0, <3>1
  <2> QED
    BY <1>2, <2>1, <2>2, <2>3, <2>4, <2>5, <2>6 DEF Step
<1>3. CASE (\E f \in Files : Flush(f)) \/ UNCHANGED vars
  <2>1. UNCHANGED <<at, now, feedback>>
    BY <1>3 DEF Flush, vars
  <2> QED
    BY <2>1 DEF Uploading
<1> QED
  BY <1>2, <1>3 DEF Next, Step

-----------------------------------------------------------------------------
(* Downloads: as long as nothing has gone wrong, one request at a time     *)
(* downloads, what it has been through is on its way to the disk, and only *)
(* the file it reads is open.                                              *)

Downloading(c) == at[c] \in {"fetch", "body"}

CacheInv ==
  blame = {} =>
    /\ zip \in {None, Files}
    /\ \A c, d \in Clients : Downloading(c) /\ Downloading(d) => c = d
    /\ \A f \in Files : file[f] # "torn"
    /\ \A f \in Files : file[f] = "open" =>
         \E c \in Clients : at[c] = "body" /\ f = First(left[c])
    /\ \A c \in Clients : Downloading(c) =>
         \A f \in Files \ left[c] : file[f] # "none"

LEMMA CacheStep ==
  ASSUME TInv, CacheInv, [Next]_vars
  PROVE  CacheInv'
<1> USE DEF CacheInv, local, cache, statistics, feedback, Downloading
<1>0. /\ Locals /\ at \in [Clients -> Stages]
      /\ file \in [Files -> {"none", "open", "flushing", "whole", "torn"}]
  BY DEF TInv, TypeOK
<1>1. ASSUME NEW c \in Clients, Step(c)
      PROVE  CacheInv'
  <2>0. OthersKeep(c)
    BY <1>1, OwnOnly DEF TInv
  <2>a. ASSUME ~ Downloading(c), ~ Downloading(c)', UNCHANGED cache
        PROVE  CacheInv'
    BY <1>0, <2>0, <2>a DEF OthersKeep
  <2>1. CASE Download(c)
    BY <1>0, <2>0, <2>1 DEF Download, Asks, GoTo, Set, OthersKeep, Working, Locals
  <2>2. CASE Fetch(c)
    BY <1>0, <2>0, <2>2 DEF Fetch, GoTo, Set, OthersKeep, Locals
  <2>3. CASE End(c)
    BY <1>0, <2>0, <2>3 DEF End, GoTo, Set, OthersKeep, Locals
  <2>4. CASE Zip(c)
    <3>1. ASSUME blame' = {}
          PROVE  zip' = Files
      <4>1. /\ blame = {} /\ at[c] = "fetch" /\ left[c] = {}
            /\ \A f \in Files : file[f] # "flushing"
        BY <2>4, <3>1 DEF Zip
      <4>2. \A f \in Files : file[f] \notin {"none", "torn"}
        BY <4>1
      <4>3. \A f \in Files : file[f] # "open"
        BY <4>1
      <4>4. \A f \in Files : file[f] = "whole"
        BY <1>0, <4>1, <4>2, <4>3
      <4> QED
        BY <2>4, <4>4 DEF Zip
    <3>2. ~ Downloading(c)' /\ file' = file /\ (blame' = {} => blame = {})
      BY <1>0, <2>4 DEF Zip, EndsAs, GoTo
    <3> QED
      BY <1>0, <2>0, <2>4, <3>1, <3>2 DEF OthersKeep, Zip
  <2>5. CASE Fail(c)
    <3>1. CASE at[c] = "body"
      BY <2>5, <3>1 DEF Fail
    <3>2. CASE at[c] # "body"
      BY <1>0, <2>0, <2>5, <3>2 DEF Fail, EndsAs, GoTo, OthersKeep, Locals
    <3> QED
      BY <3>1, <3>2
  <2>6. CASE Save(c)
    <3>1. at'[c] \in {"done", "sum", "find"}
      BY <1>0, <2>6, SaveMoves
    <3> QED
      BY <2>6, <2>a, <3>1 DEF Save
  <2>7. CASE \/ StatsBegin(c) \/ Events(c) \/ Sum(c) \/ Find(c) \/ Unzip(c)
             \/ Take(c) \/ Insert(c) \/ Upload(c) \/ Reply(c) \/ Again(c)
    <3>1. ~ Downloading(c) /\ ~ Downloading(c)' /\ UNCHANGED cache
      BY <1>0, <2>7 DEF StatsBegin, Events, Sum, Find, Unzip, Take, Insert,
         Upload, Reply, Again, Asks, GoTo, EndsAs
    <3> QED
      BY <2>a, <3>1
  <2> QED
    BY <1>1, <2>1, <2>2, <2>3, <2>4, <2>5, <2>6, <2>7 DEF Step
<1>2. ASSUME NEW f \in Files, Flush(f)
      PROVE  CacheInv'
  BY <1>0, <1>2 DEF Flush, Set
<1>3. CASE UNCHANGED vars
  BY <1>3 DEF vars
<1> QED
  BY <1>1, <1>2, <1>3 DEF Next, Step

-----------------------------------------------------------------------------
(* Statistics: unless two requests deal with a content at a time, the one  *)
(* that does has summed up all its plays, and for each village it either   *)
(* has yet to write the row, or the row is there and counts them all.      *)

Busy(c, k) == at[c] \in Counting /\ k \in left[c]
Alike(p, q) == p.content = q.content /\ p.village = q.village

\* There is a row for play p, and it counts all the plays it should.
RowFor(p) ==
  \E i \in 1 .. Len(stat) :
    Alike(stat[i], p) /\ stat[i].plays = {q \in events : Alike(q, p)}

Summed(c) ==
  at[c] \in {"find", "save"} =>
    \A p \in events :
      p.content \notin raced /\ (\E q \in held[c] : q.content = p.content) =>
        \/ {q \in events : Alike(q, p)} \subseteq held[c]
        \/ (\A q \in held[c] : q.village # p.village) /\ RowFor(p)

\* That no row was found stays true until the new one is written.
StillNone(c) ==
  at[c] = "save" /\ now[c].row = 0 =>
    \A p \in held[c] : p.content \notin raced =>
      \A i \in 1 .. Len(stat) : stat[i].content = p.content =>
                                stat[i].village # now[c].village

StatInv ==
  /\ \A c, d \in Clients : \A k \in left[c] :
       k \notin raced /\ Busy(c, k) /\ Busy(d, k) => c = d
  /\ \A i, j \in 1 .. Len(stat) :
       stat[i].content \notin raced /\ Alike(stat[i], stat[j]) => i = j
  /\ \A p \in events : p.content \notin raced \cup behind => RowFor(p)
  /\ \A c \in Clients : Summed(c) /\ StillNone(c)

\* Who counts a content alone goes on alone.
LEMMA Alone ==
  ASSUME TInv, StatInv, NEW c \in Clients, NEW d \in Clients, d # c,
         NEW p \in held[c], NEW q \in held[d], p.content \notin raced,
         at[c] \in {"find", "save"}, at[d] \in {"find", "save"}
  PROVE  p.content # q.content
<1>1. StatsLocal(c) /\ StatsLocal(d)
  BY DEF TInv
<1>2. Busy(c, p.content) /\ Busy(d, q.content)
  BY <1>1 DEF StatsLocal, Busy, Counting
<1> QED
  BY <1>2 DEF StatInv, Busy

\* A step that leaves the statistics alone and the request not counting.
LEMMA StatKept ==
  ASSUME StatInv, NEW c \in Clients, OthersKeep(c), UNCHANGED statistics,
         at'[c] \notin Counting
  PROVE  StatInv'
<1> USE DEF statistics
<1>1. \A p : RowFor(p)' <=> RowFor(p)
  BY DEF RowFor, Alike
<1>2. \A d \in Clients : Summed(d)' /\ StillNone(d)'
  <2> TAKE d \in Clients
  <2>1. CASE d = c
    BY <2>1 DEF Summed, StillNone, Counting
  <2>2. CASE d # c
    BY <1>1, <2>2 DEF Summed, StillNone, StatInv, OthersKeep
  <2> QED
    BY <2>1, <2>2
<1>3. \A d, e \in Clients : \A k \in left'[d] :
         k \notin raced' /\ Busy(d, k)' /\ Busy(e, k)' => d = e
  BY DEF StatInv, Busy, OthersKeep
<1>4. \A i, j \in 1 .. Len(stat') :
        stat'[i].content \notin raced' /\ Alike(stat'[i], stat'[j]) => i = j
  BY DEF StatInv
<1>5. \A p \in events' : p.content \notin raced' \cup behind' => RowFor(p)'
  BY <1>1 DEF StatInv
<1> QED
  BY <1>2, <1>3, <1>4, <1>5 DEF StatInv, Alike

LEMMA EventsStat ==
  ASSUME TInv, StatInv, NEW c \in Clients, Events(c), ask[c].known
  PROVE  StatInv'
<1> DEFINE new == ContentsOf(ask[c].plays)
<1>0. OthersKeep(c) /\ Locals /\ at \in [Clients -> Stages]
  BY OwnOnly DEF Step, TInv, TypeOK
<1>1. /\ at[c] = "events" /\ at'[c] = "sum" /\ left'[c] = new
      /\ events' = events \cup ask[c].plays /\ behind' = behind \cup new
      /\ stat' = stat
      /\ raced' = raced \cup {k \in new : \E d \in Clients \ {c} :
                                            Working(d) /\ k \in left[d]}
  BY <1>0 DEF Events, GoTo, Set, Locals
<1>2. \A d \in Clients \ {c} : \A k : Busy(d, k) /\ k \in new => k \in raced'
  BY <1>1 DEF Busy, Counting, Working
<1>3. ASSUME NEW p \in events', p.content \notin new
      PROVE  p \in events /\ {q \in events' : Alike(q, p)} = {q \in events : Alike(q, p)}
  BY <1>1, <1>3 DEF ContentsOf, Alike
<1>4. ASSUME NEW p \in events', p.content \notin new, RowFor(p)
      PROVE  RowFor(p)'
  BY <1>1, <1>3, <1>4 DEF RowFor, Alike
<1>5. \A d, e \in Clients : \A k \in left'[d] :
         k \notin raced' /\ Busy(d, k)' /\ Busy(e, k)' => d = e
  BY <1>0, <1>1, <1>2 DEF StatInv, Busy, OthersKeep
<1>6. \A i, j \in 1 .. Len(stat') :
        stat'[i].content \notin raced' /\ Alike(stat'[i], stat'[j]) => i = j
  BY <1>1 DEF StatInv
<1>7. \A p \in events' : p.content \notin raced' \cup behind' => RowFor(p)'
  BY <1>1, <1>3, <1>4 DEF StatInv
<1>8. ASSUME NEW d \in Clients PROVE Summed(d)' /\ StillNone(d)'
  <2>1. CASE d = c
    BY <1>1, <2>1 DEF Summed, StillNone
  <2>2. CASE d # c
    <3>1. /\ at'[d] = at[d] /\ held'[d] = held[d] /\ now'[d] = now[d]
          /\ Summed(d) /\ StillNone(d) /\ StatsLocal(d)
      BY <1>0, <2>2 DEF OthersKeep, StatInv, TInv
    <3>2. StillNone(d)'
      BY <1>1, <3>1 DEF StillNone
    <3>3. ASSUME at[d] \in {"find", "save"}, NEW p \in events',
                 p.content \notin raced', NEW q \in held[d], q.content = p.content
          PROVE  \/ {r \in events' : Alike(r, p)} \subseteq held[d]
                 \/ (\A r \in held[d] : r.village # p.village) /\ RowFor(p)'
      <4>1. Busy(d, p.content)
        BY <3>1, <3>3 DEF StatsLocal, Busy, Counting
      <4>2. p.content \notin new /\ p.content \notin raced
        BY <1>1, <1>2, <2>2, <3>3, <4>1
      <4>3. \/ {r \in events : Alike(r, p)} \subseteq held[d]
            \/ (\A r \in held[d] : r.village # p.village) /\ RowFor(p)
        BY <1>3, <3>1, <3>3, <4>2 DEF Summed
      <4> QED
        BY <1>3, <1>4, <4>2, <4>3
    <3>4. Summed(d)'
      BY <3>1, <3>3 DEF Summed, Alike
    <3> QED
      BY <3>2, <3>4
  <2> QED
    BY <2>1, <2>2
<1> QED
  BY <1>5, <1>6, <1>7, <1>8 DEF StatInv, Alike

LEMMA SumStat ==
  ASSUME TInv, StatInv, NEW c \in Clients, Sum(c), ask[c].loader
  PROVE  StatInv'
<1>0. OthersKeep(c) /\ Locals /\ at \in [Clients -> Stages]
  BY OwnOnly DEF Step, TInv, TypeOK
<1>1. PICK k \in left[c] : held' = [held EXCEPT ![c] = {p \in events : p.content = k}]
  BY DEF Sum, Set
<1>2. /\ at[c] = "sum" /\ at'[c] = "find" /\ left'[c] = left[c]
      /\ held'[c] = {p \in events : p.content = k} /\ UNCHANGED statistics
  BY <1>0, <1>1 DEF Sum, GoTo, Locals
<1> USE DEF statistics
<1>3. \A p : RowFor(p)' <=> RowFor(p)
  BY <1>2 DEF RowFor, Alike
<1>4. ASSUME NEW d \in Clients PROVE Summed(d)' /\ StillNone(d)'
  <2>1. CASE d = c
    BY <1>2, <2>1 DEF Summed, StillNone, Alike
  <2>2. CASE d # c
    BY <1>0, <1>2, <1>3, <2>2 DEF Summed, StillNone, StatInv, OthersKeep
  <2> QED
    BY <2>1, <2>2
<1>5. \A d, e \in Clients : \A j \in left'[d] :
         j \notin raced' /\ Busy(d, j)' /\ Busy(e, j)' => d = e
  BY <1>0, <1>2 DEF StatInv, Busy, OthersKeep, Counting
<1> QED
  BY <1>2, <1>3, <1>4, <1>5 DEF StatInv, Alike

LEMMA FindStat ==
  ASSUME TInv, StatInv, NEW c \in Clients, Find(c)
  PROVE  StatInv'
<1>0. /\ OthersKeep(c) /\ Locals /\ at \in [Clients -> Stages]
      /\ StatsLocal(c) /\ stat \in Seq(Rows)
  BY OwnOnly DEF Step, TInv, TypeOK
<1>1. /\ at[c] = "find" /\ at'[c] = "save" /\ left'[c] = left[c]
      /\ held'[c] = held[c] /\ UNCHANGED statistics
  BY <1>0 DEF Find, GoTo
<1>2. PICK p \in held[c] :
         \E i \in IF {j \in 1 .. Len(stat) : /\ stat[j].content = p.content
                                            /\ stat[j].village = p.village} = {}
                  THEN {0}
                  ELSE {j \in 1 .. Len(stat) : /\ stat[j].content = p.content
                                               /\ stat[j].village = p.village} :
           Set(now, c, [village |-> p.village, row |-> i])
  BY DEF Find
<1>3. /\ now'[c].village = p.village
      /\ now'[c].row = 0 => \A j \in 1 .. Len(stat) :
                              stat[j].content = p.content => stat[j].village # p.village
  BY <1>0, <1>2 DEF Set, Locals
<1>4. \A q \in held[c] : q.content = p.content
  BY <1>0, <1>1 DEF StatsLocal
<1> USE DEF statistics
<1>5. \A q : RowFor(q)' <=> RowFor(q)
  BY <1>1 DEF RowFor, Alike
<1>6. ASSUME NEW d \in Clients PROVE Summed(d)' /\ StillNone(d)'
  <2>1. CASE d = c
    <3>1. StillNone(c)'
      BY <1>1, <1>3, <1>4 DEF StillNone
    <3>2. Summed(c)'
      BY <1>1, <1>5 DEF Summed, StatInv, Alike
    <3> QED
      BY <2>1, <3>1, <3>2
  <2>2. CASE d # c
    BY <1>0, <1>1, <1>5, <2>2 DEF Summed, StillNone, StatInv, OthersKeep
  <2> QED
    BY <2>1, <2>2
<1>7. \A d, e \in Clients : \A j \in left'[d] :
         j \notin raced' /\ Busy(d, j)' /\ Busy(e, j)' => d = e
  BY <1>0, <1>1 DEF StatInv, Busy, OthersKeep, Counting
<1> QED
  BY <1>1, <1>5, <1>6, <1>7 DEF StatInv, Alike

\* The table after Save: row w is new or overwrites one of the same content
\* and village, all others stay.
LEMMA SaveTable ==
  ASSUME NEW s \in Seq(Rows), NEW n, NEW row \in Rows, NEW t,
         \/ n = 0 /\ t = Append(s, row)
         \/ /\ n \in 1 .. Len(s)
            /\ s[n].content = row.content /\ s[n].village = row.village
            /\ t = [s EXCEPT ![n] = row]
  PROVE  \E w \in 1 .. Len(t) :
           /\ t[w] = row
           /\ \A i \in 1 .. Len(s) \ {w} : i \in 1 .. Len(t) /\ t[i] = s[i]
           /\ \A i \in 1 .. Len(t) \ {w} : i \in 1 .. Len(s) /\ t[i] = s[i]
           /\ w \in 1 .. Len(s) =>
                /\ n = w /\ s[w].content = row.content /\ s[w].village = row.village
           /\ w \notin 1 .. Len(s) => n = 0
<1>1. CASE n = 0 /\ t = Append(s, row)
  <2>1. /\ Len(t) = Len(s) + 1 /\ t[Len(s) + 1] = row
        /\ \A i \in 1 .. Len(s) : t[i] = s[i]
    BY <1>1
  <2>2. Len(s) + 1 \in 1 .. Len(t) /\ Len(s) + 1 \notin 1 .. Len(s)
    BY <2>1
  <2>3. \A i \in 1 .. Len(t) \ {Len(s) + 1} : i \in 1 .. Len(s)
    BY <2>1
  <2>4. \A i \in 1 .. Len(s) : i \in 1 .. Len(t)
    BY <2>1
  <2> QED
    BY <1>1, <2>1, <2>2, <2>3, <2>4
<1>2. CASE /\ n \in 1 .. Len(s)
           /\ s[n].content = row.content /\ s[n].village = row.village
           /\ t = [s EXCEPT ![n] = row]
  <2>1. Len(t) = Len(s) /\ \A i \in 1 .. Len(s) : t[i] = IF i = n THEN row ELSE s[i]
    BY <1>2, PlaceInRows
  <2> QED
    BY <1>2, <2>1
<1> QED
  BY <1>1, <1>2

LEMMA SaveStat ==
  ASSUME TInv, StatInv, NEW c \in Clients, Save(c)
  PROVE  StatInv'
<1> DEFINE mine == {p \in held[c] : p.village = now[c].village}
<1>0. /\ OthersKeep(c) /\ Locals /\ at \in [Clients -> Stages]
      /\ StatsLocal(c) /\ stat \in Seq(Rows) /\ Summed(c) /\ StillNone(c)
  BY OwnOnly DEF Step, TInv, TypeOK, StatInv
<1>1. at[c] = "save" /\ events' = events /\ raced' = raced
  BY DEF Save
<1>2. PICK p0 \in mine :
        /\ mine \subseteq events
        /\ \A q \in held[c] : q.content = p0.content
        /\ p0.content \in left[c]
        /\ LET row == [content |-> p0.content, village |-> now[c].village,
                       plays |-> mine] IN
           /\ row \in Rows
           /\ \/ /\ now[c].row = 0 /\ stat' = Append(stat, row)
              \/ /\ now[c].row \in 1 .. Len(stat)
                 /\ stat[now[c].row].content = p0.content
                 /\ stat[now[c].row].village = now[c].village
                 /\ stat' = [stat EXCEPT ![now[c].row] = row]
        /\ behind' = IF held[c] = mine THEN behind \ {p0.content} ELSE behind
        /\ IF held[c] = mine /\ left[c] = {p0.content}
           THEN EndsAs(c, "done")
           ELSE /\ GoTo(c, IF held[c] = mine THEN "sum" ELSE "find")
                /\ Set(left, c, IF held[c] = mine THEN left[c] \ {p0.content}
                                ELSE left[c])
                /\ Set(held, c, held[c] \ mine) /\ Set(now, c, None)
                /\ UNCHANGED saved
  BY SaveRow
<1> DEFINE k == p0.content
           v == now[c].village
           row == [content |-> k, village |-> v, plays |-> mine]
<1>3. p0.village = v /\ p0 \in held[c]
  BY <1>2
<1>4. row.content = k /\ row.village = v /\ row.plays = mine
  OBVIOUS
<1>5. PICK w \in 1 .. Len(stat') :
        /\ stat'[w] = row
        /\ \A i \in 1 .. Len(stat) \ {w} : i \in 1 .. Len(stat') /\ stat'[i] = stat[i]
        /\ \A i \in 1 .. Len(stat') \ {w} : i \in 1 .. Len(stat) /\ stat'[i] = stat[i]
        /\ w \in 1 .. Len(stat) => stat[w].content = k /\ stat[w].village = v
        /\ w \notin 1 .. Len(stat) => now[c].row = 0
  <2>1. /\ row \in Rows
        /\ \/ /\ now[c].row = 0 /\ stat' = Append(stat, row)
           \/ /\ now[c].row \in 1 .. Len(stat)
              /\ stat[now[c].row].content = row.content
              /\ stat[now[c].row].village = row.village
              /\ stat' = [stat EXCEPT ![now[c].row] = row]
    BY <1>2, <1>4
  <2> HIDE DEF row
  <2> QED
    BY <1>0, <1>4, <2>1, SaveTable
<1> HIDE DEF row, mine
\* The row counts what it should.
<1>6. k \notin raced => mine = {q \in events : Alike(q, p0)}
  <2>1. ASSUME k \notin raced PROVE {q \in events : Alike(q, p0)} \subseteq held[c]
    BY <1>0, <1>1, <1>2, <1>3, <2>1 DEF Summed, mine
  <2> QED
    BY <1>2, <1>3, <2>1 DEF mine, Alike
<1>7. ASSUME NEW p, Alike(p, p0), k \notin raced
      PROVE  RowFor(p)'
  <2>1. stat'[w].plays = {q \in events' : Alike(q, p)}
    BY <1>1, <1>4, <1>5, <1>6, <1>7 DEF Alike
  <2> QED
    BY <1>3, <1>4, <1>5, <1>7, <2>1 DEF RowFor, Alike
\* All the others count what they did.
<1>8. ASSUME NEW p, ~ Alike(p, p0), RowFor(p)
      PROVE  RowFor(p)'
  <2>1. PICK i \in 1 .. Len(stat) :
          Alike(stat[i], p) /\ stat[i].plays = {q \in events : Alike(q, p)}
    BY <1>8 DEF RowFor
  <2>2. i # w
    BY <1>3, <1>5, <1>8, <2>1 DEF Alike
  <2> QED
    BY <1>1, <1>5, <2>1, <2>2 DEF RowFor, Alike
<1>9. \A i, j \in 1 .. Len(stat') :
         stat'[i].content \notin raced' /\ Alike(stat'[i], stat'[j]) => i = j
  <2>1. ASSUME NEW j \in 1 .. Len(stat') \ {w}, k \notin raced
        PROVE  ~ (stat'[j].content = k /\ stat'[j].village = v)
    <3>1. j \in 1 .. Len(stat) /\ stat'[j] = stat[j]
      BY <1>5
    <3>2. CASE w \in 1 .. Len(stat)
      BY <1>5, <2>1, <3>1, <3>2 DEF StatInv, Alike
    <3>3. CASE w \notin 1 .. Len(stat)
      BY <1>0, <1>1, <1>3, <1>5, <2>1, <3>1, <3>3 DEF StillNone
    <3> QED
      BY <3>2, <3>3
  <2>2. ASSUME NEW i \in 1 .. Len(stat') \ {w}, NEW j \in 1 .. Len(stat') \ {w},
               stat'[i].content \notin raced', Alike(stat'[i], stat'[j])
        PROVE  i = j
    BY <1>1, <1>5, <2>2 DEF StatInv
  <2> QED
    BY <1>1, <1>4, <1>5, <2>1, <2>2 DEF Alike
<1>10. \A p \in events' : p.content \notin raced' \cup behind' => RowFor(p)'
  <2> SUFFICES ASSUME NEW p \in events, p.content \notin raced, p.content \notin behind'
               PROVE  RowFor(p)'
    BY <1>1
  <2>1. CASE Alike(p, p0)
    BY <1>7, <2>1 DEF Alike
  <2>2. CASE ~ Alike(p, p0) /\ p.content \notin behind
    BY <1>8, <2>2 DEF StatInv
  <2>3. CASE ~ Alike(p, p0) /\ p.content \in behind
    <3>1. p.content = k /\ held[c] = mine
      BY <1>2, <2>3 DEF mine
    <3>2. p \notin held[c]
      BY <1>3, <2>3, <3>1 DEF mine, Alike
    <3>3. RowFor(p)
      BY <1>0, <1>1, <1>3, <3>1, <3>2 DEF Summed, Alike
    <3> QED
      BY <1>8, <2>3, <3>3
  <2> QED
    BY <2>1, <2>2, <2>3
<1>11. Summed(c)' /\ StillNone(c)'
  <2>1. CASE at'[c] = "find"
    <3>1. held'[c] = held[c] \ mine
      BY <1>0, <1>2, <2>1 DEF EndsAs, GoTo, Set, Locals, mine
    <3>2. ASSUME NEW p \in events, p.content \notin raced,
                 NEW q \in held'[c], q.content = p.content
          PROVE  \/ {r \in events : Alike(r, p)} \subseteq held'[c]
                 \/ (\A r \in held'[c] : r.village # p.village) /\ RowFor(p)'
      <4>1. p.content = k
        BY <1>2, <3>1, <3>2
      <4>2. CASE Alike(p, p0)
        BY <1>3, <1>7, <3>1, <3>2, <4>1, <4>2 DEF mine, Alike
      <4>3. CASE ~ Alike(p, p0)
        <5>1. p.village # v
          BY <1>3, <4>1, <4>3 DEF Alike
        <5>2. \/ {r \in events : Alike(r, p)} \subseteq held[c]
              \/ (\A r \in held[c] : r.village # p.village) /\ RowFor(p)
          BY <1>0, <1>1, <1>3, <3>2, <4>1 DEF Summed
        <5>3. \A r : Alike(r, p) => r \notin mine
          BY <5>1 DEF mine, Alike
        <5> QED
          BY <1>8, <3>1, <4>3, <5>2, <5>3
      <4> QED
        BY <4>2, <4>3
    <3> QED
      BY <1>1, <2>1, <3>2 DEF Summed, StillNone, Alike
  <2>2. CASE at'[c] \in {"done", "sum"}
    BY <2>2 DEF Summed, StillNone
  <2> QED
    BY <1>0, <1>2, <2>1, <2>2 DEF EndsAs, GoTo
<1>12. ASSUME NEW d \in Clients, d # c
       PROVE  Summed(d)' /\ StillNone(d)'
  <2>1. /\ at'[d] = at[d] /\ held'[d] = held[d] /\ now'[d] = now[d]
        /\ Summed(d) /\ StillNone(d)
    BY <1>0, <1>12 DEF OthersKeep, StatInv
  <2>2. ASSUME at[d] \in {"find", "save"}, NEW q \in held[d], q.content \notin raced
        PROVE  q.content # k
    BY <1>1, <1>3, <1>12, <2>2, Alone
  <2>3. Summed(d)'
    <3>1. ASSUME at[d] \in {"find", "save"}, NEW p \in events, p.content \notin raced,
                 NEW q \in held[d], q.content = p.content
          PROVE  \/ {r \in events : Alike(r, p)} \subseteq held[d]
                 \/ (\A r \in held[d] : r.village # p.village) /\ RowFor(p)'
      <4>1. ~ Alike(p, p0)
        BY <2>2, <3>1 DEF Alike
      <4>2. \/ {r \in events : Alike(r, p)} \subseteq held[d]
            \/ (\A r \in held[d] : r.village # p.village) /\ RowFor(p)
        BY <2>1, <3>1 DEF Summed
      <4> QED
        BY <1>8, <4>1, <4>2
    <3> QED
      BY <1>1, <2>1, <3>1 DEF Summed, Alike
  <2>4. StillNone(d)'
    BY <1>1, <1>4, <1>5, <2>1, <2>2 DEF StillNone
  <2> QED
    BY <2>3, <2>4
<1>13. \A d, e \in Clients : \A j \in left'[d] :
          j \notin raced' /\ Busy(d, j)' /\ Busy(e, j)' => d = e
  <2>1. left'[c] \subseteq left[c]
    BY <1>0, <1>2 DEF EndsAs, Set, Locals
  <2> QED
    BY <1>0, <1>1, <2>1 DEF StatInv, Busy, OthersKeep, Counting
<1> QED
  BY <1>9, <1>10, <1>11, <1>12, <1>13 DEF StatInv, Alike

LEMMA StatStep ==
  ASSUME TInv, StatInv, [Next]_vars
  PROVE  StatInv'
<1>1. ASSUME NEW c \in Clients, Step(c)
      PROVE  StatInv'
  <2>0. OthersKeep(c) /\ at \in [Clients -> Stages]
    BY <1>1, OwnOnly DEF TInv, TypeOK
  <2>1. CASE Events(c)
    <3>1. CASE ~ ask[c].known
      <4>1. at'[c] = "failed" /\ UNCHANGED statistics
        BY <2>0, <2>1, <3>1 DEF Events, EndsAs, GoTo, statistics
      <4> QED
        BY <2>0, <4>1, StatKept DEF Counting
    <3> QED
      BY <2>1, <3>1, EventsStat
  <2>2. CASE Sum(c)
    <3>1. CASE ~ ask[c].loader
      <4>1. at'[c] = "failed" /\ UNCHANGED statistics
        BY <2>0, <2>2, <3>1 DEF Sum, EndsAs, GoTo
      <4> QED
        BY <2>0, <4>1, StatKept DEF Counting
    <3> QED
      BY <2>2, <3>1, SumStat
  <2>3. CASE Find(c)
    BY <2>3, FindStat
  <2>4. CASE Save(c)
    BY <2>4, SaveStat
  <2>5. CASE \/ Download(c) \/ Fetch(c) \/ End(c) \/ Zip(c) \/ StatsBegin(c)
             \/ Unzip(c) \/ Take(c) \/ Insert(c) \/ Upload(c) \/ Reply(c)
             \/ Fail(c) \/ Again(c)
    <3>1. at'[c] \notin Counting /\ UNCHANGED statistics
      BY <2>0, <2>5 DEF Download, Fetch, End, Zip, StatsBegin, Unzip, Take,
         Insert, Upload, Reply, Fail, Again, GoTo, EndsAs, Counting, Asks
    <3> QED
      BY <2>0, <3>1, StatKept
  <2> QED
    BY <1>1, <2>1, <2>2, <2>3, <2>4, <2>5 DEF Step
<1>2. CASE (\E f \in Files : Flush(f)) \/ UNCHANGED vars
  <2>1. UNCHANGED <<at, left, held, now, statistics>>
    BY <1>2 DEF Flush, vars, local
  <2> QED
    BY <2>1 DEF StatInv, Summed, StillNone, RowFor, Busy, Alike, statistics
<1> QED
  BY <1>1, <1>2 DEF Next, Step

-----------------------------------------------------------------------------
(* The theorems.                                                           *)

IInv == TInv /\ FeedbackInv /\ CacheInv /\ StatInv

LEMMA Inductive == Spec => []IInv
<1>1. Init => IInv
  <2> SUFFICES ASSUME Init PROVE IInv
    OBVIOUS
  <2>1. TInv
    BY InitTyped
  <2>2. FeedbackInv /\ CacheInv
    BY DEF Init, FeedbackInv, CacheInv, Downloading
  <2>3. StatInv
    BY DEF Init, StatInv, Busy, Counting, Summed, StillNone
  <2> QED
    BY <2>1, <2>2, <2>3 DEF IInv
<1>2. IInv /\ [Next]_vars => IInv'
  BY TypedStep, FeedbackStep, CacheStep, StatStep DEF IInv
<1> QED
  BY <1>1, <1>2, PTL DEF Spec

\* Rows, files and requests keep their types (companion.service.ts).
THEOREM TypeCorrect == Spec => []TypeOK
<1>1. IInv => TypeOK
  BY DEF IInv, TInv
<1> QED
  BY <1>1, Inductive, PTL

\* The cached zip lacks a file only after a transfer that broke off, two
\* downloads at a time, or a file that was not yet written.
THEOREM CacheIsWhole == Spec => []CacheWhole
<1>1. IInv => CacheWhole
  BY DEF IInv, CacheInv, CacheWhole
<1> QED
  BY <1>1, Inductive, PTL

\* However often and in whatever portions plays are uploaded, the rows count
\* each of them once, but for contents dealt with by two requests at a time
\* and those whose rows are yet to follow.
THEOREM PlaysCounted == Spec => []PlaysCountedOnce
<1>1. ASSUME IInv, NEW p \in events, p.content \notin raced \cup behind
      PROVE  LET rows == {i \in 1 .. Len(stat) : Alike(stat[i], p)} IN
             /\ Cardinality(rows) = 1
             /\ \A i \in rows : stat[i].plays = {q \in events : Alike(q, p)}
  <2>1. StatInv
    BY <1>1 DEF IInv
  <2>2. PICK i \in 1 .. Len(stat) :
          Alike(stat[i], p) /\ stat[i].plays = {q \in events : Alike(q, p)}
    BY <1>1, <2>1 DEF StatInv, RowFor
  <2>3. \A j \in 1 .. Len(stat) : Alike(stat[j], p) => j = i
    BY <1>1, <2>1, <2>2 DEF StatInv, Alike
  <2>4. {j \in 1 .. Len(stat) : Alike(stat[j], p)} = {i}
    BY <2>2, <2>3
  <2> QED
    BY <2>2, <2>4, FS_Singleton
<1>2. IInv => PlaysCountedOnce
  BY <1>1 DEF PlaysCountedOnce, Alike
<1> QED
  BY <1>2, Inductive, PTL

\* What a phone is told is saved has its row, and its recording unless an
\* upload failed or is under way, or the uuid was lent.
THEOREM ReportedStored == Spec => []ReportedIsStored
<1>1. IInv => ReportedIsStored
  BY DEF IInv, FeedbackInv, Uploading, ReportedIsStored
<1> QED
  BY <1>1, Inductive, PTL

=============================================================================
