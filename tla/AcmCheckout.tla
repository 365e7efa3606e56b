----------------------------- MODULE AcmCheckout -----------------------------
(***************************************************************************)
(* The ACM checkout service (src/src/acm-checkout/acm-checkout.service.ts).*)
(*                                                                         *)
(* A request is an async function: it reads the project's acm_checkout row *)
(* (findOne), decides on that copy, and entity.save() then reads the row   *)
(* again and UPDATEs the columns in which the copy differs from that       *)
(* second reading.  Other requests run between any two of these steps;     *)
(* nothing locks or versions the row.                                      *)
(*                                                                         *)
(*   idle --Lookup--> looked --handler--> saving --SaveUpdate--> idle      *)
(*                       \--handler (answer without saving)----> idle      *)
(*                                                                         *)
(* Left out: the columns no decision reads (dates, contact, version,       *)
(* comments) and the actions that touch no row (list, report).             *)
(***************************************************************************)
EXTENDS Naturals

CONSTANTS
  Projects,      \* project codes
  Users,         \* signed-in users (currentUser)
  Members,       \* <<user, project>>: the user is on the project's program
  Provisioned,   \* projects whose row the new-acm command has inserted
  Resettable,    \* projects whose row has resettable = true
  Names,         \* values of the dto's "name"
  Computers,     \* values of the dto's "computername"
  Keys,          \* values of the dto's "key", and those drawn at random
  Files,         \* values of the dto's "filename"
  Requests,      \* the requests clients may send
  Slots,         \* requests the service can have in flight at once
  MaxRequests,   \* bound: requests served in a behaviour
  Null,          \* SQL null
  Undefined,     \* JavaScript undefined: save() skips such a property
  NoRow          \* findOne found nothing

Statuses  == {"CHECKED_IN", "CHECKED_OUT"}
Actions   == {"statuscheck", "checkout", "checkin", "discard",
              "revokecheckout", "create", "reset", "unknown"}
Responses == {"none", "ok", "denied", "checkedout", "nodb", "error", "lost"}

\* The names and the file the code itself writes (new-acm, reset).
SystemNames == {"lawrence", "system"}
FirstFile   == "db1.zip"

Request ==
  [user : Users, action : Actions, project : Projects \cup {Null},
   name : Names \cup {Undefined}, computername : Computers \cup {Undefined},
   key : Keys \cup {Undefined}, filename : Files \cup {Undefined}]

Row ==
  [acm_state : Statuses,
   now_out_name : Names \cup SystemNames \cup {Null},
   now_out_computername : Computers \cup {Null},
   now_out_key : Keys \cup {Null},
   last_in_name : Names \cup SystemNames \cup {Null},
   last_in_file_name : Files \cup {FirstFile, Null}]

\* A loaded entity: a row some of whose columns were assigned undefined.
Entity ==
  [acm_state : Statuses,
   now_out_name : Names \cup SystemNames \cup {Null, Undefined},
   now_out_computername : Computers \cup {Null, Undefined},
   now_out_key : Keys \cup {Null, Undefined},
   last_in_name : Names \cup SystemNames \cup {Null, Undefined},
   last_in_file_name : Files \cup {FirstFile, Null, Undefined}]

ASSUME RequestsAssumption == Requests \subseteq Request
ASSUME ProjectsAssumption == Null \notin Projects
ASSUME MaxRequestsAssumption == MaxRequests \in Nat
ASSUME NoRowAssumption == NoRow \notin Entity
\* No client sends, and no column holds, JavaScript's undefined.
ASSUME UndefinedAssumption ==
  Undefined \notin Statuses \cup Names \cup SystemNames \cup Computers
                     \cup Keys \cup Files \cup {FirstFile, Null}

VARIABLES
  rows,        \* project -> its acm_checkout row, or NoRow
  orphans,     \* number of rows inserted without a project, by the project
               \* the request had named (the row itself does not record it)
  phase,       \* slot -> how far its request has got
  req,         \* slot -> the request
  acm,         \* slot -> the entity the handler works on, or NoRow
  dbRow,       \* slot -> the row as save() re-read it, or NoRow
  resp,        \* slot -> the status last answered
  overlapped,  \* slot -> another request saved this row since the lookup
               \*         (history only: no guard reads it)
  served       \* number of requests received (bound)

vars == <<rows, orphans, phase, req, acm, dbRow, resp, overlapped, served>>

NoRequest == [action |-> "none", project |-> Null]

\* The row the new-acm command inserts.
NewRow ==
  [acm_state |-> "CHECKED_IN", now_out_name |-> Null,
   now_out_computername |-> Null, now_out_key |-> Null,
   last_in_name |-> "lawrence", last_in_file_name |-> FirstFile]

TypeOK ==
  /\ rows \in [Projects -> Row \cup {NoRow}]
  /\ orphans \in [Projects \cup {Null} -> Nat]
  /\ phase \in [Slots -> {"idle", "looked", "saving"}]
  /\ req \in [Slots -> Requests \cup {NoRequest}]
  /\ acm \in [Slots -> Entity \cup {NoRow}]
  /\ dbRow \in [Slots -> Row \cup {NoRow}]
  /\ resp \in [Slots -> Responses]
  /\ overlapped \in [Slots -> BOOLEAN]
  /\ served \in 0 .. MaxRequests

Init ==
  /\ rows = [p \in Projects |-> IF p \in Provisioned THEN NewRow ELSE NoRow]
  /\ orphans = [p \in Projects \cup {Null} |-> 0]
  /\ phase = [s \in Slots |-> "idle"]
  /\ req = [s \in Slots |-> NoRequest]
  /\ acm = [s \in Slots |-> NoRow]
  /\ dbRow = [s \in Slots |-> NoRow]
  /\ resp = [s \in Slots |-> "none"]
  /\ overlapped = [s \in Slots |-> FALSE]
  /\ served = 0

-----------------------------------------------------------------------------
(* The steps every handler is made of.                                     *)

\* The row of the project, if the caller is on the project's program.
Found(r) ==
  IF r.project \in Projects /\ <<r.user, r.project>> \in Members
  THEN rows[r.project]
  ELSE NoRow

Lookup(s, r) ==
  /\ phase[s] = "idle"
  /\ served < MaxRequests
  /\ phase' = [phase EXCEPT ![s] = "looked"]
  /\ req' = [req EXCEPT ![s] = r]
  /\ acm' = [acm EXCEPT ![s] = Found(r)]
  /\ resp' = [resp EXCEPT ![s] = "none"]
  /\ served' = served + 1
  /\ UNCHANGED <<rows, orphans, dbRow, overlapped>>

\* The request ends; its locals go out of scope.
Finish(s, status) ==
  /\ phase' = [phase EXCEPT ![s] = "idle"]
  /\ req' = [req EXCEPT ![s] = NoRequest]
  /\ acm' = [acm EXCEPT ![s] = NoRow]
  /\ dbRow' = [dbRow EXCEPT ![s] = NoRow]
  /\ resp' = [resp EXCEPT ![s] = status]
  /\ UNCHANGED served

Answer(s, status) ==
  /\ Finish(s, status)
  /\ overlapped' = [overlapped EXCEPT ![s] = FALSE]
  /\ UNCHANGED <<rows, orphans>>

\* save() of a loaded entity: first it reads the row again.
BeginSave(s, entity) ==
  /\ phase' = [phase EXCEPT ![s] = "saving"]
  /\ acm' = [acm EXCEPT ![s] = entity]
  /\ dbRow' = [dbRow EXCEPT ![s] = rows[req[s].project]]
  /\ UNCHANGED <<rows, orphans, req, resp, overlapped, served>>

\* Mutant: a column is written only while it is null.
ColumnOnce(new, read, current) ==
  IF new = Undefined \/ current # Null THEN current ELSE new

\* Then it writes the columns that are defined and differ from that reading.
Column(new, read, current) ==
  IF new \in {Undefined, read} THEN current ELSE new

Updated(row, new, read) ==
  [acm_state |-> Column(new.acm_state, read.acm_state, row.acm_state),
   now_out_name |->
     Column(new.now_out_name, read.now_out_name, row.now_out_name),
   now_out_computername |->
     Column(new.now_out_computername, read.now_out_computername,
            row.now_out_computername),
   now_out_key |-> Column(new.now_out_key, read.now_out_key, row.now_out_key),
   last_in_name |->
     Column(new.last_in_name, read.last_in_name, row.last_in_name),
   last_in_file_name |->
     Column(new.last_in_file_name, read.last_in_file_name,
            row.last_in_file_name)]

SaveUpdate(s) ==
  LET p == req[s].project IN
  /\ phase[s] = "saving"
  /\ rows' = [rows EXCEPT ![p] = Updated(rows[p], acm[s], dbRow[s])]
  /\ overlapped' = [t \in Slots |->
                      IF t = s THEN FALSE
                      ELSE overlapped[t] \/ req[t].project = p]
  /\ Finish(s, "ok")
  /\ UNCHANGED orphans

\* save() of a new entity: one INSERT, with no project_id; the column
\* last_in_file_name is NOT NULL.
Insert(s) ==
  \/ /\ req[s].filename = Undefined
     /\ Answer(s, "error")
  \/ /\ req[s].filename # Undefined
     /\ orphans' = [orphans EXCEPT ![req[s].project] = @ + 1]
     /\ Finish(s, "ok")
     /\ overlapped' = [overlapped EXCEPT ![s] = FALSE]
     /\ UNCHANGED rows

\* The process is stopped or the request times out; nobody gets an answer.
Abort(s) == phase[s] # "idle" /\ Answer(s, "lost")

-----------------------------------------------------------------------------
(* The handlers: each runs on the copy of the row that Lookup took.        *)

Handles(s, action) == phase[s] = "looked" /\ req[s].action = action

StatusCheck(s) ==
  /\ Handles(s, "statuscheck")
  /\ \/ acm[s] = NoRow /\ Answer(s, "nodb")
     \/ /\ acm[s] # NoRow
        /\ Answer(s, IF acm[s].acm_state = "CHECKED_OUT"
                     THEN "checkedout" ELSE "ok")

\* Mutant: the state of the row is not looked at.
CannotCheckOutAbsent(entity) == entity = NoRow

CannotCheckOut(entity) == entity # NoRow => entity.acm_state = "CHECKED_OUT"

CheckOut(s) ==
  /\ Handles(s, "checkout")
  /\ \/ CannotCheckOut(acm[s]) /\ Answer(s, "denied")
     \/ /\ ~ CannotCheckOut(acm[s])
        /\ \E k \in Keys :
             /\ req[s].key # Undefined => k = req[s].key
             /\ BeginSave(s, [acm[s] EXCEPT
                  !.acm_state = "CHECKED_OUT",
                  !.now_out_name = req[s].name,
                  !.now_out_computername = req[s].computername,
                  !.now_out_key = k])

CannotCheckIn(entity) == entity # NoRow => entity.acm_state = "CHECKED_IN"

CheckIn(s) ==
  /\ Handles(s, "checkin")
  /\ req[s].key # "new"
  /\ \/ CannotCheckIn(acm[s]) /\ Answer(s, "denied")
     \/ /\ ~ CannotCheckIn(acm[s])
        /\ BeginSave(s, [acm[s] EXCEPT
             !.acm_state = "CHECKED_IN",
             !.last_in_file_name = req[s].filename,
             !.last_in_name = req[s].name,
             !.now_out_key = req[s].key])

NewCheckIn(s) ==
  /\ Handles(s, "checkin")
  /\ req[s].key = "new"
  /\ \/ acm[s] # NoRow /\ Answer(s, "denied")
     \/ acm[s] = NoRow /\ Insert(s)

Create(s) ==
  /\ Handles(s, "create")
  /\ \/ acm[s] # NoRow /\ Answer(s, "denied")
     \/ acm[s] = NoRow /\ Insert(s)

NothingToDiscard(entity) == entity # NoRow => entity.acm_state # "CHECKED_OUT"

\* Mutant: anybody may discard.
CannotDiscardNever(entity, r) == FALSE

CannotDiscard(entity, r) ==
  /\ entity.now_out_computername # r.computername
  /\ entity.last_in_name # r.name

Discard(s) ==
  /\ Handles(s, "discard")
  /\ \/ NothingToDiscard(acm[s]) /\ Answer(s, "ok")
     \/ /\ ~ NothingToDiscard(acm[s])
        /\ CannotDiscard(acm[s], req[s])
        /\ Answer(s, "denied")
     \/ /\ ~ NothingToDiscard(acm[s])
        /\ ~ CannotDiscard(acm[s], req[s])
        /\ BeginSave(s, [acm[s] EXCEPT !.acm_state = "CHECKED_IN",
                                       !.now_out_key = req[s].key])

RevokeCheckout(s) ==
  /\ Handles(s, "revokecheckout")
  /\ \/ acm[s] = NoRow /\ Answer(s, "denied")
     \/ /\ acm[s] # NoRow
        /\ BeginSave(s, [acm[s] EXCEPT !.acm_state = "CHECKED_IN"])

\* Without a row, "acm.resettable" throws.
Reset(s) ==
  /\ Handles(s, "reset")
  /\ \/ acm[s] = NoRow /\ Answer(s, "error")
     \/ /\ acm[s] # NoRow
        /\ req[s].project \notin Resettable
        /\ Answer(s, "denied")
     \/ /\ acm[s] # NoRow
        /\ req[s].project \in Resettable
        /\ BeginSave(s, [acm[s] EXCEPT
             !.acm_state = "CHECKED_IN",
             !.last_in_file_name = IF req[s].filename = Undefined
                                   THEN FirstFile ELSE req[s].filename,
             !.last_in_name = IF req[s].name = Undefined
                              THEN "system" ELSE req[s].name,
             !.now_out_key = req[s].key])

UnknownAction(s) == Handles(s, "unknown") /\ Answer(s, "denied")

Handler(s) ==
  \/ StatusCheck(s) \/ CheckOut(s) \/ CheckIn(s) \/ NewCheckIn(s)
  \/ Create(s) \/ Discard(s) \/ RevokeCheckout(s) \/ Reset(s)
  \/ UnknownAction(s)

Next ==
  \E s \in Slots :
    \/ \E r \in Requests : Lookup(s, r)
    \/ Handler(s)
    \/ SaveUpdate(s)
    \/ Abort(s)

Spec == Init /\ [][Next]_vars

-----------------------------------------------------------------------------
(* Properties.  "Saves" is the step in which a handler's save() takes       *)
(* effect and its "ok" is sent.                                            *)

Saves(s, action) ==
  /\ phase[s] = "saving"
  /\ req[s].action = action
  /\ resp'[s] = "ok"

\* A checkout is granted over somebody else's checkout only if another
\* request saved the row between this request's lookup and its UPDATE: the
\* check "acm_state === CHECKED_OUT" (line 243) fails in no other way.
NoUnprovokedTakeover ==
  [][\A s \in Slots :
       /\ Saves(s, "checkout")
       /\ rows[req[s].project].acm_state = "CHECKED_OUT"
       => overlapped[s]]_vars

\* A discard releases a checkout only for the computer it was made on or for
\* the name that last checked the ACM in (line 155), except when another
\* request saved the row after the discard had looked at it.
NoUnprovokedDiscard ==
  [][\A s \in Slots :
       Saves(s, "discard") =>
         \/ overlapped[s]
         \/ LET row == rows[req[s].project] IN
              /\ row.acm_state = "CHECKED_OUT"
              /\ \/ row.now_out_computername = req[s].computername
                 \/ row.last_in_name = req[s].name]_vars

\* What was given is stored; what was left undefined is not constrained.
Given(value, column) == value # Undefined => column = value

\* An "ok" tells the truth: unless another request saved the row meanwhile,
\* the row afterwards is in the state the action asks for and carries the
\* columns of this request, although save() writes only what differs from
\* its own second reading.
AnsweredIsStored ==
  [][\A s \in Slots : LET r == req[s]  row == rows'[req[s].project] IN
       ~ overlapped[s] =>
         /\ Saves(s, "checkout") =>
              /\ row.acm_state = "CHECKED_OUT"
              /\ Given(r.name, row.now_out_name)
              /\ Given(r.computername, row.now_out_computername)
              /\ Given(r.key, row.now_out_key)
         /\ Saves(s, "checkin") =>
              /\ row.acm_state = "CHECKED_IN"
              /\ Given(r.filename, row.last_in_file_name)
              /\ Given(r.name, row.last_in_name)
         /\ \A a \in {"discard", "revokecheckout", "reset"} :
              Saves(s, a) => row.acm_state = "CHECKED_IN"]_vars

\* A project's row changes only on behalf of a member of its program: the
\* lookup's join (line 48) is the service's only access check, and it is made
\* steps before the write.
OnlyMembersChangeRows ==
  [][\A p \in Projects :
       rows'[p] # rows[p] =>
         \E s \in Slots :
           /\ phase[s] = "saving"
           /\ req[s].project = p
           /\ <<req[s].user, p>> \in Members]_vars

\* The lock a client of the service may think it is using: the entry of
\* whoever has the ACM out, while it is out.
Holders ==
  [name : Names \cup SystemNames \cup {Null}, computer : Computers \cup {Null},
   key : Keys \cup {Null}]

HolderOf(row) ==
  IF CannotCheckIn(row) THEN Null
  ELSE [name |-> row.now_out_name, computer |-> row.now_out_computername,
        key |-> row.now_out_key]

ASSUME NullAssumption == Null \notin Holders

\* Projects of which a request is about to save a copy that another request
\* has overtaken.
Contended ==
  {p \in Projects : \E s \in Slots :
     phase[s] = "saving" /\ req[s].project = p /\ overlapped[s]}

Lock == INSTANCE CheckoutLock
          WITH Free <- Null,
               holder <- [p \in Projects |-> HolderOf(rows[p])],
               contended <- Contended

\* The rows are an exclusive lock: nobody takes an ACM that is out, and the
\* entry of who has it never changes while it is out, unless another request
\* saved the row between a request's lookup and its UPDATE.  So the service
\* is a lock for clients that are served one at a time, after any sequence of
\* calls, and on each project while nobody else calls for it.
ImplementsCheckoutLock == Lock!Spec
=============================================================================
