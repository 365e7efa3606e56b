------------------------- MODULE AcmCheckout_proofs -------------------------
(***************************************************************************)
(* Theorems about AcmCheckout for every set of users, projects, requests   *)
(* and slots, and about NewAcm for every set of commands.  The inductive   *)
(* invariant of the first follows a request through its phases: what the   *)
(* handler holds is what the row says unless the history variable          *)
(* "overlapped" records that another request saved the row since.  That    *)
(* of the second follows a command through its stages.                     *)
(***************************************************************************)
EXTENDS AcmCheckout, NewAcm, FiniteSetTheorems, TLAPS

\* The request is a member's and its project has a row.
MayTouch(s) ==
  /\ req[s] \in Requests
  /\ req[s].project \in Projects
  /\ <<req[s].user, req[s].project>> \in Members
  /\ rows[req[s].project] \in Row

\* The copy a handler is about to decide on.
LookedInv(s) ==
  /\ req[s] \in Requests
  /\ acm[s] # NoRow =>
       /\ MayTouch(s)
       /\ acm[s] \in Row
       /\ ~ overlapped[s] => acm[s] = rows[req[s].project]

\* The guard a saving request has passed, of the row it decided on.
Passed(r, row) ==
  /\ r.action = "checkout" => row.acm_state = "CHECKED_IN"
  /\ r.action = "checkin" => row.acm_state = "CHECKED_OUT"
  /\ r.action = "discard" =>
       /\ row.acm_state = "CHECKED_OUT"
       /\ \/ row.now_out_computername = r.computername
          \/ row.last_in_name = r.name

\* What the handlers assign to the entity they save.
Assigned(r, entity) ==
  /\ r.action \in {"checkout", "checkin", "discard", "revokecheckout", "reset"}
  /\ r.action = "checkout" =>
       /\ entity.acm_state = "CHECKED_OUT"
       /\ entity.now_out_name = r.name
       /\ entity.now_out_computername = r.computername
       /\ entity.now_out_key # Undefined
       /\ r.key # Undefined => entity.now_out_key = r.key
  /\ r.action # "checkout" => entity.acm_state = "CHECKED_IN"
  /\ r.action = "checkin" =>
       /\ entity.last_in_file_name = r.filename
       /\ entity.last_in_name = r.name

SavingInv(s) ==
  /\ MayTouch(s)
  /\ acm[s] \in Entity
  /\ dbRow[s] \in Row
  /\ Assigned(req[s], acm[s])
  /\ ~ overlapped[s] =>
       /\ Passed(req[s], rows[req[s].project])
       /\ dbRow[s] = rows[req[s].project]

SlotInv(s) ==
  /\ phase[s] = "idle" => req[s] = NoRequest
  /\ phase[s] # "idle" => resp[s] = "none"
  /\ phase[s] = "looked" => LookedInv(s)
  /\ phase[s] = "saving" => SavingInv(s)

IInv == TypeOK /\ \A s \in Slots : SlotInv(s)

-----------------------------------------------------------------------------
(* What save() makes of a row.                                             *)

\* The UPDATE leaves a row: no column of it becomes undefined.
LEMMA UpdatedType ==
  ASSUME NEW row \in Row, NEW new \in Entity, NEW read \in Row
  PROVE  Updated(row, new, read) \in Row
<1>1. Column(new.acm_state, read.acm_state, row.acm_state) \in Statuses
  BY DEF Column, Row, Entity
<1>2. Column(new.now_out_name, read.now_out_name, row.now_out_name)
        \in Names \cup SystemNames \cup {Null}
  BY DEF Column, Row, Entity
<1>3. Column(new.now_out_computername, read.now_out_computername,
             row.now_out_computername) \in Computers \cup {Null}
  BY DEF Column, Row, Entity
<1>4. Column(new.now_out_key, read.now_out_key, row.now_out_key)
        \in Keys \cup {Null}
  BY DEF Column, Row, Entity
<1>5. Column(new.last_in_name, read.last_in_name, row.last_in_name)
        \in Names \cup SystemNames \cup {Null}
  BY DEF Column, Row, Entity
<1>6. Column(new.last_in_file_name, read.last_in_file_name,
             row.last_in_file_name) \in Files \cup {FirstFile, Null}
  BY DEF Column, Row, Entity
<1>7. QED
  BY <1>1, <1>2, <1>3, <1>4, <1>5, <1>6 DEF Updated, Row

\* An entity whose columns are a row's, or undefined, is an entity.
LEMMA RowIsEntity == Row \subseteq Entity
  BY DEF Row, Entity

-----------------------------------------------------------------------------
(* The steps handlers are made of preserve the invariant.                  *)

\* The service starts with the invariant: no request is in flight.
LEMMA InitInv == Init => IInv
<1> SUFFICES ASSUME Init PROVE IInv
  OBVIOUS
<1>1. NewRow \in Row
  BY DEF NewRow, Row, Statuses, SystemNames
<1>2. TypeOK
  BY <1>1, MaxRequestsAssumption DEF Init, TypeOK, Responses
<1>3. ASSUME NEW s \in Slots PROVE SlotInv(s)
  BY <1>3 DEF Init, SlotInv
<1>4. QED
  BY <1>2, <1>3 DEF IInv

\* What findOne reads is a row of a member's project, or nothing.
LEMMA LookupInv ==
  ASSUME IInv, NEW s \in Slots, NEW r \in Requests, Lookup(s, r)
  PROVE  IInv'
<1>1. Found(r) \in Row \cup {NoRow}
  BY DEF IInv, TypeOK, Found
<1>2. TypeOK'
  <2>1. served' \in 0 .. MaxRequests
    BY MaxRequestsAssumption DEF IInv, TypeOK, Lookup
  <2>2. QED
    BY <1>1, <2>1, RowIsEntity DEF IInv, TypeOK, Lookup, Responses
<1>3. ASSUME NEW t \in Slots PROVE SlotInv(t)'
  <2>1. CASE t = s
    <3>1. /\ phase'[t] = "looked" /\ req'[t] = r /\ acm'[t] = Found(r)
          /\ resp'[t] = "none"
      BY <2>1 DEF IInv, TypeOK, Lookup
    <3>2. ASSUME Found(r) # NoRow
          PROVE  /\ r.project \in Projects
                 /\ <<r.user, r.project>> \in Members
                 /\ Found(r) = rows[r.project]
      BY <3>2 DEF Found
    <3>3. QED
      BY <1>1, <3>1, <3>2 DEF SlotInv, LookedInv, MayTouch, Lookup
  <2>2. CASE t # s
    BY <2>2 DEF IInv, TypeOK, Lookup, SlotInv, LookedInv, SavingInv, MayTouch
  <2>3. QED
    BY <2>1, <2>2
<1>4. QED
  BY <1>2, <1>3 DEF IInv

\* Answering ends a request without touching a row.
LEMMA AnswerInv ==
  ASSUME IInv, NEW s \in Slots, NEW status \in Responses, Answer(s, status)
  PROVE  IInv'
<1>1. TypeOK'
  BY DEF IInv, TypeOK, Answer, Finish
<1>2. ASSUME NEW t \in Slots PROVE SlotInv(t)'
  <2>1. CASE t = s
    BY <2>1 DEF IInv, TypeOK, Answer, Finish, SlotInv
  <2>2. CASE t # s
    BY <2>2 DEF IInv, TypeOK, Answer, Finish, SlotInv, LookedInv, SavingInv,
                MayTouch
  <2>3. QED
    BY <2>1, <2>2
<1>3. QED
  BY <1>1, <1>2 DEF IInv

\* Inserting a row without a project leaves the projects' rows alone.
LEMMA InsertInv ==
  ASSUME IInv, NEW s \in Slots, req[s] \in Requests, Insert(s)
  PROVE  IInv'
<1>1. CASE Answer(s, "error")
  BY <1>1, AnswerInv DEF Responses
<1>2. CASE /\ orphans' = [orphans EXCEPT ![req[s].project] = @ + 1]
           /\ Finish(s, "ok")
           /\ overlapped' = [overlapped EXCEPT ![s] = FALSE]
           /\ UNCHANGED rows
  <2>1. TypeOK'
    <3>1. req[s].project \in Projects \cup {Null}
      BY RequestsAssumption DEF Request
    <3>2. orphans' \in [Projects \cup {Null} -> Nat]
      BY <1>2, <3>1 DEF IInv, TypeOK
    <3>3. QED
      BY <1>2, <3>2 DEF IInv, TypeOK, Finish, Responses
  <2>2. ASSUME NEW t \in Slots PROVE SlotInv(t)'
    <3>1. CASE t = s
      BY <1>2, <3>1 DEF IInv, TypeOK, Finish, SlotInv
    <3>2. CASE t # s
      BY <1>2, <3>2 DEF IInv, TypeOK, Finish, SlotInv, LookedInv, SavingInv,
                        MayTouch
    <3>3. QED
      BY <3>1, <3>2
  <2>3. QED
    BY <2>1, <2>2 DEF IInv
<1>3. QED
  BY <1>1, <1>2 DEF Insert

\* A save may begin with an entity of the row that its handler may touch.
LEMMA BeginSaveInv ==
  ASSUME IInv, NEW s \in Slots, NEW entity \in Entity, MayTouch(s),
         phase[s] # "idle",
         Assigned(req[s], entity),
         ~ overlapped[s] => Passed(req[s], rows[req[s].project]),
         BeginSave(s, entity)
  PROVE  IInv'
<1>1. TypeOK'
  BY DEF IInv, TypeOK, BeginSave, MayTouch
<1>2. ASSUME NEW t \in Slots PROVE SlotInv(t)'
  <2>1. CASE t = s
    BY <2>1 DEF IInv, TypeOK, BeginSave, SlotInv, SavingInv, MayTouch
  <2>2. CASE t # s
    BY <2>2 DEF IInv, TypeOK, BeginSave, SlotInv, LookedInv, SavingInv,
                MayTouch
  <2>3. QED
    BY <2>1, <2>2
<1>3. QED
  BY <1>1, <1>2 DEF IInv

\* The UPDATE leaves a row where there was one, and every other request knows
\* that it was overtaken.
LEMMA SaveUpdateInv ==
  ASSUME IInv, NEW s \in Slots, SaveUpdate(s)
  PROVE  IInv'
<1> DEFINE p == req[s].project
           row == Updated(rows[p], acm[s], dbRow[s])
<1>1. SavingInv(s)
  BY DEF IInv, SlotInv, SaveUpdate
<1>2. p \in Projects /\ row \in Row
  BY <1>1, UpdatedType DEF SavingInv, MayTouch
<1>3. rows' = [rows EXCEPT ![p] = row]
  BY DEF SaveUpdate
<1> HIDE DEF row
<1>4. TypeOK'
  BY <1>2, <1>3 DEF IInv, TypeOK, SaveUpdate, Finish, Responses
<1>5. ASSUME NEW t \in Slots PROVE SlotInv(t)'
  <2>1. CASE t = s
    BY <2>1 DEF IInv, TypeOK, SaveUpdate, Finish, SlotInv
  <2>2. CASE t # s
    <3>1. /\ phase'[t] = phase[t] /\ req'[t] = req[t] /\ acm'[t] = acm[t]
          /\ dbRow'[t] = dbRow[t] /\ resp'[t] = resp[t]
          /\ overlapped'[t] = (overlapped[t] \/ req[t].project = p)
      BY <2>2 DEF IInv, TypeOK, SaveUpdate, Finish
    <3>2. CASE req[t].project = p
      BY <1>2, <1>3, <3>1, <3>2
      DEF IInv, TypeOK, SlotInv, LookedInv, SavingInv, MayTouch
    <3>3. CASE req[t].project # p
      <4>1. req[t].project \in Projects =>
              rows'[req[t].project] = rows[req[t].project]
        BY <1>2, <1>3, <3>3 DEF IInv, TypeOK
      <4>2. QED
        BY <3>1, <3>3, <4>1
        DEF IInv, SlotInv, LookedInv, SavingInv, MayTouch
    <3>4. QED
      BY <3>2, <3>3
  <2>3. QED
    BY <2>1, <2>2
<1>6. QED
  BY <1>4, <1>5 DEF IInv

-----------------------------------------------------------------------------
(* The handlers: each answers, inserts, or saves an entity it may save.     *)

\* A handler runs on what Lookup left.
LEMMA HandlesInv ==
  ASSUME IInv, NEW s \in Slots, NEW action, Handles(s, action)
  PROVE  LookedInv(s)
  BY DEF IInv, SlotInv, Handles

\* A checkout answers or saves a row that was checked in.
LEMMA CheckOutInv ==
  ASSUME IInv, NEW s \in Slots, CheckOut(s)
  PROVE  IInv'
<1>1. /\ LookedInv(s) /\ phase[s] # "idle"
      /\ req[s].action = "checkout"
  BY HandlesInv DEF CheckOut, Handles
<1>2. CASE Answer(s, "denied")
  BY <1>2, AnswerInv DEF Responses
<1>3. ASSUME ~ CannotCheckOut(acm[s]), NEW k \in Keys,
             req[s].key # Undefined => k = req[s].key,
             BeginSave(s, [acm[s] EXCEPT
                  !.acm_state = "CHECKED_OUT",
                  !.now_out_name = req[s].name,
                  !.now_out_computername = req[s].computername,
                  !.now_out_key = k])
      PROVE  IInv'
  <2> DEFINE e == [acm[s] EXCEPT !.acm_state = "CHECKED_OUT",
                                 !.now_out_name = req[s].name,
                                 !.now_out_computername = req[s].computername,
                                 !.now_out_key = k]
  <2>1. /\ MayTouch(s) /\ acm[s] # NoRow /\ acm[s] \in Row
        /\ acm[s].acm_state = "CHECKED_IN"
    BY <1>1, <1>3 DEF LookedInv, CannotCheckOut, Row, Statuses
  <2>2. e \in Entity
    <3>1. req[s] \in Request
      BY <1>1, RequestsAssumption DEF LookedInv
    <3>2. /\ req[s].name \in Names \cup {Undefined}
          /\ req[s].computername \in Computers \cup {Undefined}
          /\ req[s].key \in Keys \cup {Undefined}
          /\ req[s].filename \in Files \cup {Undefined}
      BY <3>1 DEF Request
    <3>3. QED
      BY <2>1, <3>2 DEF Row, Entity, Statuses
  <2>3. Assigned(req[s], e)
    BY <1>1, <1>3, <2>1, UndefinedAssumption DEF Assigned, Row
  <2>4. ~ overlapped[s] => Passed(req[s], rows[req[s].project])
    BY <1>1, <2>1 DEF LookedInv, Passed
  <2>5. BeginSave(s, e)
    BY <1>3
  <2> HIDE DEF e
  <2>6. QED
    BY <1>1, <2>1, <2>2, <2>3, <2>4, <2>5, BeginSaveInv
<1>4. QED
  BY <1>2, <1>3 DEF CheckOut

\* A check-in answers or saves a row that was checked out.
LEMMA CheckInInv ==
  ASSUME IInv, NEW s \in Slots, CheckIn(s)
  PROVE  IInv'
<1> DEFINE e == [acm[s] EXCEPT !.acm_state = "CHECKED_IN",
                               !.last_in_file_name = req[s].filename,
                               !.last_in_name = req[s].name,
                               !.now_out_key = req[s].key]
<1>1. /\ LookedInv(s) /\ phase[s] # "idle"
      /\ req[s].action = "checkin"
  BY HandlesInv DEF CheckIn, Handles
<1>2. CASE Answer(s, "denied")
  BY <1>2, AnswerInv DEF Responses
<1>3. CASE ~ CannotCheckIn(acm[s]) /\ BeginSave(s, e)
  <2>1. /\ MayTouch(s) /\ acm[s] # NoRow /\ acm[s] \in Row
        /\ acm[s].acm_state = "CHECKED_OUT"
    BY <1>1, <1>3 DEF LookedInv, CannotCheckIn, Row, Statuses
  <2>2. e \in Entity
    <3>1. req[s] \in Request
      BY <1>1, RequestsAssumption DEF LookedInv
    <3>2. /\ req[s].name \in Names \cup {Undefined}
          /\ req[s].computername \in Computers \cup {Undefined}
          /\ req[s].key \in Keys \cup {Undefined}
          /\ req[s].filename \in Files \cup {Undefined}
      BY <3>1 DEF Request
    <3>3. QED
      BY <2>1, <3>2 DEF Row, Entity, Statuses
  <2>3. Assigned(req[s], e)
    BY <1>1, <2>1 DEF Assigned, Row
  <2>4. ~ overlapped[s] => Passed(req[s], rows[req[s].project])
    BY <1>1, <2>1 DEF LookedInv, Passed
  <2> HIDE DEF e
  <2>5. QED
    BY <1>1, <1>3, <2>1, <2>2, <2>3, <2>4, BeginSaveInv
<1>4. QED
  BY <1>2, <1>3 DEF CheckIn

\* A discard answers or saves a row its caller may release.
LEMMA DiscardInv ==
  ASSUME IInv, NEW s \in Slots, Discard(s)
  PROVE  IInv'
<1> DEFINE e == [acm[s] EXCEPT !.acm_state = "CHECKED_IN",
                               !.now_out_key = req[s].key]
<1>1. /\ LookedInv(s) /\ phase[s] # "idle"
      /\ req[s].action = "discard"
  BY HandlesInv DEF Discard, Handles
<1>2. CASE Answer(s, "ok") \/ Answer(s, "denied")
  BY <1>2, AnswerInv DEF Responses
<1>3. CASE /\ ~ NothingToDiscard(acm[s])
           /\ ~ CannotDiscard(acm[s], req[s])
           /\ BeginSave(s, e)
  <2>1. /\ MayTouch(s) /\ acm[s] # NoRow /\ acm[s] \in Row
        /\ acm[s].acm_state = "CHECKED_OUT"
    BY <1>1, <1>3 DEF LookedInv, NothingToDiscard, Row, Statuses
  <2>2. e \in Entity
    <3>1. req[s] \in Request
      BY <1>1, RequestsAssumption DEF LookedInv
    <3>2. /\ req[s].name \in Names \cup {Undefined}
          /\ req[s].computername \in Computers \cup {Undefined}
          /\ req[s].key \in Keys \cup {Undefined}
          /\ req[s].filename \in Files \cup {Undefined}
      BY <3>1 DEF Request
    <3>3. QED
      BY <2>1, <3>2 DEF Row, Entity, Statuses
  <2>3. Assigned(req[s], e)
    BY <1>1, <2>1 DEF Assigned, Row
  <2>4. ~ overlapped[s] => Passed(req[s], rows[req[s].project])
    BY <1>1, <1>3, <2>1 DEF LookedInv, Passed, CannotDiscard
  <2> HIDE DEF e
  <2>5. QED
    BY <1>1, <1>3, <2>1, <2>2, <2>3, <2>4, BeginSaveInv
<1>4. QED
  BY <1>2, <1>3 DEF Discard

\* A revocation answers or saves the row it found.
LEMMA RevokeInv ==
  ASSUME IInv, NEW s \in Slots, RevokeCheckout(s)
  PROVE  IInv'
<1> DEFINE e == [acm[s] EXCEPT !.acm_state = "CHECKED_IN"]
<1>1. /\ LookedInv(s) /\ phase[s] # "idle"
      /\ req[s].action = "revokecheckout"
  BY HandlesInv DEF RevokeCheckout, Handles
<1>2. CASE Answer(s, "denied")
  BY <1>2, AnswerInv DEF Responses
<1>3. CASE acm[s] # NoRow /\ BeginSave(s, e)
  <2>1. MayTouch(s) /\ acm[s] \in Row
    BY <1>1, <1>3 DEF LookedInv
  <2>2. e \in Entity
    BY <2>1 DEF Row, Entity, Statuses
  <2>3. Assigned(req[s], e) /\ Passed(req[s], rows[req[s].project])
    BY <1>1, <2>1 DEF Assigned, Passed, Row
  <2> HIDE DEF e
  <2>4. QED
    BY <1>1, <1>3, <2>1, <2>2, <2>3, BeginSaveInv
<1>4. QED
  BY <1>2, <1>3 DEF RevokeCheckout

\* A reset answers or saves the row it found.
LEMMA ResetInv ==
  ASSUME IInv, NEW s \in Slots, Reset(s)
  PROVE  IInv'
<1> DEFINE file == IF req[s].filename = Undefined
                   THEN FirstFile ELSE req[s].filename
           name == IF req[s].name = Undefined
                   THEN "system" ELSE req[s].name
           e == [acm[s] EXCEPT !.acm_state = "CHECKED_IN",
                               !.last_in_file_name = file,
                               !.last_in_name = name,
                               !.now_out_key = req[s].key]
<1>1. /\ LookedInv(s) /\ phase[s] # "idle"
      /\ req[s].action = "reset"
  BY HandlesInv DEF Reset, Handles
<1>2. CASE Answer(s, "error") \/ Answer(s, "denied")
  BY <1>2, AnswerInv DEF Responses
<1>3. CASE acm[s] # NoRow /\ BeginSave(s, e)
  <2>1. MayTouch(s) /\ acm[s] \in Row
    BY <1>1, <1>3 DEF LookedInv
  <2>2. file \in Files \cup {FirstFile} /\ name \in Names \cup SystemNames
    BY <1>1, RequestsAssumption DEF LookedInv, Request, SystemNames
  <2>3. req[s].key \in Keys \cup {Undefined}
    BY <1>1, RequestsAssumption DEF LookedInv, Request
  <2> HIDE DEF file, name
  <2>4. e \in Entity
    BY <2>1, <2>2, <2>3 DEF Row, Entity, Statuses
  <2>5. Assigned(req[s], e) /\ Passed(req[s], rows[req[s].project])
    BY <1>1, <2>1 DEF Assigned, Passed, Row
  <2> HIDE DEF e
  <2>6. QED
    BY <1>1, <1>3, <2>1, <2>4, <2>5, BeginSaveInv
<1>4. QED
  BY <1>2, <1>3 DEF Reset

\* The other handlers answer or insert.
LEMMA OtherHandlersInv ==
  ASSUME IInv, NEW s \in Slots,
         StatusCheck(s) \/ NewCheckIn(s) \/ Create(s) \/ UnknownAction(s)
  PROVE  IInv'
<1>1. req[s] \in Requests
  BY DEF IInv, SlotInv, LookedInv, Handles, StatusCheck, NewCheckIn, Create,
         UnknownAction
<1>2. CASE StatusCheck(s)
  <2>1. Answer(s, "nodb") \/ Answer(s, "checkedout") \/ Answer(s, "ok")
    BY <1>2 DEF StatusCheck
  <2>2. QED
    BY <2>1, AnswerInv DEF Responses
<1>3. CASE NewCheckIn(s) \/ Create(s)
  BY <1>1, <1>3, AnswerInv, InsertInv DEF NewCheckIn, Create, Responses
<1>4. CASE UnknownAction(s)
  BY <1>4, AnswerInv DEF UnknownAction, Responses
<1>5. QED
  BY <1>2, <1>3, <1>4

\* Every step of the service preserves the invariant.
LEMMA NextInv == IInv /\ [Next]_vars => IInv'
<1> SUFFICES ASSUME IInv, [Next]_vars PROVE IInv'
  OBVIOUS
<1>1. ASSUME NEW s \in Slots, NEW r \in Requests, Lookup(s, r)
      PROVE  IInv'
  BY <1>1, LookupInv
<1>2. ASSUME NEW s \in Slots, Handler(s) PROVE IInv'
  BY <1>2, CheckOutInv, CheckInInv, DiscardInv, RevokeInv, ResetInv,
     OtherHandlersInv
  DEF Handler
<1>3. ASSUME NEW s \in Slots, SaveUpdate(s) PROVE IInv'
  BY <1>3, SaveUpdateInv
<1>4. ASSUME NEW s \in Slots, Abort(s) PROVE IInv'
  BY <1>4, AnswerInv DEF Abort, Responses
<1>5. CASE UNCHANGED vars
  BY <1>5 DEF vars, IInv, TypeOK, SlotInv, LookedInv, SavingInv, MayTouch
<1>6. QED
  BY <1>1, <1>2, <1>3, <1>4, <1>5 DEF Next

-----------------------------------------------------------------------------
(* The theorems.                                                           *)

\* The invariant holds in every behaviour of the service, whatever the
\* interleaving of its requests.
THEOREM Invariant == Spec => []IInv
<1>1. QED
  BY InitInv, NextInv, PTL DEF Spec

\* Every row, entity and answer of the service is one the schema and the
\* code allow.
THEOREM TypeCorrect == Spec => []TypeOK
<1>1. IInv => TypeOK
  BY DEF IInv
<1>2. QED
  BY <1>1, Invariant, PTL

\* A request that is saving answers "ok" only by its SaveUpdate step.
LEMMA SavesBySaveUpdate ==
  ASSUME IInv, [Next]_vars, NEW s \in Slots, NEW action, Saves(s, action)
  PROVE  SaveUpdate(s) /\ SavingInv(s) /\ req[s].action = action
<1>1. /\ resp[s] = "none" /\ resp'[s] = "ok" /\ phase[s] = "saving"
      /\ SavingInv(s) /\ req[s].action = action
  BY DEF IInv, SlotInv, Saves
<1>2. PICK t \in Slots : \/ \E r \in Requests : Lookup(t, r)
                        \/ Handler(t)
                        \/ SaveUpdate(t)
                        \/ Abort(t)
  BY <1>1 DEF Next, vars
<1>3. t = s
  <2>1. SUFFICES ASSUME t # s PROVE resp'[s] = resp[s]
    BY <1>1
  <2>2. CASE \E r \in Requests : Lookup(t, r)
    BY <2>1, <2>2 DEF IInv, TypeOK, Lookup
  <2>3. CASE Handler(t)
    BY <2>1, <2>3
    DEF IInv, TypeOK, Handler, StatusCheck, CheckOut, CheckIn, NewCheckIn,
        Create, Discard, RevokeCheckout, Reset, UnknownAction, Insert,
        BeginSave, Answer, Finish
  <2>4. CASE SaveUpdate(t) \/ Abort(t)
    BY <2>1, <2>4 DEF IInv, TypeOK, SaveUpdate, Abort, Answer, Finish
  <2>5. QED
    BY <1>2, <2>2, <2>3, <2>4
<1>4. ~ Abort(s)
  BY <1>1 DEF IInv, TypeOK, Abort, Answer, Finish
<1>5. ~ Handler(s) /\ \A r \in Requests : ~ Lookup(s, r)
  BY <1>1 DEF Lookup, Handler, Handles, StatusCheck, CheckOut, CheckIn,
              NewCheckIn, Create, Discard, RevokeCheckout, Reset, UnknownAction
<1>6. QED
  BY <1>1, <1>2, <1>3, <1>4, <1>5

\* A checkout replaces somebody else's only if another request saved the row
\* between its lookup and its UPDATE.
THEOREM Takeover == Spec => NoUnprovokedTakeover
<1>1. ASSUME IInv, [Next]_vars, NEW s \in Slots, Saves(s, "checkout"),
             rows[req[s].project].acm_state = "CHECKED_OUT"
      PROVE  overlapped[s]
  BY <1>1, SavesBySaveUpdate DEF SavingInv, Passed
<1>2. IInv /\ [Next]_vars =>
        [\A s \in Slots :
           /\ Saves(s, "checkout")
           /\ rows[req[s].project].acm_state = "CHECKED_OUT"
           => overlapped[s]]_vars
  BY <1>1
<1>3. QED
  BY <1>2, Invariant, PTL DEF Spec, NoUnprovokedTakeover

\* A discard releases what its caller may release, unless another request
\* saved the row after it had looked.
THEOREM DiscardIsOwners == Spec => NoUnprovokedDiscard
<1>1. ASSUME IInv, [Next]_vars, NEW s \in Slots, Saves(s, "discard")
      PROVE  \/ overlapped[s]
             \/ LET row == rows[req[s].project] IN
                  /\ row.acm_state = "CHECKED_OUT"
                  /\ \/ row.now_out_computername = req[s].computername
                     \/ row.last_in_name = req[s].name
  BY <1>1, SavesBySaveUpdate DEF SavingInv, Passed
<1>2. IInv /\ [Next]_vars =>
        [\A s \in Slots :
           Saves(s, "discard") =>
             \/ overlapped[s]
             \/ LET row == rows[req[s].project] IN
                  /\ row.acm_state = "CHECKED_OUT"
                  /\ \/ row.now_out_computername = req[s].computername
                     \/ row.last_in_name = req[s].name]_vars
  BY <1>1
<1>3. QED
  BY <1>2, Invariant, PTL DEF Spec, NoUnprovokedDiscard

\* Only SaveUpdate writes rows.
LEMMA RowsWrittenBySaveUpdate ==
  ASSUME [Next]_vars, rows' # rows
  PROVE  \E s \in Slots : SaveUpdate(s)
<1>1. PICK s \in Slots : \/ \E r \in Requests : Lookup(s, r)
                        \/ Handler(s)
                        \/ SaveUpdate(s)
                        \/ Abort(s)
  BY DEF Next, vars
<1>2. ~ Abort(s) /\ \A r \in Requests : ~ Lookup(s, r)
  BY DEF Lookup, Abort, Answer
<1>3. ~ Handler(s)
  BY DEF Handler, StatusCheck, CheckOut, CheckIn, NewCheckIn, Create, Discard,
         RevokeCheckout, Reset, UnknownAction, Insert, BeginSave, Answer
<1>4. QED
  BY <1>1, <1>2, <1>3

\* What SaveUpdate does to the rows, in terms of the invariant.
LEMMA SaveUpdateRows ==
  ASSUME IInv, NEW s \in Slots, SaveUpdate(s)
  PROVE  /\ SavingInv(s)
         /\ rows' = [rows EXCEPT ![req[s].project] =
                       Updated(rows[req[s].project], acm[s], dbRow[s])]
         /\ rows'[req[s].project] =
               Updated(rows[req[s].project], acm[s], dbRow[s])
         /\ rows'[req[s].project] \in Row
<1>1. SavingInv(s)
  BY DEF IInv, SlotInv, SaveUpdate
<1>2. rows' = [rows EXCEPT ![req[s].project] =
                 Updated(rows[req[s].project], acm[s], dbRow[s])]
  BY DEF SaveUpdate
<1>3. Updated(rows[req[s].project], acm[s], dbRow[s]) \in Row
  BY <1>1, UpdatedType DEF SavingInv, MayTouch
<1>4. QED
  BY <1>1, <1>2, <1>3 DEF IInv, TypeOK, SavingInv, MayTouch

\* A row changes only on behalf of a member of its program.
THEOREM MembersOnly == Spec => OnlyMembersChangeRows
<1>1. ASSUME IInv, [Next]_vars, NEW p \in Projects, rows'[p] # rows[p]
      PROVE  \E s \in Slots : /\ phase[s] = "saving"
                              /\ req[s].project = p
                              /\ <<req[s].user, p>> \in Members
  <2>1. PICK s \in Slots : SaveUpdate(s)
    BY <1>1, RowsWrittenBySaveUpdate
  <2>2. SavingInv(s) /\ phase[s] = "saving"
    BY <1>1, <2>1, SaveUpdateRows DEF SaveUpdate
  <2>3. req[s].project = p
    BY <1>1, <2>1, SaveUpdateRows DEF IInv, TypeOK
  <2>4. QED
    BY <2>2, <2>3 DEF SavingInv, MayTouch
<1>2. IInv /\ [Next]_vars =>
        [\A p \in Projects :
           rows'[p] # rows[p] =>
             \E s \in Slots :
               /\ phase[s] = "saving"
               /\ req[s].project = p
               /\ <<req[s].user, p>> \in Members]_vars
  BY <1>1
<1>3. QED
  BY <1>2, Invariant, PTL DEF Spec, OnlyMembersChangeRows

\* save() stores a column it is given when the row is still as it was re-read.
LEMMA ColumnStored ==
  ASSUME NEW new, NEW current, new # Undefined
  PROVE  Column(new, current, current) = new
  BY DEF Column

\* What an undisturbed save leaves in the row.
LEMMA UndisturbedSave ==
  ASSUME IInv, NEW s \in Slots, SaveUpdate(s), ~ overlapped[s]
  PROVE  LET r == req[s]
             e == acm[s]
             row == rows'[req[s].project]
         IN  /\ row.acm_state = e.acm_state
             /\ Given(e.now_out_name, row.now_out_name)
             /\ Given(e.now_out_computername, row.now_out_computername)
             /\ Given(e.now_out_key, row.now_out_key)
             /\ Given(e.last_in_name, row.last_in_name)
             /\ Given(e.last_in_file_name, row.last_in_file_name)
<1> DEFINE old == rows[req[s].project]
           e == acm[s]
<1>1. rows'[req[s].project] = Updated(old, e, old)
  BY SaveUpdateRows DEF SavingInv
<1>2. e.acm_state # Undefined
  <2>1. SavingInv(s)
    BY SaveUpdateRows
  <2>2. e.acm_state \in Statuses
    BY <2>1 DEF SavingInv, Assigned, Statuses
  <2>3. QED
    BY <2>2, UndefinedAssumption
<1>3. QED
  BY <1>1, <1>2, ColumnStored DEF Updated, Given

\* An "ok" tells the truth about the row, unless another request saved it
\* meanwhile.
THEOREM Stored == Spec => AnsweredIsStored
<1> DEFINE Told(s) ==
      LET r == req[s]  row == rows'[req[s].project] IN
      ~ overlapped[s] =>
        /\ Saves(s, "checkout") =>
             /\ row.acm_state = "CHECKED_OUT"
             /\ Given(r.name, row.now_out_name)
             /\ Given(r.computername, row.now_out_computername)
             /\ Given(r.key, row.now_out_key)
        /\ Saves(s, "checkin") =>
             /\ row.acm_state = "CHECKED_IN"
             /\ Given(r.filename, row.last_in_file_name)
             /\ Given(r.name, row.last_in_name)
        /\ \A a \in {"discard", "revokecheckout", "reset"} :
             Saves(s, a) => row.acm_state = "CHECKED_IN"
<1>1. ASSUME IInv, [Next]_vars, NEW s \in Slots PROVE Told(s)
  <2>1. SUFFICES ASSUME ~ overlapped[s], NEW action, Saves(s, action)
                 PROVE  Told(s)
    OBVIOUS
  <2>2. SaveUpdate(s) /\ Assigned(req[s], acm[s])
    BY <1>1, <2>1, SavesBySaveUpdate DEF SavingInv
  <2>3. CASE req[s].action = "checkout"
    <3>1. \A a : Saves(s, a) => a = "checkout"
      BY <2>3 DEF Saves
    <3>2. QED
      BY <1>1, <2>1, <2>2, <2>3, <3>1, UndisturbedSave DEF Assigned, Given
  <2>4. CASE req[s].action # "checkout"
    <3>1. ~ Saves(s, "checkout")
      BY <2>4 DEF Saves
    <3>2. Saves(s, "checkin") => req[s].action = "checkin"
      BY DEF Saves
    <3>3. QED
      BY <1>1, <2>1, <2>2, <2>4, <3>1, <3>2, UndisturbedSave
      DEF Assigned, Given
  <2>5. QED
    BY <2>3, <2>4
<1>2. IInv /\ [Next]_vars => [\A s \in Slots : Told(s)]_vars
  BY <1>1
<1>3. QED
  BY <1>2, Invariant, PTL DEF Spec, AnsweredIsStored

-----------------------------------------------------------------------------
(* The rows are an exclusive lock, except on projects that are contended.  *)

\* The entry of who has an ACM out is one the lock can record.
LEMMA HeldIsHolder ==
  ASSUME NEW row \in Row, row.acm_state = "CHECKED_OUT"
  PROVE  HolderOf(row) \in Holders /\ HolderOf(row) # Null
<1>1. ~ CannotCheckIn(row)
  BY NoRowAssumption, RowIsEntity DEF CannotCheckIn
<1>2. HolderOf(row) \in Holders
  BY <1>1 DEF HolderOf, Holders, Row
<1>3. QED
  BY <1>2, NullAssumption

\* The service implements the lock of CheckoutLock: what clients lose of it
\* they lose to requests that overlap on the same project.
THEOREM ImplementsLock == Spec => ImplementsCheckoutLock
<1> DEFINE held == [p \in Projects |-> HolderOf(rows[p])]
<1>1. Init => Lock!Init
  <2>1. ASSUME Init, NEW p \in Projects PROVE HolderOf(rows[p]) = Null
    BY <2>1 DEF Init, HolderOf, CannotCheckIn, NewRow
  <2>2. QED
    BY <2>1 DEF Lock!Init
<1>2. ASSUME IInv, [Next]_vars PROVE [Lock!Next]_held
  <2>1. CASE rows' = rows
    BY <2>1
  <2>2. CASE rows' # rows
    <3>1. PICK s \in Slots : SaveUpdate(s)
      BY <1>2, <2>2, RowsWrittenBySaveUpdate
    <3> DEFINE p == req[s].project
               e == acm[s]
    <3>2. /\ p \in Projects /\ rows'[p] \in Row
          /\ \A q \in Projects : q # p => rows'[q] = rows[q]
      <4>1. p \in Projects /\ rows'[p] \in Row
        BY <1>2, <3>1, SaveUpdateRows DEF SavingInv, MayTouch
      <4>2. \A q \in Projects : q # p => rows'[q] = rows[q]
        BY <1>2, <3>1, SaveUpdateRows DEF IInv, TypeOK
      <4>3. QED
        BY <4>1, <4>2
    <3>3. held' = [held EXCEPT ![p] = HolderOf(rows'[p])]
      BY <3>2
    <3>4. CASE overlapped[s]
      <4>1. p \in Contended
        BY <3>1, <3>2, <3>4 DEF Contended, SaveUpdate
      <4>2. HolderOf(rows'[p]) \in Holders \cup {Null}
        <5>1. CASE rows'[p].acm_state = "CHECKED_OUT"
          BY <3>2, <5>1, HeldIsHolder
        <5>2. CASE rows'[p].acm_state # "CHECKED_OUT"
          BY <3>2, <5>2 DEF HolderOf, CannotCheckIn, Row, Statuses
        <5>3. QED
          BY <5>1, <5>2
      <4>3. Lock!Overtake(p)
        BY <3>3, <4>1, <4>2 DEF Lock!Overtake
      <4>4. QED
        BY <3>2, <4>3 DEF Lock!Next
    <3>5. SUFFICES ASSUME ~ overlapped[s] PROVE [Lock!Next]_held
      BY <3>4
    <3>6. /\ p \in Projects /\ rows[p] \in Row /\ rows'[p] \in Row
          /\ Passed(req[s], rows[p]) /\ Assigned(req[s], e)
      BY <1>2, <3>1, <3>5, SaveUpdateRows DEF SavingInv, MayTouch
    <3>7. rows'[p].acm_state = e.acm_state
      BY <1>2, <3>1, <3>5, UndisturbedSave
    <3> HIDE DEF p, e
    <3>8. CASE req[s].action = "checkout"
      <4>1. rows[p].acm_state = "CHECKED_IN" /\ rows'[p].acm_state = "CHECKED_OUT"
        BY <3>6, <3>7, <3>8 DEF Passed, Assigned
      <4>2. held[p] = Null /\ HolderOf(rows'[p]) \in Holders
        BY <3>6, <4>1, HeldIsHolder DEF HolderOf, CannotCheckIn
      <4>3. Lock!Acquire(p)
        BY <3>3, <4>2 DEF Lock!Acquire
      <4>4. QED
        BY <3>6, <4>3 DEF Lock!Next
    <3>9. CASE req[s].action # "checkout"
      <4>1. HolderOf(rows'[p]) = Null
        BY <3>6, <3>7, <3>9 DEF Assigned, HolderOf, CannotCheckIn
      <4>2. CASE rows[p].acm_state = "CHECKED_OUT"
        <5>1. held[p] # Null
          BY <3>6, <4>2, HeldIsHolder
        <5>2. Lock!Release(p)
          BY <3>3, <4>1, <5>1 DEF Lock!Release
        <5>3. QED
          BY <3>6, <5>2 DEF Lock!Next
      <4>3. CASE rows[p].acm_state # "CHECKED_OUT"
        <5>1. held[p] = Null
          BY <3>6, <4>3 DEF HolderOf, CannotCheckIn, Row, Statuses
        <5>2. held' = held
          BY <3>6, <3>3, <4>1, <5>1
        <5>3. QED
          BY <5>2
      <4>4. QED
        BY <4>2, <4>3
    <3>10. QED
      BY <3>8, <3>9
  <2>3. QED
    BY <2>1, <2>2
<1>3. QED
  BY <1>1, <1>2, Invariant, PTL
  DEF Spec, ImplementsCheckoutLock, Lock!Spec

\* A service that finishes each request before it takes the next has no
\* contended project: its rows are the plain lock.
THEOREM SerialNotContended ==
  ASSUME \A s, t \in Slots : s = t
  PROVE  Spec => [](Contended = {})
<1> DEFINE Undisturbed == \A s \in Slots : ~ overlapped[s]
<1>1. Init => Undisturbed
  BY DEF Init
<1>2. ASSUME IInv, Undisturbed, [Next]_vars PROVE Undisturbed'
  <2>1. CASE UNCHANGED vars
    BY <1>2, <2>1 DEF vars
  <2>2. CASE Next
    <3>1. PICK s \in Slots : \/ \E r \in Requests : Lookup(s, r)
                            \/ Handler(s)
                            \/ SaveUpdate(s)
                            \/ Abort(s)
      BY <2>2 DEF Next
    <3>2. \/ overlapped' = overlapped
          \/ overlapped' = [overlapped EXCEPT ![s] = FALSE]
          \/ overlapped' = [t \in Slots |->
                              IF t = s THEN FALSE
                              ELSE overlapped[t]
                                     \/ req[t].project = req[s].project]
      BY <3>1 DEF Lookup, SaveUpdate, Abort, Handler, StatusCheck, CheckOut,
                  CheckIn, NewCheckIn, Create, Discard, RevokeCheckout, Reset,
                  UnknownAction, Insert, BeginSave, Answer
    <3>3. QED
      BY <1>2, <3>2 DEF IInv, TypeOK
  <2>3. QED
    BY <1>2, <2>1, <2>2
<1>3. Undisturbed => Contended = {}
  BY DEF Contended
<1>4. QED
  BY <1>1, <1>2, <1>3, Invariant, PTL DEF Spec

-----------------------------------------------------------------------------
(* NewAcm: what the transactions and stages of the commands say.           *)

RowKeys ==
  ({"organisation"} \X Organisations)
  \cup ({"project", "program", "deployment", "checkout"} \X Programs)
  \cup ({"id"} \X Ids)

SetupTypes ==
  /\ ask \in Asks /\ at \in [Commands -> Stages]
  /\ tx \in [Commands -> SUBSET RowKeys]
  /\ id \in [Commands -> Ids \cup {0}]
  /\ todo \in [Commands -> SUBSET Template]
  /\ db \subseteq RowKeys
  /\ prog \in [Ids -> Programs \cup {Test, None}]
  /\ links \subseteq Ids \X Organisations
  /\ content \in [Programs -> SUBSET Template] /\ published \subseteq Programs
  /\ faults \in 0 .. MaxFaults /\ choseTogether \in BOOLEAN
  /\ cut \subseteq Programs /\ overwritten \subseteq Programs

\* No row is inserted twice, by one transaction or two.
KeysInv ==
  /\ \A k \in db : k[1] \notin {"program", "id"}
  /\ \A c \in Commands : tx[c] \cap StoredKeys = {}
  /\ \A c, d \in Commands : c # d => tx[c] \cap tx[d] = {}

\* The ids in use are 1 to some number, of different programs.
IdsInv ==
  /\ prog[1] = Test
  /\ \A n \in Ids \ {1} : prog[n] # None => n - 1 \in Ids /\ prog[n - 1] # None
  /\ \A m, n \in Ids : prog[m] = prog[n] /\ m # n => prog[m] = None
  /\ \A n \in Ids : prog[n] \in {Test, None} \cup {Code(c) : c \in Commands}

\* The program has its deployment, and is linked to an organisation.
Provided(p) ==
  /\ <<"deployment", p>> \in db
  /\ \/ p \in overwritten
     \/ \E l \in links : prog[l[1]] = p /\ <<"organisation", l[2]>> \in db

\* It has the content of the template, but for copies broken off or under way.
Filled(p) ==
  \/ content[p] = Template \/ p \in cut
  \/ \E d \in Commands : at[d] = "copy" /\ Code(d) = p

ProgramsInv ==
  \A p \in Programs :
    /\ (\E n \in Ids : prog[n] = p) => Provided(p)
    /\ content[p] # {} => Filled(p)

Resting == {"idle", "organisation", "publish", "done", "stopped", "failed"}
Before == {"new organisation", "project", "new project", "program", "max"}
Choosing == {"save", "insert", "update"}
Ready == {"list", "copy", "checkout", "new checkout", "commit"}

\* What holds of a command at stage s whose transaction has inserted t, which
\* has chosen the id i and has the objects o to copy.
Fits(c, s, t, i, o) ==
  /\ s \in Resting => t = {}
  /\ s \in Resting \cup Before => i = 0
  /\ s \in Resting \cup Before \cup Choosing => <<"program", Code(c)>> \notin t
  /\ s \in Choosing => i # 0
  /\ s \in {"max"} \cup Choosing => <<"organisation", ask[c].organisation>> \in db
  /\ s \in {"program", "max"} \cup Choosing \cup Ready
       => <<"project", Code(c)>> \in db \cup t
  /\ s \in Ready => <<"program", Code(c)>> \in t \/ Provided(Code(c))
  /\ s = "copy" => content[Code(c)] \cup o = Template
  /\ s \in {"checkout", "new checkout", "commit"} => Filled(Code(c))
  /\ s = "update" => prog[i] \in Programs
  /\ i # 0 => i # 1 /\ prog[i - 1] # None
  /\ <<"program", Code(c)>> \in t =>
       /\ <<"deployment", Code(c)>> \in t /\ i # 0
       /\ <<"organisation", ask[c].organisation>> \in db
       /\ <<"id", i>> \in t \/ prog[i] \in Programs
  /\ \A p \in Programs : <<"checkout", p>> \in t => s = "commit" /\ p = Code(c)

StagesInv ==
  \A c \in Commands : \A s, t, i, o :
    s = at[c] /\ t = tx[c] /\ i = id[c] /\ o = todo[c] => Fits(c, s, t, i, o)

\* While one command at a time chooses an id, that id is free.
ChoiceInv ==
  choseTogether \/
    /\ \A c, d \in Commands : id[c] # 0 /\ id[d] # 0 => c = d
    /\ \A c \in Commands : id[c] # 0 => prog[id[c]] = None

SetupInv ==
  /\ SetupTypes /\ KeysInv /\ IdsInv /\ ProgramsInv /\ ChoiceInv /\ StagesInv
  /\ CheckoutIsUsable /\ ProgramsStayApart

\* The ids are natural numbers from 1 on; a command asks for a program of its
\* own, by an organisation.
LEMMA SetupFacts ==
  /\ Cardinality(Commands) \in Nat /\ Ids \subseteq Nat \ {0} /\ 1 \in Ids
  /\ 0 \notin Ids /\ IsFiniteSet(Ids)
  /\ \A n \in Ids : n \in Nat /\ n - 1 \in Nat /\ (n # 1 => n - 1 \in Ids)
  /\ \A a \in Asks, c \in Commands :
       a[c].program \in Programs /\ a[c].organisation \in Organisations
<1>1. Cardinality(Commands) \in Nat
  BY NewAcmAssumption, FS_CardinalityType
<1>2. IsFiniteSet(Ids)
  <2>1. 2 * Cardinality(Commands) + 1 \in Int
    BY <1>1
  <2>2. QED
    BY <2>1, FS_Interval DEF Ids
<1>3. \A a \in Asks, c \in Commands :
        a[c].program \in Programs /\ a[c].organisation \in Organisations
  BY NewAcmAssumption
<1>4. QED
  BY <1>1, <1>2, <1>3 DEF Ids

-----------------------------------------------------------------------------
(* The greatest id in use, and the one after it.                           *)

LEMMA GreatestId ==
  ASSUME NEW S \in SUBSET Ids, S # {}
  PROVE  Max(S) \in S /\ \A m \in S : m <= Max(S)
<1> DEFINE Above(k) == {m \in S : m >= k}
           Tails == {Above(k) : k \in S}
<1>1. FiniteSubsetsOf(S) = SUBSET S
  BY SetupFacts, FS_Subset, FS_FiniteSubsetsOfFinite
<1>2. IsWellFoundedOn(StrictSubsetOrdering(S), SUBSET S)
  BY <1>1, FS_StrictSubsetOrderingWellFounded
<1>3. PICK T \in Tails : \A U \in Tails : ~ (<<U, T>> \in StrictSubsetOrdering(S))
  <2>1. Tails \subseteq SUBSET S /\ Tails # {}
    OBVIOUS
  <2> HIDE DEF Tails
  <2>2. QED
    BY <1>2, <2>1, WFMin
<1>4. PICK k \in S : T = Above(k)
  BY <1>3
<1>5. \A m \in S : m <= k
  <2>1. SUFFICES ASSUME NEW m \in S, m > k PROVE FALSE
    BY SetupFacts
  <2>2. Above(m) \subseteq T /\ k \in T /\ k \notin Above(m)
    <3>1. k \in Nat /\ \A j \in S : j \in Nat
      BY SetupFacts
    <3>2. k >= k /\ ~ (k >= m) /\ \A j \in S : j >= m => j >= k
      BY <2>1, <3>1
    <3>3. QED
      BY <1>4, <3>2
  <2>3. Above(m) \in Tails /\ Above(m) \in SUBSET S /\ T \in SUBSET S
    BY <1>3
  <2>4. QED
    BY <1>3, <2>2, <2>3 DEF StrictSubsetOrdering
<1>6. QED
  BY <1>5 DEF Max

\* The id a command chooses is one, and the one before it is in use: there
\* are no more programs than commands, and the template's.
LEMMA NextId ==
  ASSUME SetupTypes, IdsInv, NEW c \in Commands,
         NEW n, n = Max({m \in Ids : prog[m] # None})
  PROVE  /\ n \in Ids /\ n + 1 \in Ids /\ prog[n] # None
         /\ prog[n + 1] = None
<1> DEFINE S == {m \in Ids : prog[m] # None}
           Codes == {Code(d) : d \in Commands}
<1>1. 1 \in S
  BY SetupFacts, NewAcmAssumption DEF IdsInv
<1>2. n \in S /\ \A m \in S : m <= n
  BY <1>1, GreatestId
<1>3. n \in Nat \ {0}
  BY <1>2, SetupFacts
<1>4. 1 .. n \subseteq S
  <2>1. SUFFICES ASSUME (1 .. n) \ S # {} PROVE FALSE
    OBVIOUS
  <2> DEFINE m == Max((1 .. n) \ S)
  <2>2. 1 .. n \subseteq Ids
    BY <1>2, SetupFacts DEF Ids
  <2>3. m \in (1 .. n) \ S /\ \A k \in (1 .. n) \ S : k <= m
    BY <2>1, <2>2, GreatestId
  <2> HIDE DEF m
  <2>4. m \in Nat /\ m < n /\ m # 0
    BY <1>2, <1>3, <2>3
  <2>5. m + 1 \in S
    BY <1>3, <2>3, <2>4
  <2>6. m + 1 \in Ids \ {1} /\ prog[m + 1] # None
    BY <2>4, <2>5
  <2>7. (m + 1) - 1 \in Ids /\ prog[(m + 1) - 1] # None
    BY <2>6 DEF IdsInv
  <2>8. QED
    BY <2>3, <2>4, <2>7
<1>5. IsFiniteSet(Codes \cup {Test}) /\ Cardinality(Codes \cup {Test}) \in Nat
      /\ Cardinality(Codes \cup {Test}) <= Cardinality(Commands) + 1
  <2> DEFINE f == [d \in Commands |-> Code(d)]
  <2>1. f \in Surjection(Commands, Codes)
    BY DEF Surjection
  <2>2. IsFiniteSet(Codes) /\ Cardinality(Codes) <= Cardinality(Commands)
    BY <2>1, FS_Surjection, NewAcmAssumption
  <2>3. Cardinality(Codes) \in Nat
    BY <2>2, FS_CardinalityType
  <2> HIDE DEF Codes
  <2>4. IsFiniteSet(Codes \cup {Test})
        /\ Cardinality(Codes \cup {Test}) =
             IF Test \in Codes THEN Cardinality(Codes) ELSE Cardinality(Codes) + 1
    BY <2>2, FS_AddElement
  <2>5. QED
    BY <2>2, <2>3, <2>4, SetupFacts
<1>6. n <= Cardinality(Codes \cup {Test})
  <2> DEFINE f == [m \in 1 .. n |-> prog[m]]
  <2>1. ASSUME NEW m \in 1 .. n PROVE prog[m] \in Codes \cup {Test}
    BY <1>4, <2>1 DEF IdsInv
  <2>2. \A k, m \in 1 .. n : prog[k] = prog[m] => k = m
    BY <1>4 DEF IdsInv
  <2> HIDE DEF Codes
  <2>3. f \in Injection(1 .. n, Codes \cup {Test})
    BY <2>1, <2>2 DEF Injection, IsInjective
  <2>4. Cardinality(1 .. n) <= Cardinality(Codes \cup {Test})
    BY <1>5, <2>3, FS_Injection
  <2>5. Cardinality(1 .. n) = n
    BY <1>3, FS_Interval
  <2>6. QED
    BY <2>4, <2>5
<1>7. Cardinality(Commands) >= 1
  <2>1. Cardinality(Commands) # 0
    BY FS_EmptySet, NewAcmAssumption
  <2>2. QED
    BY <2>1, SetupFacts
<1>8. n + 1 \in Ids
  <2> HIDE DEF Codes
  <2>1. n <= Cardinality(Commands) + 1
    BY <1>3, <1>5, <1>6, SetupFacts
  <2>2. n + 1 <= 2 * Cardinality(Commands) + 1
    BY <1>3, <1>7, <2>1, SetupFacts
  <2>3. QED
    BY <1>3, <2>2, SetupFacts DEF Ids
<1>9. prog[n + 1] = None
  <2>1. CASE n + 1 \in S
    BY <1>2, <1>3, <2>1
  <2>2. CASE n + 1 \notin S
    BY <1>8, <2>2
  <2>3. QED
    BY <2>1, <2>2
<1>10. QED
  BY <1>2, <1>8, <1>9
-----------------------------------------------------------------------------
(* A step that keeps what others have written.                             *)

Steady ==
  /\ ask' = ask /\ db \subseteq db'
  /\ \A p \in Programs :
       /\ Provided(p) => Provided(p)'
       /\ Filled(p) => Filled(p)'
       /\ content[p] \subseteq content'[p] /\ content'[p] \subseteq Template
  /\ \A n \in Ids : prog[n] # None =>
       prog'[n] # None /\ (prog[n] \in Programs => prog'[n] \in Programs)

LEMMA FitsStays ==
  ASSUME SetupTypes, Steady, NEW c \in Commands, NEW s, NEW t,
         NEW i \in Ids \cup {0}, NEW o \in SUBSET Template, Fits(c, s, t, i, o)
  PROVE  Fits(c, s, t, i, o)'
<1>1. Code(c) \in Programs /\ Code(c)' = Code(c)
  BY SetupFacts DEF SetupTypes, Steady, Code
<1>2. /\ Provided(Code(c)) => Provided(Code(c))'
      /\ Filled(Code(c)) => Filled(Code(c))'
  <2>1. ASSUME NEW p \in Programs, p = Code(c)
        PROVE  /\ Provided(p) => Provided(p)'
               /\ Filled(p) => Filled(p)'
    BY DEF Steady
  <2>2. ASSUME NEW p \in Programs, p = Code(c)
        PROVE  /\ Provided(Code(c)) => Provided(Code(c))'
               /\ Filled(Code(c)) => Filled(Code(c))'
    BY <1>1, <2>1, <2>2 DEF Provided, Filled
  <2>3. QED
    BY <1>1, <2>2
<1>3. ask' = ask /\ db \subseteq db'
  BY DEF Steady
<1>4. s = "copy" => content'[Code(c)] \cup o = Template
  <2>1. content[Code(c)] \subseteq content'[Code(c)]
        /\ content'[Code(c)] \subseteq Template
    BY <1>1 DEF Steady
  <2>2. QED
    BY <2>1 DEF Fits
<1>5. /\ i # 0 /\ prog[i] \in Programs => prog'[i] \in Programs
      /\ i # 0 => i # 1 /\ prog'[i - 1] # None
  <2>1. i # 0 => i # 1 /\ prog[i - 1] # None
    BY DEF Fits
  <2>2. i # 0 => i \in Ids /\ i - 1 \in Ids /\ i # 1
    BY <2>1, SetupFacts
  <2>3. CASE i = 0
    BY <2>3
  <2>4. CASE i # 0
    BY <2>1, <2>2, <2>4, NewAcmAssumption DEF Steady
  <2>5. QED
    BY <2>3, <2>4
<1>6. /\ s \in {"max"} \cup Choosing => <<"organisation", ask'[c].organisation>> \in db'
      /\ s \in {"program", "max"} \cup Choosing \cup Ready
           => <<"project", Code(c)>> \in db' \cup t
      /\ s = "update" => prog'[i] \in Programs
  BY <1>3, <1>5 DEF Fits, Choosing
<1>7. <<"program", Code(c)>> \in t =>
        /\ <<"deployment", Code(c)>> \in t /\ i # 0
        /\ <<"organisation", ask'[c].organisation>> \in db'
        /\ <<"id", i>> \in t \/ prog'[i] \in Programs
  BY <1>3, <1>5 DEF Fits
<1>8. /\ s \in Ready => <<"program", Code(c)>> \in t \/ Provided(Code(c))'
      /\ s \in {"checkout", "new checkout", "commit"} => Filled(Code(c))'
  BY <1>2 DEF Fits
<1>9. /\ s \in Resting => t = {}
      /\ s \in Resting \cup Before => i = 0
      /\ s \in Resting \cup Before \cup Choosing => <<"program", Code(c)>> \notin t
      /\ s \in Choosing => i # 0
      /\ \A p \in Programs : <<"checkout", p>> \in t => s = "commit" /\ p = Code(c)
  BY DEF Fits
<1>10. QED
  BY <1>1, <1>4, <1>5, <1>6, <1>7, <1>8, <1>9 DEF Fits

\* A step of one command, to stage s with t inserted, id i and objects o.
Moves(c, s, t, i, o) ==
  /\ at' = [at EXCEPT ![c] = s] /\ tx' = [tx EXCEPT ![c] = t]
  /\ id' = [id EXCEPT ![c] = i] /\ todo' = [todo EXCEPT ![c] = o]

LEMMA StagesStay ==
  ASSUME SetupTypes, StagesInv, Steady, NEW c \in Commands,
         NEW s \in Stages, NEW t \in SUBSET RowKeys, NEW i \in Ids \cup {0},
         NEW o \in SUBSET Template, Moves(c, s, t, i, o), Fits(c, s, t, i, o)'
  PROVE  StagesInv'
<1>1. ASSUME NEW d \in Commands, NEW u, NEW v, NEW j, NEW q,
             u = at'[d], v = tx'[d], j = id'[d], q = todo'[d]
      PROVE  Fits(d, u, v, j, q)'
  <2>1. CASE d = c
    BY <1>1, <2>1 DEF Moves, SetupTypes
  <2>2. CASE d # c
    <3>1. u = at[d] /\ v = tx[d] /\ j = id[d] /\ q = todo[d]
      BY <1>1, <2>2 DEF Moves, SetupTypes
    <3>2. j \in Ids \cup {0} /\ q \in SUBSET Template
      BY <3>1 DEF SetupTypes
    <3>3. Fits(d, u, v, j, q)
      BY <3>1 DEF StagesInv
    <3>4. QED
      BY <3>2, <3>3, FitsStays
  <2>3. QED
    BY <2>1, <2>2
<1>2. QED
  BY <1>1 DEF StagesInv

\* A step that commits nothing keeps the invariant when it keeps what copies
\* have filled, and inserts only keys that nobody else has.
LEMMA UncommittedStep ==
  ASSUME SetupInv, NEW c \in Commands,
         NEW s \in Stages, NEW t \in SUBSET RowKeys, NEW i \in Ids \cup {0},
         NEW o \in SUBSET Template, Moves(c, s, t, i, o), Fits(c, s, t, i, o)',
         UNCHANGED <<ask, records>>, SetupTypes',
         \A p \in Programs :
           /\ Filled(p) => Filled(p)'
           /\ content[p] \subseteq content'[p]
           /\ content[p] # {} \/ content'[p] = {} \/ Filled(p)',
         t \cap StoredKeys = {}, \A d \in Commands \ {c} : t \cap tx[d] = {},
         choseTogether => choseTogether',
         i \in {0, id[c]} \/ ChoiceInv'
  PROVE  SetupInv'
<1> USE DEF SetupInv
<1>0. /\ db' = db /\ prog' = prog /\ links' = links
      /\ overwritten' = overwritten /\ ask' = ask
  BY DEF records
<1>1. Steady
  <2>1. \A p \in Programs : Provided(p) => Provided(p)'
    BY <1>0 DEF Provided
  <2>2. \A p \in Programs : content'[p] \subseteq Template
    BY DEF SetupTypes
  <2>3. QED
    BY <1>0, <2>1, <2>2 DEF Steady
<1>2. StagesInv'
  BY <1>1, StagesStay
<1>3. KeysInv'
  <2>1. StoredKeys' = StoredKeys
    BY <1>0 DEF StoredKeys
  <2>2. ASSUME NEW d \in Commands PROVE tx'[d] \cap StoredKeys = {}
    BY DEF KeysInv, Moves, SetupTypes
  <2>3. ASSUME NEW d \in Commands, NEW e \in Commands, d # e
        PROVE  tx'[d] \cap tx'[e] = {}
    BY <2>3 DEF KeysInv, Moves, SetupTypes
  <2>4. QED
    BY <1>0, <2>1, <2>2, <2>3 DEF KeysInv
<1>4. IdsInv'
  BY <1>0 DEF IdsInv, Code
<1>5. ProgramsInv'
  <2>1. ASSUME NEW p \in Programs
        PROVE  /\ (\E n \in Ids : prog[n] = p)' => Provided(p)'
               /\ content'[p] # {} => Filled(p)'
    BY <1>0, <1>1 DEF ProgramsInv, Steady
  <2>2. QED
    BY <2>1 DEF ProgramsInv
<1>6. ChoiceInv'
  BY <1>0 DEF ChoiceInv, Moves, SetupTypes
<1>7. CheckoutIsUsable'
  <2>1. ASSUME NEW p \in Programs, <<"checkout", p>> \in db
        PROVE  Filled(p)'
    BY <2>1 DEF CheckoutIsUsable, Filled
  <2>2. QED
    BY <1>0, <2>1 DEF CheckoutIsUsable, Filled
<1>8. ProgramsStayApart'
  BY <1>0 DEF ProgramsStayApart, Code
<1>9. QED
  BY <1>2, <1>3, <1>4, <1>5, <1>6, <1>7, <1>8

\* The same for a step that leaves the content alone.
LEMMA StepWithContent ==
  ASSUME SetupInv, NEW c \in Commands,
         NEW s \in Stages, NEW t \in SUBSET RowKeys, NEW i \in Ids \cup {0},
         NEW o \in SUBSET Template, Moves(c, s, t, i, o), Fits(c, s, t, i, o),
         UNCHANGED <<ask, records, content>>, SetupTypes', cut \subseteq cut',
         at[c] = "copy" =>
           s = "copy" \/ Code(c) \in cut' \/ content[Code(c)] = Template,
         t \cap StoredKeys = {}, \A d \in Commands \ {c} : t \cap tx[d] = {},
         choseTogether => choseTogether',
         i \in {0, id[c]} \/ ChoiceInv'
  PROVE  SetupInv'
<1>1. ASSUME NEW p \in Programs PROVE Filled(p) => Filled(p)'
  <2>1. content' = content /\ ask' = ask
    OBVIOUS
  <2>2. CASE content[p] = Template \/ p \in cut
    BY <2>1, <2>2 DEF Filled
  <2>3. ASSUME NEW d \in Commands, at[d] = "copy", Code(d) = p
        PROVE  Filled(p)'
    <3>1. Code(d)' = p
      BY <2>1, <2>3 DEF Code
    <3>2. CASE d = c
      <4>1. CASE s = "copy"
        <5>1. at'[d] = "copy"
          BY <3>2, <4>1 DEF Moves, SetupTypes, SetupInv
        <5>2. QED
          BY <3>1, <5>1 DEF Filled
      <4>2. CASE p \in cut' \/ content[p] = Template
        BY <2>1, <4>2 DEF Filled
      <4>3. QED
        BY <2>3, <3>2, <4>1, <4>2
    <3>3. CASE d # c
      <4>1. at'[d] = "copy"
        BY <2>3, <3>3 DEF Moves, SetupTypes, SetupInv
      <4>2. QED
        BY <3>1, <4>1 DEF Filled
    <3>4. QED
      BY <3>2, <3>3
  <2>4. QED
    BY <2>2, <2>3 DEF Filled
<1>2. Steady
  <2>1. \A p \in Programs : Provided(p) => Provided(p)'
    BY DEF Provided, records
  <2>2. \A p \in Programs : content[p] \subseteq content'[p]
                            /\ content'[p] \subseteq Template
    BY DEF SetupInv, SetupTypes
  <2>3. ask' = ask /\ db' = db /\ prog' = prog
    BY DEF records
  <2>4. QED
    BY <1>1, <2>1, <2>2, <2>3 DEF Steady
<1>3. Fits(c, s, t, i, o)'
  BY <1>2, FitsStays DEF SetupInv
<1>4. \A p \in Programs :
        content[p] \subseteq content'[p] /\ (content[p] # {} \/ content'[p] = {})
  OBVIOUS
<1>5. QED
  BY <1>1, <1>3, <1>4, UncommittedStep

\* A step that only goes on to another stage.
LEMMA LookStep ==
  ASSUME SetupInv, NEW c \in Commands, NEW s \in Stages, at[c] # "copy",
         GoTo(c, s), UNCHANGED <<ask, memory, records, content, cut, choseTogether>>,
         published' \subseteq Programs, faults' \in 0 .. MaxFaults,
         \A t, i, o : t = tx[c] /\ i = id[c] /\ o = todo[c] => Fits(c, s, t, i, o)
  PROVE  SetupInv'
<1>1. SUFFICES ASSUME NEW t, NEW i, NEW o, t = tx[c], i = id[c], o = todo[c]
               PROVE  SetupInv'
  OBVIOUS
<1>2. t \in SUBSET RowKeys /\ i \in Ids \cup {0} /\ o \in SUBSET Template
  BY <1>1 DEF SetupInv, SetupTypes
<1>3. Moves(c, s, t, i, o)
  BY <1>1 DEF Moves, GoTo, memory, SetupInv, SetupTypes
<1>4. SetupTypes'
  BY DEF SetupInv, SetupTypes, GoTo, memory, records
<1>5. t \cap StoredKeys = {} /\ \A d \in Commands \ {c} : t \cap tx[d] = {}
  BY <1>1 DEF SetupInv, KeysInv
<1>6. QED
  BY <1>1, <1>2, <1>3, <1>4, <1>5, StepWithContent

\* A transaction rolled back.
LEMMA RollBackStep ==
  ASSUME SetupInv, NEW c \in Commands, RollBack(c),
         UNCHANGED <<ask, records, content, published, choseTogether>>,
         faults' \in 0 .. MaxFaults, cut \subseteq cut', cut' \subseteq Programs,
         at[c] = "copy" => Code(c) \in cut'
  PROVE  SetupInv'
<1>1. Moves(c, "failed", {}, 0, {})
  BY DEF Moves, RollBack, GoTo
<1>2. Fits(c, "failed", {}, 0, {})
  BY DEF Fits, Resting, Before, Choosing, Ready
<1>3. SetupTypes'
  BY DEF SetupInv, SetupTypes, RollBack, GoTo, records, Stages
<1>4. "failed" \in Stages
  BY DEF Stages
<1>5. QED
  BY <1>1, <1>2, <1>3, <1>4, StepWithContent

\* Rows inserted, unless one is there.
LEMMA InsertStep ==
  ASSUME SetupInv, NEW c \in Commands, NEW keys \in SUBSET RowKeys,
         NEW s \in Stages, at[c] # "copy", InsertKeys(c, keys, s),
         UNCHANGED <<ask, records, bucket, faults, choseTogether>>,
         \A t, i, o : t = tx[c] \cup keys /\ i = id[c] /\ o = todo[c]
                        => Fits(c, s, t, i, o)
  PROVE  SetupInv'
<1>0. content' = content /\ published' = published /\ cut' = cut /\ faults' = faults
  BY DEF bucket
<1>1. CASE keys \cap StoredKeys # {}
  <2>1. RollBack(c)
    BY <1>1 DEF InsertKeys
  <2>2. faults' \in 0 .. MaxFaults /\ cut' \subseteq Programs
    BY <1>0 DEF SetupInv, SetupTypes
  <2>3. QED
    BY <1>0, <2>1, <2>2, RollBackStep
<1>2. CASE keys \cap StoredKeys = {}
  <2>1. SUFFICES ASSUME NEW t, NEW i, NEW o,
                        t = tx[c] \cup keys, i = id[c], o = todo[c]
                 PROVE  SetupInv'
    OBVIOUS
  <2>2. t \in SUBSET RowKeys /\ i \in Ids \cup {0} /\ o \in SUBSET Template
    BY <2>1 DEF SetupInv, SetupTypes
  <2>3. GoTo(c, s) /\ tx' = [tx EXCEPT ![c] = t] /\ id' = id /\ todo' = todo
    BY <1>2, <2>1 DEF InsertKeys
  <2>4. Moves(c, s, t, i, o)
    BY <2>1, <2>3 DEF Moves, GoTo, SetupInv, SetupTypes
  <2>5. SetupTypes'
    BY <1>0, <2>2, <2>3 DEF SetupInv, SetupTypes, GoTo, records
  <2>6. t \cap StoredKeys = {} /\ \A d \in Commands \ {c} : t \cap tx[d] = {}
    <3>1. \A d \in Commands \ {c} : keys \cap tx[d] = {}
      BY DEF InsertKeys
    <3>2. tx[c] \cap StoredKeys = {} /\ \A d \in Commands \ {c} : tx[c] \cap tx[d] = {}
      BY DEF SetupInv, KeysInv
    <3>3. QED
      BY <1>2, <2>1, <3>1, <3>2
  <2>7. Fits(c, s, t, i, o)
    BY <2>1
  <2>8. QED
    BY <1>0, <2>1, <2>2, <2>4, <2>5, <2>6, <2>7, StepWithContent
<1>3. QED
  BY <1>1, <1>2

-----------------------------------------------------------------------------
(* The steps that commit nothing.                                          *)

LEMMA SetupStart == SetupInit => SetupInv
<1> SUFFICES ASSUME SetupInit PROVE SetupInv
  OBVIOUS
<1> USE DEF SetupInit
<1>1. SetupTypes
  <2>1. db \subseteq RowKeys
    BY NewAcmAssumption DEF RowKeys
  <2>2. prog \in [Ids -> Programs \cup {Test, None}]
    OBVIOUS
  <2>3. /\ at \in [Commands -> Stages] /\ tx \in [Commands -> SUBSET RowKeys]
        /\ id \in [Commands -> Ids \cup {0}]
        /\ todo \in [Commands -> SUBSET Template]
        /\ content \in [Programs -> SUBSET Template]
    BY DEF Stages
  <2>4. faults \in 0 .. MaxFaults
    BY NewAcmAssumption
  <2>5. QED
    BY <2>1, <2>2, <2>3, <2>4 DEF SetupTypes
<1>2. KeysInv
  BY DEF KeysInv
<1>3. IdsInv
  BY SetupFacts, NewAcmAssumption DEF IdsInv
<1>4. ProgramsInv
  BY SetupFacts, NewAcmAssumption DEF ProgramsInv
<1>5. ChoiceInv
  BY DEF ChoiceInv
<1>6. StagesInv
  BY DEF StagesInv, Fits, Resting, Before, Choosing, Ready
<1>7. CheckoutIsUsable
  BY DEF CheckoutIsUsable
<1>8. ProgramsStayApart
  BY DEF ProgramsStayApart
<1>9. QED
  BY <1>1, <1>2, <1>3, <1>4, <1>5, <1>6, <1>7, <1>8 DEF SetupInv

\* The command whose step it is, and what it holds before it.
Holds(c, t, i, o) ==
  /\ SetupInv /\ t = tx[c] /\ i = id[c] /\ o = todo[c]
  /\ Code(c) \in Programs /\ ask[c].organisation \in Organisations
  /\ t \in SUBSET RowKeys /\ i \in Ids \cup {0} /\ o \in SUBSET Template
  /\ Fits(c, at[c], t, i, o)

LEMMA HoldsIt ==
  ASSUME SetupInv, NEW c \in Commands, NEW t, NEW i, NEW o,
         t = tx[c], i = id[c], o = todo[c]
  PROVE  Holds(c, t, i, o)
<1>1. Code(c) \in Programs /\ ask[c].organisation \in Organisations
  BY SetupFacts DEF SetupInv, SetupTypes, Code
<1>2. Fits(c, at[c], t, i, o)
  BY DEF SetupInv, StagesInv
<1>3. QED
  BY <1>1, <1>2 DEF Holds, SetupInv, SetupTypes

LEMMA SetupBegin ==
  ASSUME SetupInv, NEW c \in Commands, Begin(c)
  PROVE  SetupInv'
<1>1. ASSUME NEW t, NEW i, NEW o, Holds(c, t, i, o)
      PROVE  Fits(c, "organisation", t, i, o)
  BY <1>1 DEF Holds, Fits, Begin, Resting, Before, Choosing, Ready
<1>2. QED
  BY <1>1, HoldsIt, LookStep
     DEF Begin, Stages, bucket, SetupInv, SetupTypes

LEMMA SetupOrganisation ==
  ASSUME SetupInv, NEW c \in Commands, Organisation(c)
  PROVE  SetupInv'
<1>1. ASSUME NEW t, NEW i, NEW o, Holds(c, t, i, o),
             NEW s \in {"project", "new organisation", "give up"}
      PROVE  Fits(c, s, t, i, o)
  BY <1>1 DEF Holds, Fits, Organisation, Look, Resting, Before, Choosing, Ready
<1>2. QED
  BY <1>1, HoldsIt, LookStep
     DEF Organisation, Look, Stages, bucket, SetupInv, SetupTypes

LEMMA SetupNewOrganisation ==
  ASSUME SetupInv, NEW c \in Commands, NewOrganisation(c)
  PROVE  SetupInv'
<1> DEFINE keys == {<<"organisation", ask[c].organisation>>}
<1>1. ASSUME NEW t, NEW i, NEW o, Holds(c, t, i, o)
      PROVE  Fits(c, "project", t \cup keys, i, o)
  BY <1>1 DEF Holds, Fits, NewOrganisation, Write, Resting, Before, Choosing, Ready
<1>2. keys \in SUBSET RowKeys
  BY SetupFacts DEF RowKeys, SetupInv, SetupTypes
<1>3. /\ at[c] # "copy" /\ InsertKeys(c, keys, "project") /\ "project" \in Stages
      /\ UNCHANGED <<ask, records, bucket, faults, choseTogether>>
  BY DEF NewOrganisation, Write, Stages
<1> HIDE DEF keys
<1>4. \A t, i, o : t = tx[c] \cup keys /\ i = id[c] /\ o = todo[c]
                     => Fits(c, "project", t, i, o)
  BY <1>1, HoldsIt
<1>5. QED
  BY <1>2, <1>3, <1>4, InsertStep

LEMMA SetupProject ==
  ASSUME SetupInv, NEW c \in Commands, Project(c)
  PROVE  SetupInv'
<1>1. ASSUME NEW t, NEW i, NEW o, Holds(c, t, i, o)
      PROVE  Fits(c, "new project", t, i, o)
             /\ (<<"project", Code(c)>> \in StoredKeys => Fits(c, "program", t, i, o))
  BY <1>1 DEF Holds, Fits, Project, Look, Resting, Before, Choosing, Ready, StoredKeys
<1>2. QED
  BY <1>1, HoldsIt, LookStep
     DEF Project, Look, Stages, bucket, SetupInv, SetupTypes

LEMMA SetupNewProject ==
  ASSUME SetupInv, NEW c \in Commands, NewProject(c)
  PROVE  SetupInv'
<1> DEFINE keys == {<<"project", Code(c)>>}
<1>1. ASSUME NEW t, NEW i, NEW o, Holds(c, t, i, o)
      PROVE  Fits(c, "program", t \cup keys, i, o)
  BY <1>1 DEF Holds, Fits, NewProject, Write, Resting, Before, Choosing, Ready
<1>2. keys \in SUBSET RowKeys
  BY SetupFacts DEF RowKeys, SetupInv, SetupTypes, Code
<1>3. /\ at[c] # "copy" /\ InsertKeys(c, keys, "program") /\ "program" \in Stages
      /\ UNCHANGED <<ask, records, bucket, faults, choseTogether>>
  BY DEF NewProject, Write, Stages
<1> HIDE DEF keys
<1>4. \A t, i, o : t = tx[c] \cup keys /\ i = id[c] /\ o = todo[c]
                     => Fits(c, "program", t, i, o)
  BY <1>1, HoldsIt
<1>5. QED
  BY <1>2, <1>3, <1>4, InsertStep

LEMMA SetupProgram ==
  ASSUME SetupInv, NEW c \in Commands, Program(c)
  PROVE  SetupInv'
<1>1. ASSUME NEW t, NEW i, NEW o, Holds(c, t, i, o)
      PROVE  /\ Fits(c, "give up", t, i, o)
             /\ <<"organisation", ask[c].organisation>> \in db
                  => Fits(c, "max", t, i, o)
             /\ <<"program", Code(c)>> \in StoredKeys => Fits(c, "list", t, i, o)
  <2>1. <<"program", Code(c)>> \in StoredKeys => Provided(Code(c))
    <3>1. <<"program", Code(c)>> \in StoredKeys => \E n \in Ids : prog[n] = Code(c)
      BY DEF StoredKeys, SetupInv, KeysInv
    <3>2. QED
      BY <1>1, <3>1 DEF Holds, SetupInv, ProgramsInv
  <2>2. QED
    BY <1>1, <2>1 DEF Holds, Fits, Program, Look, Resting, Before, Choosing, Ready
<1>2. QED
  BY <1>1, HoldsIt, LookStep
     DEF Program, Look, Stages, bucket, SetupInv, SetupTypes

LEMMA SetupSave ==
  ASSUME SetupInv, NEW c \in Commands, SaveProgram(c)
  PROVE  SetupInv'
<1>1. ASSUME NEW t, NEW i, NEW o, Holds(c, t, i, o)
      PROVE  /\ prog[i] = None => Fits(c, "insert", t, i, o)
             /\ prog[i] # None => Fits(c, "update", t, i, o)
  <2>1. i # 0 /\ i # 1
    BY <1>1 DEF Holds, Fits, SaveProgram, Choosing
  <2>2. prog[i] # None => prog[i] \in Programs
    BY <1>1, <2>1, SetupFacts, NewAcmAssumption
       DEF Holds, SetupInv, SetupTypes, IdsInv
  <2>3. QED
    BY <1>1, <2>2 DEF Holds, Fits, SaveProgram, Resting, Before, Choosing, Ready
<1>2. QED
  BY <1>1, HoldsIt, LookStep
     DEF SaveProgram, Stages, bucket, SetupInv, SetupTypes

LEMMA SetupInsert ==
  ASSUME SetupInv, NEW c \in Commands, InsertProgram(c)
  PROVE  SetupInv'
<1> DEFINE keys == {<<"program", Code(c)>>, <<"id", id[c]>>, <<"deployment", Code(c)>>}
<1>1. ASSUME NEW t, NEW i, NEW o, Holds(c, t, i, o)
      PROVE  Fits(c, "list", t \cup keys, i, o) /\ i # 0
  BY <1>1 DEF Holds, Fits, InsertProgram, Write, Resting, Before, Choosing, Ready
<1>2. keys \in SUBSET RowKeys
  <2>1. Code(c) \in Programs /\ id[c] \in Ids \cup {0} /\ id[c] # 0
    BY <1>1, HoldsIt DEF Holds
  <2>2. QED
    BY <2>1 DEF RowKeys
<1>3. /\ at[c] # "copy" /\ InsertKeys(c, keys, "list") /\ "list" \in Stages
      /\ UNCHANGED <<ask, records, bucket, faults, choseTogether>>
  BY DEF InsertProgram, Write, Stages
<1> HIDE DEF keys
<1>4. \A t, i, o : t = tx[c] \cup keys /\ i = id[c] /\ o = todo[c]
                     => Fits(c, "list", t, i, o)
  BY <1>1, HoldsIt
<1>5. QED
  BY <1>2, <1>3, <1>4, InsertStep

LEMMA SetupUpdate ==
  ASSUME SetupInv, NEW c \in Commands, UpdateProgram(c)
  PROVE  SetupInv'
<1> DEFINE keys == {<<"program", Code(c)>>, <<"deployment", Code(c)>>}
<1>1. ASSUME NEW t, NEW i, NEW o, Holds(c, t, i, o)
      PROVE  Fits(c, "list", t \cup keys, i, o)
  BY <1>1 DEF Holds, Fits, UpdateProgram, Write, Resting, Before, Choosing, Ready
<1>2. keys \in SUBSET RowKeys
  BY HoldsIt DEF RowKeys, Holds
<1>3. /\ at[c] # "copy" /\ InsertKeys(c, keys, "list") /\ "list" \in Stages
      /\ UNCHANGED <<ask, records, bucket, faults, choseTogether>>
  BY DEF UpdateProgram, Write, Stages
<1> HIDE DEF keys
<1>4. \A t, i, o : t = tx[c] \cup keys /\ i = id[c] /\ o = todo[c]
                     => Fits(c, "list", t, i, o)
  BY <1>1, HoldsIt
<1>5. QED
  BY <1>2, <1>3, <1>4, InsertStep

LEMMA SetupCheckout ==
  ASSUME SetupInv, NEW c \in Commands, Checkout(c)
  PROVE  SetupInv'
<1>1. ASSUME NEW t, NEW i, NEW o, Holds(c, t, i, o),
             NEW s \in {"commit", "new checkout"}
      PROVE  Fits(c, s, t, i, o)
  BY <1>1 DEF Holds, Fits, Checkout, Look, Resting, Before, Choosing, Ready
<1>2. QED
  BY <1>1, HoldsIt, LookStep
     DEF Checkout, Look, Stages, bucket, SetupInv, SetupTypes

LEMMA SetupNewCheckout ==
  ASSUME SetupInv, NEW c \in Commands, NewCheckout(c)
  PROVE  SetupInv'
<1> DEFINE keys == {<<"checkout", Code(c)>>}
<1>1. ASSUME NEW t, NEW i, NEW o, Holds(c, t, i, o)
      PROVE  Fits(c, "commit", t \cup keys, i, o)
  BY <1>1 DEF Holds, Fits, NewCheckout, Write, Resting, Before, Choosing, Ready
<1>2. keys \in SUBSET RowKeys
  BY SetupFacts DEF RowKeys, SetupInv, SetupTypes, Code
<1>3. /\ at[c] # "copy" /\ InsertKeys(c, keys, "commit") /\ "commit" \in Stages
      /\ UNCHANGED <<ask, records, bucket, faults, choseTogether>>
  BY DEF NewCheckout, Write, Stages
<1> HIDE DEF keys
<1>4. \A t, i, o : t = tx[c] \cup keys /\ i = id[c] /\ o = todo[c]
                     => Fits(c, "commit", t, i, o)
  BY <1>1, HoldsIt
<1>5. QED
  BY <1>2, <1>3, <1>4, InsertStep

LEMMA SetupPublish ==
  ASSUME SetupInv, NEW c \in Commands, Publish(c)
  PROVE  SetupInv'
<1>1. ASSUME NEW t, NEW i, NEW o, Holds(c, t, i, o)
      PROVE  Fits(c, "done", t, i, o) /\ Code(c) \in Programs
  BY <1>1 DEF Holds, Fits, Publish, Resting, Before, Choosing, Ready
<1>2. published' \subseteq Programs
  BY <1>1, HoldsIt DEF Publish, SetupInv, SetupTypes
<1>3. QED
  BY <1>1, <1>2, HoldsIt, LookStep DEF Publish, Stages, SetupInv, SetupTypes

LEMMA SetupRerun ==
  ASSUME SetupInv, NEW c \in Commands, Rerun(c)
  PROVE  SetupInv'
<1>1. ASSUME NEW t, NEW i, NEW o, Holds(c, t, i, o)
      PROVE  Fits(c, "idle", t, i, o)
  BY <1>1 DEF Holds, Fits, Rerun, Resting, Before, Choosing, Ready
<1>2. QED
  BY <1>1, HoldsIt, LookStep DEF Rerun, Stages, bucket, SetupInv, SetupTypes

LEMMA SetupMaxId ==
  ASSUME SetupInv, NEW c \in Commands, MaxId(c)
  PROVE  SetupInv'
<1> DEFINE n == Max({m \in Ids : prog[m] # None})
<1>1. n \in Ids /\ n + 1 \in Ids /\ prog[n] # None /\ prog[n + 1] = None
  BY NextId DEF SetupInv
<1> HIDE DEF n
<1>2. (n + 1) - 1 = n /\ n + 1 # 1 /\ n + 1 # 0
  BY <1>1, SetupFacts
<1>3. id' = [id EXCEPT ![c] = n + 1]
  BY DEF MaxId, n
<1>4. Holds(c, tx[c], id[c], todo[c])
  BY HoldsIt
<1>5. Fits(c, "save", tx[c], n + 1, todo[c])
  <2>1. ASSUME NEW t, NEW i, NEW o, Holds(c, t, i, o), NEW j, j = n + 1
        PROVE  Fits(c, "save", t, j, o)
    BY <1>1, <1>2, <2>1
       DEF Holds, Fits, MaxId, Resting, Before, Choosing, Ready
  <2>2. QED
    BY <1>4, <2>1
<1>6. Moves(c, "save", tx[c], n + 1, todo[c])
  BY <1>3 DEF Moves, MaxId, GoTo, SetupInv, SetupTypes
<1>7. tx[c] \in SUBSET RowKeys /\ todo[c] \in SUBSET Template /\ n + 1 \in Ids \cup {0}
      /\ "save" \in Stages
  BY <1>1 DEF SetupInv, SetupTypes, Stages
<1>8. content' = content /\ cut' = cut /\ published' = published
      /\ ask' = ask /\ faults' = faults /\ prog' = prog /\ UNCHANGED records
  BY DEF MaxId, records, bucket
<1>9. SetupTypes'
  BY <1>3, <1>7, <1>8
     DEF SetupInv, SetupTypes, MaxId, GoTo, records
<1>10. tx[c] \cap StoredKeys = {} /\ \A d \in Commands \ {c} : tx[c] \cap tx[d] = {}
  BY DEF SetupInv, KeysInv
<1>11. choseTogether => choseTogether'
  BY DEF MaxId
<1>12. ChoiceInv'
  <2>1. SUFFICES ASSUME ~ choseTogether' PROVE ChoiceInv'
    BY DEF ChoiceInv
  <2>2. \A d \in Commands : id[d] = 0
    BY <2>1 DEF MaxId
  <2>3. \A d \in Commands : id'[d] = IF d = c THEN n + 1 ELSE 0
    BY <1>3, <2>2 DEF SetupInv, SetupTypes
  <2>4. QED
    BY <1>1, <1>8, <2>3 DEF ChoiceInv
<1>13. at[c] # "copy"
  BY DEF MaxId
<1>14. QED
  BY <1>5, <1>6, <1>7, <1>8, <1>9, <1>10, <1>11, <1>12, <1>13, StepWithContent

LEMMA SetupList ==
  ASSUME SetupInv, NEW c \in Commands, List(c)
  PROVE  SetupInv'
<1>1. content[Code(c)] # {} => Filled(Code(c))
  BY HoldsIt DEF Holds, SetupInv, ProgramsInv
<1>2. ASSUME NEW t, NEW i, NEW o, Holds(c, t, i, o)
      PROVE  /\ content[Code(c)] # {} => Fits(c, "checkout", t, i, o)
             /\ content[Code(c)] = {} => Fits(c, "copy", t, i, Template)
  BY <1>1, <1>2 DEF Holds, Fits, List, Resting, Before, Choosing, Ready
<1>3. CASE content[Code(c)] # {}
  <2>1. \A t, i, o : t = tx[c] /\ i = id[c] /\ o = todo[c]
                       => Fits(c, "checkout", t, i, o)
    BY <1>2, <1>3, HoldsIt
  <2>2. /\ at[c] # "copy" /\ GoTo(c, "checkout") /\ "checkout" \in Stages
        /\ UNCHANGED <<ask, memory, records, content, cut, choseTogether>>
        /\ published' \subseteq Programs /\ faults' \in 0 .. MaxFaults
    BY <1>3 DEF List, Stages, memory, bucket, SetupInv, SetupTypes
  <2>3. QED
    BY <2>1, <2>2, LookStep
<1>4. CASE content[Code(c)] = {}
  <2>1. SUFFICES ASSUME NEW t, NEW i, NEW o, t = tx[c], i = id[c], o = todo[c]
                 PROVE  SetupInv'
    OBVIOUS
  <2>2. Holds(c, t, i, o)
    BY <2>1, HoldsIt
  <2>3. Fits(c, "copy", t, i, Template)
    BY <1>2, <1>4, <2>2
  <2>4. Moves(c, "copy", t, i, Template)
    BY <1>4, <2>1 DEF Moves, List, GoTo, SetupInv, SetupTypes
  <2>5. SetupTypes'
    BY <1>4 DEF List, GoTo, Stages, records, bucket, SetupInv, SetupTypes
  <2>6. t \in SUBSET RowKeys /\ i \in Ids \cup {0} /\ "copy" \in Stages
    BY <2>2 DEF Holds, Stages
  <2>7. t \cap StoredKeys = {} /\ \A d \in Commands \ {c} : t \cap tx[d] = {}
    BY <2>1 DEF SetupInv, KeysInv
  <2>8. /\ UNCHANGED <<ask, records, content>> /\ cut' = cut
        /\ choseTogether' = choseTogether
    BY DEF List, bucket
  <2>9. QED
    BY <2>1, <2>3, <2>4, <2>5, <2>6, <2>7, <2>8, StepWithContent
<1>5. QED
  BY <1>3, <1>4

LEMMA SetupCopy ==
  ASSUME SetupInv, NEW c \in Commands, Copy(c)
  PROVE  SetupInv'
<1>1. SUFFICES ASSUME NEW t, NEW i, NEW o, t = tx[c], i = id[c], o = todo[c]
               PROVE  SetupInv'
  OBVIOUS
<1>2. Holds(c, t, i, o)
  BY <1>1, HoldsIt
<1>3. content[Code(c)] \cup o = Template /\ at[c] = "copy"
  BY <1>2 DEF Holds, Fits, Copy
<1>4. t \cap StoredKeys = {} /\ \A d \in Commands \ {c} : t \cap tx[d] = {}
  BY <1>1 DEF SetupInv, KeysInv
<1>5. /\ UNCHANGED <<ask, records>> /\ cut' = cut /\ choseTogether' = choseTogether
      /\ ask' = ask
  BY DEF Copy
<1>6. CASE o = {}
  <2>1. content[Code(c)] = Template
    BY <1>3, <1>6
  <2>2. Filled(Code(c))
    BY <2>1 DEF Filled
  <2>3. \A u, j, q : u = tx[c] /\ j = id[c] /\ q = todo[c]
                       => Fits(c, "checkout", u, j, q)
    BY <1>1, <1>2, <1>3, <2>2 DEF Holds, Fits, Resting, Before, Choosing, Ready
  <2>4. Moves(c, "checkout", t, i, o)
    BY <1>1, <1>3, <1>6 DEF Moves, Copy, GoTo, SetupInv, SetupTypes
  <2>5. SetupTypes' /\ content' = content
    BY <1>1, <1>3, <1>6 DEF Copy, GoTo, Stages, records, SetupInv, SetupTypes
  <2>6. t \in SUBSET RowKeys /\ i \in Ids \cup {0} /\ o \in SUBSET Template
        /\ "checkout" \in Stages
    BY <1>2 DEF Holds, Stages
  <2>7. Fits(c, "checkout", t, i, o)
    BY <1>1, <2>3
  <2>8. QED
    BY <1>1, <1>4, <1>5, <2>1, <2>4, <2>5, <2>6, <2>7, StepWithContent
<1>7. CASE o # {}
  <2>1. PICK x \in o : /\ content' = [content EXCEPT ![Code(c)] = @ \cup {x}]
                       /\ todo' = [todo EXCEPT ![c] = @ \ {x}] /\ at' = at
                       /\ tx' = tx /\ id' = id /\ published' = published
                       /\ faults' = faults
    BY <1>1, <1>3, <1>7 DEF Copy
  <2>2. Code(c) \in Programs /\ o \subseteq Template /\ t \in SUBSET RowKeys
        /\ i \in Ids \cup {0} /\ o \ {x} \in SUBSET Template /\ "copy" \in Stages
    BY <1>2 DEF Holds, Stages
  <2>3. Moves(c, "copy", t, i, o \ {x})
    BY <1>1, <1>3, <2>1 DEF Moves, SetupInv, SetupTypes
  <2>4. SetupTypes'
    <3>1. content' \in [Programs -> SUBSET Template]
      BY <2>1, <2>2 DEF SetupInv, SetupTypes
    <3>2. todo' \in [Commands -> SUBSET Template]
      BY <2>1 DEF SetupInv, SetupTypes
    <3>3. QED
      BY <1>5, <2>1, <3>1, <3>2 DEF records, SetupInv, SetupTypes
  <2>5. \A p \in Programs :
          content'[p] = IF p = Code(c) THEN content[p] \cup {x} ELSE content[p]
    BY <2>1 DEF SetupInv, SetupTypes
  <2>6. ASSUME NEW p \in Programs
        PROVE  /\ Filled(p) => Filled(p)'
               /\ content[p] \subseteq content'[p]
               /\ content[p] # {} \/ content'[p] = {} \/ Filled(p)'
    <3>1. Code(c)' = Code(c) /\ at'[c] = "copy" /\ cut' = cut
          /\ \A d \in Commands : Code(d)' = Code(d) /\ at'[d] = at[d]
      BY <1>3, <1>5, <2>1 DEF Code
    <3>2. p = Code(c) => Filled(p)'
      BY <3>1 DEF Filled
    <3>3. p # Code(c) => (Filled(p) => Filled(p)')
      BY <2>5, <3>1 DEF Filled
    <3>4. QED
      BY <2>5, <3>2, <3>3
  <2>7. Fits(c, "copy", t, i, o \ {x})'
    <3>1. Steady
      <4>1. \A p \in Programs : Provided(p) => Provided(p)'
        BY <1>5 DEF Provided, records
      <4>2. ask' = ask /\ db' = db /\ prog' = prog
        BY <1>5 DEF records
      <4>3. \A p \in Programs : content'[p] \subseteq Template
        BY <2>4 DEF SetupTypes
      <4>4. QED
        BY <2>6, <4>1, <4>2, <4>3 DEF Steady
    <3>2. Fits(c, "copy", t, i, o)
      BY <1>2, <1>3 DEF Holds
    <3>3. Fits(c, "copy", t, i, o)'
      BY <2>2, <3>1, <3>2, FitsStays DEF SetupInv
    <3>4. content'[Code(c)] \cup (o \ {x}) = Template
      BY <1>3, <2>2, <2>5
    <3>5. Code(c)' = Code(c)
      BY <1>5 DEF Code
    <3>6. (content[Code(c)] \cup (o \ {x}) = Template)'
      BY <3>4, <3>5
    <3>7. QED
      BY <3>3, <3>6 DEF Fits
  <2>8. QED
    BY <1>1, <1>4, <1>5, <2>2, <2>3, <2>4, <2>6, <2>7, UncommittedStep
<1>8. QED
  BY <1>6, <1>7

LEMMA SetupFault ==
  ASSUME SetupInv, NEW c \in Commands, Fault(c)
  PROVE  SetupInv'
<1>1. UNCHANGED <<ask, records, content, published, choseTogether>>
  BY DEF Fault
<1>2. faults' \in 0 .. MaxFaults
  <2>1. faults \in 0 .. MaxFaults /\ MaxFaults \in Nat
    BY NewAcmAssumption DEF SetupInv, SetupTypes
  <2>2. faults' = faults + 1 /\ faults < MaxFaults
    BY DEF Fault
  <2>3. QED
    BY <2>1, <2>2
<1>3. /\ cut \subseteq cut' /\ cut' \subseteq Programs
      /\ at[c] = "copy" => Code(c) \in cut'
  BY HoldsIt DEF Fault, Holds, SetupInv, SetupTypes
<1>4. CASE RollBack(c)
  BY <1>1, <1>2, <1>3, <1>4, RollBackStep
<1>5. CASE at[c] = "copy" /\ GoTo(c, "give up") /\ UNCHANGED memory
  <2>1. SUFFICES ASSUME NEW t, NEW i, NEW o, t = tx[c], i = id[c], o = todo[c]
                 PROVE  SetupInv'
    OBVIOUS
  <2>2. Holds(c, t, i, o)
    BY <2>1, HoldsIt
  <2>3. Fits(c, "give up", t, i, o)
    BY <1>5, <2>2 DEF Holds, Fits, Resting, Before, Choosing, Ready
  <2>4. Moves(c, "give up", t, i, o)
    BY <1>5, <2>1 DEF Moves, GoTo, memory, SetupInv, SetupTypes
  <2>5. SetupTypes'
    BY <1>1, <1>2, <1>3, <1>5
       DEF GoTo, Stages, memory, records, SetupInv, SetupTypes
  <2>6. t \in SUBSET RowKeys /\ i \in Ids \cup {0} /\ o \in SUBSET Template
        /\ "give up" \in Stages
    BY <2>2 DEF Holds, Stages
  <2>7. t \cap StoredKeys = {} /\ \A d \in Commands \ {c} : t \cap tx[d] = {}
    BY <2>1 DEF SetupInv, KeysInv
  <2>8. QED
    BY <1>1, <1>3, <2>1, <2>3, <2>4, <2>5, <2>6, <2>7, StepWithContent
<1>6. QED
  BY <1>4, <1>5 DEF Fault

-----------------------------------------------------------------------------
(* Commit.                                                                 *)

\* What a commit of transaction t does to the rows, when it has made the
\* program with id i, or has not.
Writes(c, made, t, i) ==
  /\ db' = db \cup {k \in t : k[1] \notin {"program", "id"}}
  /\ prog' = IF made THEN [prog EXCEPT ![i] = Code(c)] ELSE prog
  /\ links' = IF made THEN links \cup {<<i, ask[c].organisation>>} ELSE links
  /\ overwritten' = IF made /\ prog[i] \in Programs
                    THEN overwritten \cup {prog[i]} ELSE overwritten
  /\ ask' = ask /\ content' = content /\ cut' = cut
  /\ published' = published /\ faults' = faults
  /\ choseTogether' = choseTogether

\* A transaction to commit: its keys are nobody else's, and a program it has
\* made is new, with the next id or that of another program.
Due(c, s, made, t, i) ==
  /\ SetupInv /\ c \in Commands /\ s \in {"commit", "give up"} /\ s = at[c]
  /\ t = tx[c] /\ i = id[c] /\ t \in SUBSET RowKeys /\ made \in BOOLEAN
  /\ Code(c) \in Programs /\ ask[c].organisation \in Organisations
  /\ made <=> <<"program", Code(c)>> \in t
  /\ made => /\ i \in Ids /\ i # 1 /\ i - 1 \in Ids /\ prog[i - 1] # None
             /\ <<"deployment", Code(c)>> \in t
             /\ <<"organisation", ask[c].organisation>> \in db
             /\ <<"id", i>> \in t \/ prog[i] \in Programs
             /\ \A n \in Ids : prog[n] # Code(c)
             /\ ~ choseTogether => prog[i] = None
  /\ \A p \in Programs : <<"checkout", p>> \in t =>
       /\ p = Code(c) /\ Filled(p) /\ <<"project", p>> \in db \cup t
       /\ ~ made => Provided(p)
  /\ Writes(c, made, t, i)
  /\ Moves(c, IF s = "commit" THEN "publish" ELSE "stopped", {}, 0, {})

LEMMA CommitIsDue ==
  ASSUME SetupInv, NEW c \in Commands, Commit(c),
         NEW s, NEW t, NEW i, s = at[c], t = tx[c], i = id[c],
         NEW made \in BOOLEAN, made <=> <<"program", Code(c)>> \in t
  PROVE  Due(c, s, made, t, i)
<1>1. SUFFICES ASSUME NEW o, o = todo[c] PROVE Due(c, s, made, t, i)
  OBVIOUS
<1>2. Holds(c, t, i, o)
  BY <1>1, HoldsIt
<1>3. s \in {"commit", "give up"}
  BY DEF Commit
<1>4. Writes(c, made, t, i)
  BY DEF Writes, Commit, bucket
<1>5. Moves(c, IF s = "commit" THEN "publish" ELSE "stopped", {}, 0, {})
  BY DEF Moves, Commit, GoTo
<1>6. ASSUME made
      PROVE  /\ i \in Ids /\ i # 1 /\ i - 1 \in Ids /\ prog[i - 1] # None
             /\ <<"deployment", Code(c)>> \in t
             /\ <<"organisation", ask[c].organisation>> \in db
             /\ <<"id", i>> \in t \/ prog[i] \in Programs
             /\ \A n \in Ids : prog[n] # Code(c)
             /\ ~ choseTogether => prog[i] = None
  <2>1. <<"program", Code(c)>> \in t
    BY <1>6
  <2>2. /\ i # 0 /\ i # 1 /\ prog[i - 1] # None
        /\ <<"deployment", Code(c)>> \in t
        /\ <<"organisation", ask[c].organisation>> \in db
        /\ <<"id", i>> \in t \/ prog[i] \in Programs
    BY <1>2, <2>1 DEF Holds, Fits
  <2>3. i \in Ids /\ i - 1 \in Ids
    BY <1>2, <2>2, SetupFacts DEF Holds
  <2>4. <<"program", Code(c)>> \notin StoredKeys
    BY <2>1 DEF SetupInv, KeysInv
  <2>5. \A n \in Ids : prog[n] # Code(c)
    BY <2>4 DEF StoredKeys
  <2>6. ~ choseTogether => prog[i] = None
    BY <2>2 DEF SetupInv, ChoiceInv
  <2>7. QED
    BY <2>2, <2>3, <2>5, <2>6
<1>7. ASSUME NEW p \in Programs, <<"checkout", p>> \in t
      PROVE  /\ p = Code(c) /\ Filled(p) /\ <<"project", p>> \in db \cup t
             /\ ~ made => Provided(p)
  <2>1. at[c] = "commit" /\ p = Code(c)
    BY <1>2, <1>7 DEF Holds, Fits
  <2>2. QED
    BY <1>2, <2>1 DEF Holds, Fits, Ready
<1>8. QED
  BY <1>2, <1>3, <1>4, <1>5, <1>6, <1>7 DEF Due, Holds

LEMMA CommitTypes ==
  ASSUME NEW c, NEW s, NEW made, NEW t, NEW i, Due(c, s, made, t, i)
  PROVE  SetupTypes'
<1> USE DEF Due, Writes, Moves, SetupInv, SetupTypes
<1>1. /\ at' \in [Commands -> Stages] /\ tx' \in [Commands -> SUBSET RowKeys]
      /\ id' \in [Commands -> Ids \cup {0}]
      /\ todo' \in [Commands -> SUBSET Template]
  BY DEF Stages
<1>2. db' \subseteq RowKeys
  OBVIOUS
<1>3. prog' \in [Ids -> Programs \cup {Test, None}]
  OBVIOUS
<1>4. links' \subseteq Ids \X Organisations
  <2>1. links \subseteq Ids \X Organisations
        /\ (made => <<i, ask[c].organisation>> \in Ids \X Organisations)
    OBVIOUS
  <2>2. links' \subseteq links \cup (IF made THEN {<<i, ask[c].organisation>>} ELSE {})
    OBVIOUS
  <2>3. QED
    BY <2>1, <2>2, Zenon
<1>5. overwritten' \subseteq Programs
  OBVIOUS
<1>6. QED
  BY <1>1, <1>2, <1>3, <1>4, <1>5

\* A program keeps its deployment and link, or loses its row to this one.
LEMMA CommitProvides ==
  ASSUME NEW c, NEW s, NEW made, NEW t, NEW i, Due(c, s, made, t, i),
         NEW p \in Programs, Provided(p)
  PROVE  Provided(p)'
<1>1. <<"deployment", p>> \in db'
  BY DEF Provided, Due, Writes
<1>2. CASE p \in overwritten
  BY <1>1, <1>2 DEF Provided, Due, Writes
<1>3. ASSUME NEW l \in links, prog[l[1]] = p, <<"organisation", l[2]>> \in db
      PROVE  Provided(p)'
  <2>1. CASE made /\ l[1] = i
    <3>1. p \in overwritten'
      BY <1>3, <2>1 DEF Due, Writes
    <3>2. QED
      BY <1>1, <3>1 DEF Provided
  <2>2. CASE ~ (made /\ l[1] = i)
    <3>1. prog'[l[1]] = p
      BY <1>3, <2>2 DEF Due, Writes, SetupInv, SetupTypes
    <3>2. l \in links' /\ <<"organisation", l[2]>> \in db'
      BY <1>3 DEF Due, Writes
    <3>3. QED
      BY <1>1, <3>1, <3>2 DEF Provided
  <2>3. QED
    BY <2>1, <2>2
<1>4. QED
  BY <1>2, <1>3 DEF Provided

LEMMA CommitFills ==
  ASSUME NEW c, NEW s, NEW made, NEW t, NEW i, Due(c, s, made, t, i),
         NEW p, Filled(p)
  PROVE  Filled(p)'
<1>1. \A d \in Commands : at[d] = "copy" => at'[d] = "copy" /\ Code(d)' = Code(d)
  BY DEF Due, Writes, Moves, SetupInv, SetupTypes, Code
<1>2. content' = content /\ cut' = cut
  BY DEF Due, Writes
<1>3. QED
  BY <1>1, <1>2 DEF Filled

LEMMA CommitIsSteady ==
  ASSUME NEW c, NEW s, NEW made, NEW t, NEW i, Due(c, s, made, t, i)
  PROVE  Steady
<1>1. ASSUME NEW p \in Programs
      PROVE  /\ Provided(p) => Provided(p)'
             /\ Filled(p) => Filled(p)'
             /\ content[p] \subseteq content'[p] /\ content'[p] \subseteq Template
  <2>1. content' = content /\ content[p] \subseteq Template
    BY DEF Due, Writes, SetupInv, SetupTypes
  <2>2. QED
    BY <2>1, CommitProvides, CommitFills
<1>2. ASSUME NEW n \in Ids, prog[n] # None
      PROVE  prog'[n] # None /\ (prog[n] \in Programs => prog'[n] \in Programs)
  <2>1. Code(c) \in Programs /\ Code(c) # None
    BY NewAcmAssumption DEF Due
  <2>2. QED
    BY <1>2, <2>1 DEF Due, Writes, SetupInv, SetupTypes
<1>3. ask' = ask /\ db \subseteq db'
  BY DEF Due, Writes
<1>4. QED
  BY <1>1, <1>2, <1>3 DEF Steady

\* The rows that are new are those of the transaction, or have replaced one.
LEMMA CommitKeys ==
  ASSUME NEW c, NEW s, NEW made, NEW t, NEW i, Due(c, s, made, t, i)
  PROVE  KeysInv'
<1>1. \A k \in db' : k[1] \notin {"program", "id"}
  BY DEF Due, Writes, SetupInv, KeysInv
<1>2. \A d \in Commands : tx'[d] = IF d = c THEN {} ELSE tx[d]
  BY DEF Due, Moves, SetupInv, SetupTypes
<1>3. StoredKeys' \subseteq StoredKeys \cup t
  <2>1. SUFFICES ASSUME NEW k \in StoredKeys', k \notin StoredKeys, k \notin t
                 PROVE  FALSE
    OBVIOUS
  <2>2. k \notin db'
    BY <2>1 DEF Due, Writes, StoredKeys
  <2>3. \A n \in Ids : prog'[n] = IF made /\ n = i THEN Code(c) ELSE prog[n]
    BY DEF Due, Writes, SetupInv, SetupTypes
  <2>4. ASSUME NEW n \in Ids, prog'[n] # None, k = <<"id", n>> PROVE FALSE
    <3>1. prog[n] = None
      BY <2>1, <2>4 DEF StoredKeys
    <3>2. made /\ n = i
      BY <2>3, <2>4, <3>1
    <3>3. <<"id", i>> \in t \/ prog[i] \in Programs
      BY <3>2 DEF Due
    <3>4. QED
      BY <2>1, <2>4, <3>1, <3>2, <3>3, NewAcmAssumption
  <2>5. ASSUME NEW n \in Ids, k = <<"program", prog'[n]>> PROVE FALSE
    <3>1. prog'[n] # prog[n]
      BY <2>1, <2>5 DEF StoredKeys
    <3>2. made /\ prog'[n] = Code(c)
      BY <2>3, <3>1
    <3>3. <<"program", Code(c)>> \in t
      BY <3>2 DEF Due
    <3>4. QED
      BY <2>1, <2>5, <3>2, <3>3
  <2>6. QED
    BY <2>1, <2>2, <2>4, <2>5 DEF StoredKeys
<1>4. \A d \in Commands \ {c} : tx[d] \cap t = {} /\ tx[d] \cap StoredKeys = {}
  BY DEF Due, SetupInv, KeysInv
<1>5. \A d \in Commands : tx'[d] \cap StoredKeys' = {}
  BY <1>2, <1>3, <1>4
<1>6. \A d, e \in Commands : d # e => tx'[d] \cap tx'[e] = {}
  BY <1>2 DEF Due, SetupInv, KeysInv
<1>7. QED
  BY <1>1, <1>5, <1>6 DEF KeysInv

LEMMA CommitIds ==
  ASSUME NEW c, NEW s, NEW made, NEW t, NEW i, Due(c, s, made, t, i)
  PROVE  IdsInv'
<1>1. \A n \in Ids : prog'[n] = IF made /\ n = i THEN Code(c) ELSE prog[n]
  BY DEF Due, Writes, SetupInv, SetupTypes
<1>2. \A d \in Commands : Code(d)' = Code(d)
  BY DEF Due, Writes, Code
<1>3. Code(c) \in Programs /\ Code(c) # None /\ c \in Commands
  BY NewAcmAssumption DEF Due
<1>4. made => /\ i \in Ids /\ i # 1 /\ i - 1 \in Ids /\ prog[i - 1] # None
              /\ \A n \in Ids : prog[n] # Code(c)
  BY DEF Due
<1>5. IdsInv
  BY DEF Due, SetupInv
<1>6. prog'[1] = Test
  BY <1>1, <1>4, <1>5, SetupFacts DEF IdsInv
<1>7. ASSUME NEW n \in Ids \ {1}, prog'[n] # None
      PROVE  n - 1 \in Ids /\ prog'[n - 1] # None
  <2>1. n - 1 \in Ids /\ prog[n - 1] # None
    BY <1>1, <1>4, <1>5, <1>7 DEF IdsInv
  <2>2. QED
    BY <1>1, <1>3, <2>1
<1>8. ASSUME NEW m \in Ids, NEW n \in Ids, prog'[m] = prog'[n], m # n
      PROVE  prog'[m] = None
  BY <1>1, <1>4, <1>5, <1>8 DEF IdsInv
<1>9. \A n \in Ids : prog'[n] \in {Test, None} \cup {Code(d)' : d \in Commands}
  BY <1>1, <1>2, <1>3, <1>5 DEF IdsInv
<1>10. QED
  BY <1>6, <1>7, <1>8, <1>9 DEF IdsInv

\* The program it has made has its deployment and its link.
LEMMA CommitMakes ==
  ASSUME NEW c, NEW s, NEW made, NEW t, NEW i, Due(c, s, made, t, i), made,
         NEW p, p = Code(c)
  PROVE  Provided(p)'
<1>1. <<"deployment", p>> \in db' /\ <<"organisation", ask[c].organisation>> \in db'
  BY DEF Due, Writes
<1>2. prog'[i] = p /\ <<i, ask[c].organisation>> \in links'
  BY DEF Due, Writes, SetupInv, SetupTypes
<1>3. QED
  BY <1>1, <1>2 DEF Provided

LEMMA CommitPrograms ==
  ASSUME NEW c, NEW s, NEW made, NEW t, NEW i, Due(c, s, made, t, i)
  PROVE  ProgramsInv'
<1>1. ASSUME NEW p \in Programs, NEW n \in Ids, prog'[n] = p
      PROVE  Provided(p)'
  <2>1. CASE made /\ n = i
    <3>1. p = Code(c)
      BY <1>1, <2>1 DEF Due, Writes, SetupInv, SetupTypes
    <3>2. QED
      BY <2>1, <3>1, CommitMakes
  <2>2. CASE ~ (made /\ n = i)
    <3>1. prog[n] = p
      BY <1>1, <2>2 DEF Due, Writes, SetupInv, SetupTypes
    <3>2. Provided(p)
      BY <3>1 DEF Due, SetupInv, ProgramsInv
    <3>3. QED
      BY <3>2, CommitProvides
  <2>3. QED
    BY <2>1, <2>2
<1>2. ASSUME NEW p \in Programs, content'[p] # {} PROVE Filled(p)'
  <2>1. Filled(p)
    BY <1>2 DEF Due, Writes, SetupInv, ProgramsInv
  <2>2. QED
    BY <2>1, CommitFills
<1>3. QED
  BY <1>1, <1>2 DEF ProgramsInv

LEMMA CommitUsable ==
  ASSUME NEW c, NEW s, NEW made, NEW t, NEW i, Due(c, s, made, t, i)
  PROVE  CheckoutIsUsable'
<1>1. ASSUME NEW p \in Programs, <<"checkout", p>> \in db'
      PROVE  <<"project", p>> \in db' /\ Provided(p)' /\ Filled(p)'
  <2>1. CASE <<"checkout", p>> \in db
    <3>1. <<"project", p>> \in db /\ Provided(p) /\ Filled(p)
      BY <2>1 DEF Due, SetupInv, CheckoutIsUsable, Provided, Filled
    <3>2. <<"project", p>> \in db'
      BY <3>1 DEF Due, Writes
    <3>3. QED
      BY <3>1, <3>2, CommitProvides, CommitFills
  <2>2. CASE <<"checkout", p>> \in t
    <3>1. p = Code(c) /\ Filled(p) /\ <<"project", p>> \in db \cup t
          /\ (~ made => Provided(p))
      BY <2>2 DEF Due
    <3>2. <<"project", p>> \in db'
      BY <3>1 DEF Due, Writes
    <3>3. CASE made
      BY <3>1, <3>2, <3>3, CommitMakes, CommitFills
    <3>4. CASE ~ made
      BY <3>1, <3>2, <3>4, CommitProvides, CommitFills
    <3>5. QED
      BY <3>3, <3>4
  <2>3. QED
    BY <1>1, <2>1, <2>2 DEF Due, Writes
<1>2. QED
  BY <1>1 DEF CheckoutIsUsable, Provided, Filled

LEMMA CommitApart ==
  ASSUME NEW c, NEW s, NEW made, NEW t, NEW i, Due(c, s, made, t, i)
  PROVE  ProgramsStayApart' /\ ChoiceInv'
<1>1. SUFFICES ASSUME ~ choseTogether
               PROVE  ProgramsStayApart' /\ ChoiceInv'
  BY DEF Due, Writes, ProgramsStayApart, ChoiceInv
<1>2. \A d \in Commands : id'[d] = IF d = c THEN 0 ELSE id[d]
  BY DEF Due, Moves, SetupInv, SetupTypes
<1>3. \A n \in Ids : prog'[n] = IF made /\ n = i THEN Code(c) ELSE prog[n]
  BY DEF Due, Writes, SetupInv, SetupTypes
<1>4. made => prog[i] = None /\ i \in Ids
  BY <1>1 DEF Due
<1>5. overwritten' = {}
  BY <1>1, <1>4, NewAcmAssumption DEF Due, Writes, SetupInv, ProgramsStayApart
<1>6. \A d \in Commands : Code(d)' = Code(d) /\ ask'[d] = ask[d]
  BY DEF Due, Writes, Code
<1>7. ASSUME NEW l \in links'
      PROVE  \E d \in Commands : prog'[l[1]] = Code(d)' /\ l[2] = ask'[d].organisation
  <2>1. CASE made /\ l = <<i, ask[c].organisation>>
    BY <1>3, <1>4, <1>6, <2>1 DEF Due
  <2>2. CASE l \in links
    <3>1. PICK d \in Commands : prog[l[1]] = Code(d) /\ l[2] = ask[d].organisation
      BY <1>1, <2>2 DEF Due, SetupInv, ProgramsStayApart
    <3>2. Code(d) # None /\ l[1] \in Ids
      BY <2>2, SetupFacts, NewAcmAssumption DEF Due, SetupInv, SetupTypes, Code
    <3>3. ~ (made /\ l[1] = i)
      BY <1>4, <3>1, <3>2
    <3>4. prog'[l[1]] = Code(d)' /\ l[2] = ask'[d].organisation
      BY <1>3, <1>6, <3>1, <3>2, <3>3
    <3>5. QED
      BY <3>4
  <2>3. QED
    BY <2>1, <2>2 DEF Due, Writes
<1>8. ProgramsStayApart'
  BY <1>5, <1>7 DEF ProgramsStayApart
<1>9. ASSUME NEW d \in Commands, id'[d] # 0 PROVE prog'[id'[d]] = None
  <2>1. d # c /\ id'[d] = id[d]
    BY <1>2, <1>9
  <2>2. prog[id[d]] = None /\ id[d] \in Ids
    BY <1>1, <1>9, <2>1 DEF Due, SetupInv, SetupTypes, ChoiceInv
  <2>3. made => id[d] # i
    <3>1. made => i = id[c] /\ i # 0
      BY <1>4, SetupFacts DEF Due
    <3>2. QED
      BY <1>1, <1>9, <2>1, <3>1 DEF Due, SetupInv, ChoiceInv
  <2>4. QED
    BY <1>3, <2>1, <2>2, <2>3
<1>10. \A d, e \in Commands : id'[d] # 0 /\ id'[e] # 0 => d = e
  BY <1>1, <1>2 DEF Due, SetupInv, ChoiceInv
<1>11. QED
  BY <1>8, <1>9, <1>10 DEF ChoiceInv

LEMMA SetupCommit ==
  ASSUME SetupInv, NEW c \in Commands, Commit(c)
  PROVE  SetupInv'
<1>1. SUFFICES ASSUME NEW s, NEW t, NEW i, s = at[c], t = tx[c], i = id[c],
                      NEW made \in BOOLEAN, made <=> <<"program", Code(c)>> \in t
               PROVE  SetupInv'
  OBVIOUS
<1>2. Due(c, s, made, t, i)
  BY <1>1, CommitIsDue
<1> DEFINE u == IF s = "commit" THEN "publish" ELSE "stopped"
<1>3. Moves(c, u, {}, 0, {}) /\ u \in Stages /\ u \in {"publish", "stopped"}
  BY <1>2 DEF Due, Stages
<1> HIDE DEF u
<1>4. Fits(c, u, {}, 0, {})
  BY <1>3 DEF Fits, Resting, Before, Choosing, Ready
<1>5. Steady
  BY <1>2, CommitIsSteady
<1>6. ASSUME NEW v, v = u
      PROVE  StagesInv'
  <2>1. Fits(c, v, {}, 0, {})'
    BY <1>4, <1>5, <1>6, FitsStays DEF SetupInv
  <2>2. QED
    BY <1>3, <1>5, <1>6, <2>1, StagesStay DEF SetupInv
<1>7. QED
  BY <1>2, <1>6, CommitTypes, CommitKeys, CommitIds, CommitPrograms,
     CommitUsable, CommitApart DEF SetupInv

-----------------------------------------------------------------------------
LEMMA SetupStep ==
  ASSUME SetupInv, [SetupNext]_setupVars
  PROVE  SetupInv'
<1>1. CASE UNCHANGED setupVars
  <2>1. /\ ask' = ask /\ at' = at /\ tx' = tx /\ id' = id /\ todo' = todo
        /\ db' = db /\ prog' = prog /\ links' = links /\ content' = content
        /\ published' = published /\ faults' = faults /\ cut' = cut
        /\ overwritten' = overwritten /\ choseTogether' = choseTogether
    BY <1>1 DEF setupVars, memory, records, bucket
  <2>2. StoredKeys' = StoredKeys /\ \A c : Code(c)' = Code(c)
    BY <2>1 DEF StoredKeys, Code
  <2>3. SetupTypes' /\ KeysInv' /\ ChoiceInv' /\ IdsInv'
    BY <2>1, <2>2 DEF SetupInv, SetupTypes, KeysInv, ChoiceInv, IdsInv
  <2>4. \A p : (Provided(p)' <=> Provided(p)) /\ (Filled(p)' <=> Filled(p))
    BY <2>1, <2>2 DEF Provided, Filled
  <2>5. ProgramsInv' /\ CheckoutIsUsable' /\ ProgramsStayApart'
    BY <2>1, <2>2, <2>4
       DEF SetupInv, ProgramsInv, CheckoutIsUsable, ProgramsStayApart
  <2>6. StagesInv'
    <3>1. Steady
      BY <2>1, <2>4 DEF Steady, SetupInv, SetupTypes
    <3>2. ASSUME NEW c \in Commands, NEW s, NEW t, NEW i, NEW o,
                 s = at[c], t = tx[c], i = id[c], o = todo[c]
          PROVE  Fits(c, s, t, i, o)'
      <4>1. Fits(c, s, t, i, o) /\ i \in Ids \cup {0} /\ o \in SUBSET Template
        BY <3>2 DEF SetupInv, StagesInv, SetupTypes
      <4>2. QED
        BY <3>1, <4>1, FitsStays DEF SetupInv
    <3>3. QED
      BY <2>1, <3>2 DEF StagesInv
  <2>7. QED
    BY <2>3, <2>5, <2>6 DEF SetupInv
<1>2. CASE SetupNext
  <2>1. PICK c \in Commands : Step(c) \/ Fault(c)
    BY <1>2 DEF SetupNext
  <2>2. QED
    BY <2>1, SetupBegin, SetupOrganisation, SetupNewOrganisation, SetupProject,
       SetupNewProject, SetupProgram, SetupMaxId, SetupSave, SetupInsert,
       SetupUpdate, SetupList, SetupCopy, SetupCheckout, SetupNewCheckout,
       SetupCommit, SetupPublish, SetupRerun, SetupFault DEF Step
<1>3. QED
  BY <1>1, <1>2

LEMMA SetupInvariance == SetupSpec => []SetupInv
<1>1. SetupInv /\ [SetupNext]_setupVars => SetupInv'
  BY SetupStep
<1>2. QED
  BY <1>1, SetupStart, PTL DEF SetupSpec

\* Every row and object a command may find is of the kind it takes it to be.
THEOREM SetupTypeCorrect == SetupSpec => []SetupTypeOK
<1>1. SetupInv => SetupTypeOK
  BY DEF SetupInv, SetupTypes, SetupTypeOK, RowKeys, Tables
<1>2. QED
  BY <1>1, SetupInvariance, PTL

\* A program that can be checked out has its project, deployment and row, and
\* the whole template, whatever runs have failed on the way (75-99, 292-355).
THEOREM UsableCheckouts == SetupSpec => []CheckoutIsUsable
<1>1. SetupInv => CheckoutIsUsable
  BY DEF SetupInv
<1>2. QED
  BY <1>1, SetupInvariance, PTL

\* While ids are chosen one at a time, no program takes another's row, and
\* each is linked to its own organisation (190-196).
THEOREM ProgramsApart == SetupSpec => []ProgramsStayApart
<1>1. SetupInv => ProgramsStayApart
  BY DEF SetupInv
<1>2. QED
  BY <1>1, SetupInvariance, PTL
=============================================================================
