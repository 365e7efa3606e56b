------------------------------ MODULE TbLoader ------------------------------
(***************************************************************************)
(* Reservation of Talking Book serial numbers                              *)
(* (src/src/tb-loader/tb-loader.service.ts).  Every user owns a TB-loader  *)
(* id and a counter of the serial numbers given out under it; ids come     *)
(* from a counter of their own, kept in the row of MAX_LOADER_KEY.  A      *)
(* request runs one database statement at a time:                          *)
(*                                                                         *)
(*   Reserve --> [ReadMax, InsertItem, RereadMax, WriteMax]                *)
(*           --> RereadItem --> WriteItem --> Respond                      *)
(*                                                                         *)
(* where save() is a second reading followed by an UPDATE of the columns   *)
(* that differ from it.  Numbers that are null in the table are 0 here, as *)
(* the code treats both alike.                                             *)
(*                                                                         *)
(* The number asked for comes from the query as it is (the controller,     *)
(* line 13): zero and negative ones are accepted, and a negative one moves *)
(* the counter back over numbers already given out.  What the properties   *)
(* promise therefore holds within an era of a user's counter; an era ends  *)
(* where the counter may be moved back.                                    *)
(***************************************************************************)
EXTENDS Integers

CONSTANTS
  Users,         \* e-mail addresses
  Slots,         \* requests that can be in flight at once
  Owner,         \* slot -> the user whose requests it serves
  Sizes,         \* numbers of serial numbers asked for, negative ones too
  MaxValue,      \* MAX_VALUE
  InitialItems,  \* possible contents of the table at the start
  InitialMaxes,  \* possible values of its max_tb_loader
  MaxRequests,   \* bound: requests in a behaviour
  MaxCrashes,    \* bound: requests cut short in a behaviour
  NoItem,        \* the user has no row
  Null           \* the MAX_LOADER_KEY row or its value is missing

Item == [tb_loader_id : Nat, hex_id : BOOLEAN, reserved : Int]

Phases == {"idle", "allocate", "insert", "rereadmax", "writemax",
           "rereaditem", "writeitem", "answer"}
Responses == {"none", "ok", "failure", "error", "lost"}

ASSUME OwnerAssumption == Owner \in [Slots -> Users]
ASSUME SizesAssumption == Sizes \subseteq Int
ASSUME BoundsAssumption == MaxRequests \in Nat /\ MaxCrashes \in Nat
ASSUME NoItemAssumption == NoItem \notin Item /\ Null \notin Int
ASSUME InitialAssumption ==
  /\ InitialItems \subseteq [Users -> Item \cup {NoItem}]
  /\ InitialMaxes \subseteq Nat \cup {Null}
\* The imported table names no id twice and none above its maximum.
ASSUME ImportAssumption ==
  \A t \in InitialItems, m \in InitialMaxes : \A u, v \in Users :
    t[u] # NoItem /\ t[u].tb_loader_id # 0 =>
      /\ m # Null => t[u].tb_loader_id <= m
      /\ v # u /\ t[v] # NoItem => t[v].tb_loader_id # t[u].tb_loader_id

VARIABLES
  items,     \* user -> row of tb_loader_ids
  maxId,     \* max_tb_loader of the MAX_LOADER_KEY row
  phase,     \* slot -> the statement its request runs next
  num,       \* slot -> serial numbers it asked for
  item,      \* slot -> the entity it works on
  oldMax,    \* slot -> old_max_id
  reread,    \* slot -> the column as save() has read it again
  resp,      \* slot -> the status last answered
  block,     \* slot -> the block saved and not yet answered
  granted,   \* history: the blocks given out
  mixed,     \* history: slot -> another request of the same user was in
             \*          flight before this one had saved
  era,       \* history: user -> times the counter may have moved back
  torn,      \* history: two allocations of an id overlapped, or one was cut
             \*          short between its two saves
  requests,  \* requests received (bound)
  crashes    \* requests cut short (bound)

vars == <<items, maxId, phase, num, item, oldMax, reread, resp, block, granted,
          mixed, era, torn, requests, crashes>>

Block == [user : Users, id : Nat, begin : Int, end : Int,
          slot : Slots, request : Nat, era : Nat, alone : BOOLEAN]

TypeOK ==
  /\ items \in [Users -> Item \cup {NoItem}]
  /\ maxId \in Nat \cup {Null}
  /\ phase \in [Slots -> Phases]
  /\ num \in [Slots -> Int]
  /\ item \in [Slots -> Item \cup {NoItem}]
  /\ oldMax \in [Slots -> Nat]
  /\ reread \in [Slots -> Int \cup {Null}]
  /\ resp \in [Slots -> Responses]
  /\ block \in [Slots -> Block \cup {NoItem}]
  /\ granted \in SUBSET Block
  /\ mixed \in [Slots -> BOOLEAN]
  /\ era \in [Users -> Nat]
  /\ torn \in BOOLEAN
  /\ requests \in 0 .. MaxRequests
  /\ crashes \in 0 .. MaxCrashes

Init ==
  /\ items \in InitialItems
  /\ maxId \in InitialMaxes
  /\ phase = [s \in Slots |-> "idle"]
  /\ num = [s \in Slots |-> 0]
  /\ item = [s \in Slots |-> NoItem]
  /\ oldMax = [s \in Slots |-> 0]
  /\ reread = [s \in Slots |-> 0]
  /\ resp = [s \in Slots |-> "none"]
  /\ block = [s \in Slots |-> NoItem]
  /\ granted = {}
  /\ mixed = [s \in Slots |-> FALSE]
  /\ era = [u \in Users |-> 0]
  /\ torn = FALSE
  /\ requests = 0
  /\ crashes = 0

-----------------------------------------------------------------------------
Goto(s, to) == phase' = [phase EXCEPT ![s] = to]

At(s, at) == phase[s] = at

\* The request ends; its locals go out of scope.
Answer(s, status) ==
  /\ Goto(s, "idle")
  /\ resp' = [resp EXCEPT ![s] = status]
  /\ num' = [num EXCEPT ![s] = 0]
  /\ item' = [item EXCEPT ![s] = NoItem]
  /\ oldMax' = [oldMax EXCEPT ![s] = 0]
  /\ reread' = [reread EXCEPT ![s] = 0]
  /\ block' = [block EXCEPT ![s] = NoItem]
  /\ mixed' = [mixed EXCEPT ![s] = FALSE]

\* "id && hex_id && cur_value": none is null, zero or empty.
Complete(i) == i.tb_loader_id # 0 /\ i.hex_id /\ i.reserved # 0

\* When the row is used as it is; otherwise a new id is to be allocated.
\* (The negation is around the whole disjunction, as in the code.)
Keeps(i, n) == Complete(i) \/ i.reserved + n > MaxValue

\* A request that has still to save its counter.
Unsaved(s) == phase[s] \notin {"idle", "answer"}

\* The requests of its user that are in flight as this one starts.
Others(s) == {t \in Slots \ {s} : Owner[t] = Owner[s] /\ Unsaved(t)}

StartsAmong(s, others) ==
  mixed' = [t \in Slots |-> IF t = s THEN others # {}
                                     ELSE mixed[t] \/ t \in others]

Reserve(s, n) ==
  LET i == items[Owner[s]] IN
  /\ At(s, "idle")
  /\ requests < MaxRequests
  /\ requests' = requests + 1
  /\ \/ /\ i # NoItem => ~ Keeps(i, n)
        /\ Goto(s, "allocate")
        /\ num' = [num EXCEPT ![s] = n]
        /\ resp' = [resp EXCEPT ![s] = "none"]
        /\ StartsAmong(s, Others(s))
        /\ UNCHANGED <<item, oldMax, reread, block>>
     \/ /\ i # NoItem
        /\ Keeps(i, n) /\ Complete(i)
        /\ Goto(s, "rereaditem")
        /\ num' = [num EXCEPT ![s] = n]
        /\ item' = [item EXCEPT ![s] = i]
        /\ resp' = [resp EXCEPT ![s] = "none"]
        /\ StartsAmong(s, Others(s))
        /\ UNCHANGED <<oldMax, reread, block>>
     \/ /\ i # NoItem
        /\ Keeps(i, n) /\ ~ Complete(i)
        /\ Answer(s, "failure")
  /\ UNCHANGED <<items, maxId, granted, era, torn, crashes>>

\* Between reading the maximum and having written the new one.
Allocating(s) == phase[s] \in {"insert", "rereadmax", "writemax"}

ReadMax(s) ==
  /\ At(s, "allocate")
  /\ \/ /\ maxId = Null
        /\ Answer(s, "failure")
        /\ UNCHANGED torn
     \/ /\ maxId # Null
        /\ Goto(s, "insert")
        /\ oldMax' = [oldMax EXCEPT ![s] = maxId]
        /\ torn' = (torn \/ \E t \in Slots : Allocating(t))
        /\ UNCHANGED <<num, item, reread, resp, block, mixed>>
  /\ UNCHANGED <<items, maxId, granted, era, requests, crashes>>

\* The e-mail column is unique; tb_loader_id is not.
InsertItem(s) ==
  LET new == [tb_loader_id |-> oldMax[s] + 1, hex_id |-> TRUE, reserved |-> 1]
  IN
  /\ At(s, "insert")
  /\ \/ /\ items[Owner[s]] # NoItem
        /\ Answer(s, "error")
        /\ UNCHANGED items
     \/ /\ items[Owner[s]] = NoItem
        /\ items' = [items EXCEPT ![Owner[s]] = new]
        /\ item' = [item EXCEPT ![s] = new]
        /\ Goto(s, "rereadmax")
        /\ UNCHANGED <<num, oldMax, reread, resp, block, mixed>>
  /\ UNCHANGED <<maxId, granted, era, torn, requests, crashes>>

\* Mutant: the counters are not saved.
SavedNever(new, read, current) == current

\* save() writes a column only if it differs from its second reading.
Saved(new, read, current) == IF new = read THEN current ELSE new

RereadMax(s) ==
  /\ At(s, "rereadmax")
  /\ reread' = [reread EXCEPT ![s] = maxId]
  /\ Goto(s, "writemax")
  /\ UNCHANGED <<items, maxId, num, item, oldMax, resp, block, granted,
                 mixed, era, torn, requests, crashes>>

WriteMax(s) ==
  /\ At(s, "writemax")
  /\ maxId' = Saved(oldMax[s] + 1, reread[s], maxId)
  /\ Goto(s, "rereaditem")
  /\ UNCHANGED <<items, num, item, oldMax, reread, resp, block, granted,
                 mixed, era, torn, requests, crashes>>

\* The counter may move back: the number is negative, or the save is that of
\* a request that overlapped another of its user.
MayMoveBack(s) == num[s] < 0 \/ mixed[s]

EraAtSave(s) == era[Owner[s]] + (IF MayMoveBack(s) THEN 1 ELSE 0)

\* begin, end and id of the answer; its era and alone are history.
NewBlock(s) ==
  [user |-> Owner[s], id |-> item[s].tb_loader_id,
   begin |-> item[s].reserved, end |-> item[s].reserved + num[s],
   slot |-> s, request |-> requests,
   era |-> EraAtSave(s), alone |-> ~ mixed[s]]

\* Mutant: the block is returned while the counter is being saved.
RereadItemEarly(s) ==
  /\ At(s, "rereaditem")
  /\ reread' = [reread EXCEPT ![s] = items[Owner[s]].reserved]
  /\ granted' = granted \cup {NewBlock(s)}
  /\ Goto(s, "writeitem")
  /\ UNCHANGED <<items, maxId, num, item, oldMax, resp, block, mixed, era,
                 torn, requests, crashes>>

RereadItem(s) ==
  /\ At(s, "rereaditem")
  /\ reread' = [reread EXCEPT ![s] = items[Owner[s]].reserved]
  /\ Goto(s, "writeitem")
  /\ UNCHANGED <<items, maxId, num, item, oldMax, resp, block, granted,
                 mixed, era, torn, requests, crashes>>

WriteItem(s) ==
  LET u == Owner[s] IN
  /\ At(s, "writeitem")
  /\ items' = [items EXCEPT ![u].reserved =
                  Saved(NewBlock(s).end, reread[s], items[u].reserved)]
  /\ block' = [block EXCEPT ![s] = NewBlock(s)]
  /\ era' = [era EXCEPT ![u] = EraAtSave(s)]
  /\ Goto(s, "answer")
  /\ UNCHANGED <<maxId, num, item, oldMax, reread, resp, granted, mixed, torn,
                 requests, crashes>>

\* The block reaches the caller.
Respond(s) ==
  /\ At(s, "answer")
  /\ granted' = granted \cup {block[s]}
  /\ Answer(s, "ok")
  /\ UNCHANGED <<items, maxId, era, torn, requests, crashes>>

\* The process stops or times out in the middle of the request, also after
\* the counter was saved and before the block is returned; or a statement
\* fails, as an UPDATE with a number the column cannot hold does.
Crash(s) ==
  /\ phase[s] # "idle"
  /\ crashes < MaxCrashes
  /\ crashes' = crashes + 1
  /\ torn' = (torn \/ phase[s] \in {"rereadmax", "writemax"})
  /\ Answer(s, "lost")
  /\ UNCHANGED <<items, maxId, granted, era, requests>>

Step(s) ==
  \/ \E n \in Sizes : Reserve(s, n)
  \/ ReadMax(s) \/ InsertItem(s) \/ RereadMax(s) \/ WriteMax(s)
  \/ RereadItem(s) \/ WriteItem(s) \/ Respond(s)
  \/ Crash(s)

Next == \E s \in Slots : Step(s)

Spec == Init /\ [][Next]_vars

-----------------------------------------------------------------------------
(* Properties.                                                             *)

Disjoint(a, b) == a.end <= b.begin \/ b.end <= a.begin

\* Two blocks that a user got from requests that overlapped no other of the
\* user's do not overlap, unless the counter was moved back between them: by
\* a negative number, or by the late save of requests that did overlap.  They
\* stay disjoint whatever is cut short, also between saving the counter and
\* returning the block, which is never returned then (lines 62-69).
BlocksOfUserDisjoint ==
  \A a, b \in granted :
    a.user = b.user /\ a.era = b.era /\ a.alone /\ b.alone /\ a # b
    => Disjoint(a, b)

\* Until the counter is moved back, it is never behind a block that was given
\* out, so that a later request, or one after a restart, cannot give it out
\* again.
CounterCoversBlocks ==
  \A b \in granted :
    b.alone /\ b.era = era[b.user]
    => items[b.user] # NoItem /\ b.end <= items[b.user].reserved

\* "Allocate the new tbloader id" (line 99): the id is new.
LoaderIdsUnique ==
  \A u, v \in Users :
    /\ u # v /\ items[u] # NoItem /\ items[v] # NoItem
    /\ items[u].tb_loader_id # 0
    => items[u].tb_loader_id # items[v].tb_loader_id

\* Two users come to share a TB-loader id in no other way than by two
\* allocations of an id that overlap, or by one that stops between saving
\* the item and saving the maximum (lines 100-109).
SharedIdOnlyIfTorn == torn \/ LoaderIdsUnique
=============================================================================
