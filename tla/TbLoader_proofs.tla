-------------------------- MODULE TbLoader_proofs --------------------------
(***************************************************************************)
(* Theorems about TbLoader for every table, every number of users and of   *)
(* requests at once, and all numbers asked for: the blocks of one user's   *)
(* requests that overlapped no other are disjoint between two moves of the *)
(* counter, and ids are unique unless allocations overlap or are cut short *)
(***************************************************************************)
EXTENDS TbLoader, TLAPS

\* A phase in which the request works on an item.
HoldsItem(s) ==
  phase[s] \in {"rereadmax", "writemax", "rereaditem", "writeitem"}

\* Types that depend on the phase.
PhaseInv ==
  \A s \in Slots :
    /\ HoldsItem(s) => item[s] \in Item
    /\ HoldsItem(s) => items[Owner[s]] # NoItem
    /\ phase[s] = "writeitem" => reread[s] \in Int
    /\ phase[s] = "answer" => block[s] \in Block

TInv == TypeOK /\ PhaseInv

\* Of two requests of one user that have both still to save, each is mixed.
MixedInv ==
  \A s, t \in Slots :
    s # t /\ Owner[s] = Owner[t] /\ Unsaved(s) /\ Unsaved(t) => mixed[s]

\* A request that is not mixed works on the row as it is.
RowInv ==
  \A s \in Slots : ~ mixed[s] =>
    /\ HoldsItem(s) => items[Owner[s]] = item[s]
    /\ phase[s] = "writeitem" => reread[s] = item[s].reserved

\* The blocks given out and those saved and not yet answered.
Blocks == granted \cup {block[t] : t \in {x \in Slots : phase[x] = "answer"}}

\* No block is of a later era than its user's counter, and the counter
\* covers those of its own.
Covered ==
  \A b \in Blocks : b.alone =>
    /\ b.era <= era[b.user]
    /\ b.era = era[b.user] =>
         items[b.user] # NoItem /\ b.end <= items[b.user].reserved

Apart ==
  \A a, b \in Blocks :
    a.user = b.user /\ a.era = b.era /\ a.alone /\ b.alone /\ a # b
    => Disjoint(a, b)

UserInv == MixedInv /\ RowInv /\ Covered /\ Apart

\* A user's TB-loader id, 0 where there is none.
Id(u) == IF items[u] = NoItem THEN 0 ELSE items[u].tb_loader_id

\* A new id is in the table and not yet in the maximum.
Fresh(s) == phase[s] \in {"rereadmax", "writemax"}

OneAllocates == \A s, t \in Slots : Allocating(s) /\ Allocating(t) => s = t

\* What an allocation has read is still so.
MaxAsRead ==
  \A s \in Slots :
    /\ Allocating(s) => maxId = oldMax[s]
    /\ phase[s] = "writemax" => reread[s] = maxId

\* Only the id being allocated is above the maximum.
IdsWithinMax ==
  \A u \in Users :
    maxId = Null \/ Id(u) <= maxId
      \/ \E s \in Slots : Fresh(s) /\ Owner[s] = u /\ Id(u) = maxId + 1

IdsUnique == \A u, v \in Users : u # v /\ Id(u) # 0 => Id(u) # Id(v)

IdInv == torn \/ (OneAllocates /\ MaxAsRead /\ IdsWithinMax /\ IdsUnique)

-----------------------------------------------------------------------------
\* The imported table and no request have their types.
LEMMA InitTInv == Init => TInv
<1> SUFFICES ASSUME Init PROVE TInv
  OBVIOUS
<1>1. TypeOK
  <2>1. /\ items \in [Users -> Item \cup {NoItem}]
        /\ maxId \in Nat \cup {Null}
    BY InitialAssumption DEF Init
  <2>2. requests \in 0 .. MaxRequests /\ crashes \in 0 .. MaxCrashes
    BY BoundsAssumption DEF Init
  <2>3. /\ phase \in [Slots -> Phases] /\ resp \in [Slots -> Responses]
        /\ item \in [Slots -> Item \cup {NoItem}]
    BY DEF Init, Phases, Responses
  <2>4. /\ num \in [Slots -> Int] /\ oldMax \in [Slots -> Nat]
        /\ reread \in [Slots -> Int \cup {Null}]
    BY DEF Init
  <2>5. /\ granted \in SUBSET Block /\ torn \in BOOLEAN
        /\ block \in [Slots -> Block \cup {NoItem}]
        /\ mixed \in [Slots -> BOOLEAN] /\ era \in [Users -> Nat]
    BY DEF Init
  <2>6. QED
    BY <2>1, <2>2, <2>3, <2>4, <2>5 DEF TypeOK
<1>2. PhaseInv
  BY DEF Init, PhaseInv, HoldsItem
<1>3. QED
  BY <1>1, <1>2 DEF TInv

\* Finishing a request preserves the types of its locals.
LEMMA AnswerTypes ==
  ASSUME TypeOK, NEW s \in Slots, NEW status \in Responses, Answer(s, status)
  PROVE  /\ phase' \in [Slots -> Phases] /\ num' \in [Slots -> Int]
         /\ item' \in [Slots -> Item \cup {NoItem}]
         /\ oldMax' \in [Slots -> Nat]
         /\ reread' \in [Slots -> Int \cup {Null}]
         /\ block' \in [Slots -> Block \cup {NoItem}]
         /\ mixed' \in [Slots -> BOOLEAN]
         /\ resp' \in [Slots -> Responses]
  BY DEF TypeOK, Answer, Goto, Phases

\* A request starts with the row as it was read.
LEMMA ReserveTInv ==
  ASSUME TInv, NEW s \in Slots, NEW n \in Sizes, Reserve(s, n)
  PROVE  TInv'
<1> DEFINE i == items[Owner[s]]
<1>1. n \in Int /\ requests + 1 \in 0 .. MaxRequests
  BY SizesAssumption, BoundsAssumption DEF TInv, TypeOK, Reserve
<1>2. i \in Item \cup {NoItem}
  BY OwnerAssumption DEF TInv, TypeOK
<1>3. TypeOK'
  <2>1. CASE Answer(s, "failure")
    BY <1>1, <2>1, AnswerTypes DEF TInv, TypeOK, Reserve, Responses
  <2>2. CASE ~ Answer(s, "failure")
    <3>1. mixed' \in [Slots -> BOOLEAN]
      BY <2>2 DEF TInv, TypeOK, Reserve, StartsAmong
    <3>2. QED
      BY <1>1, <1>2, <2>2, <3>1
      DEF TInv, TypeOK, Reserve, Goto, Phases, Responses, At
  <2>3. QED
    BY <2>1, <2>2
<1>4. PhaseInv'
  BY <1>1, <1>2 DEF TInv, TypeOK, PhaseInv, HoldsItem, Reserve, Goto, At, Answer
<1>5. QED
  BY <1>3, <1>4 DEF TInv

\* Every step of a request preserves the types.
LEMMA StepTInv ==
  ASSUME TInv, NEW s \in Slots, Step(s)
  PROVE  TInv'
<1>1. CASE \E n \in Sizes : Reserve(s, n)
  BY <1>1, ReserveTInv
<1>2. CASE ReadMax(s)
  <2>1. TypeOK'
    <3>1. CASE Answer(s, "failure")
      BY <1>2, <3>1, AnswerTypes DEF TInv, TypeOK, ReadMax, Responses
    <3>2. CASE ~ Answer(s, "failure")
      BY <1>2, <3>2 DEF TInv, TypeOK, ReadMax, Goto, Phases, Allocating
    <3>3. QED
      BY <3>1, <3>2
  <2>2. PhaseInv'
    BY <1>2 DEF TInv, TypeOK, PhaseInv, HoldsItem, ReadMax, Goto, At, Answer
  <2>3. QED
    BY <2>1, <2>2 DEF TInv
<1>3. CASE InsertItem(s)
  <2> DEFINE new == [tb_loader_id |-> oldMax[s] + 1, hex_id |-> TRUE,
                     reserved |-> 1]
  <2>1. new \in Item /\ Owner[s] \in Users
    BY OwnerAssumption DEF TInv, TypeOK, Item
  <2>2. \/ Answer(s, "error") /\ UNCHANGED items
        \/ /\ items' = [items EXCEPT ![Owner[s]] = new]
           /\ item' = [item EXCEPT ![s] = new]
           /\ Goto(s, "rereadmax")
           /\ UNCHANGED <<num, oldMax, reread, resp, block, mixed>>
    BY <1>3 DEF InsertItem
  <2>3. /\ At(s, "insert")
        /\ UNCHANGED <<maxId, granted, era, torn, requests, crashes>>
    BY <1>3 DEF InsertItem
  <2>4. new # NoItem
    BY <2>1, NoItemAssumption
  <2> HIDE DEF new
  <2>5. TypeOK'
    <3>1. CASE Answer(s, "error") /\ UNCHANGED items
      BY <2>3, <3>1, AnswerTypes DEF TInv, TypeOK, Responses
    <3>2. CASE ~ (Answer(s, "error") /\ UNCHANGED items)
      <4>1. /\ items' \in [Users -> Item \cup {NoItem}]
            /\ item' \in [Slots -> Item \cup {NoItem}]
        BY <2>1, <2>2, <3>2 DEF TInv, TypeOK
      <4>2. phase' \in [Slots -> Phases]
        BY <2>2, <3>2 DEF TInv, TypeOK, Goto, Phases
      <4>3. QED
        BY <2>2, <2>3, <3>2, <4>1, <4>2 DEF TInv, TypeOK
    <3>3. QED
      BY <3>1, <3>2
  <2>6. PhaseInv'
    <3>1. \A v \in Users : items[v] # NoItem => items'[v] # NoItem
      BY <2>1, <2>2, <2>4 DEF TInv, TypeOK
    <3>2. CASE Answer(s, "error")
      BY <3>1, <3>2, <2>3, OwnerAssumption
      DEF TInv, TypeOK, PhaseInv, HoldsItem, Goto, Answer
    <3>3. CASE ~ Answer(s, "error")
      <4>1. /\ items'[Owner[s]] # NoItem /\ item'[s] = new
            /\ phase' = [phase EXCEPT ![s] = "rereadmax"]
            /\ num' = num /\ reread' = reread /\ block' = block
            /\ \A t \in Slots : t # s => item'[t] = item[t]
        BY <2>1, <2>2, <2>4, <3>3 DEF TInv, TypeOK, Goto
      <4>2. QED
        BY <2>1, <2>3, <3>1, <4>1, OwnerAssumption
        DEF TInv, TypeOK, PhaseInv, HoldsItem, At
    <3>4. QED
      BY <3>2, <3>3
  <2>7. QED
    BY <2>5, <2>6 DEF TInv
<1>4. CASE RereadMax(s)
  BY <1>4 DEF TInv, TypeOK, PhaseInv, HoldsItem, RereadMax, Goto, At, Phases
<1>5. CASE WriteMax(s)
  <2>1. maxId' \in Nat \cup {Null}
    BY <1>5 DEF TInv, TypeOK, WriteMax, Saved
  <2>2. QED
    BY <1>5, <2>1
    DEF TInv, TypeOK, PhaseInv, HoldsItem, WriteMax, Goto, At, Phases
<1>6. CASE RereadItem(s)
  <2>1. items[Owner[s]] \in Item
    BY <1>6, OwnerAssumption
    DEF TInv, TypeOK, PhaseInv, HoldsItem, RereadItem, At
  <2>2. items[Owner[s]].reserved \in Int
    BY <2>1 DEF Item
  <2>3. QED
    BY <1>6, <2>2
    DEF TInv, TypeOK, PhaseInv, HoldsItem, RereadItem, Goto, At, Phases
<1>7. CASE WriteItem(s)
  <2> DEFINE u == Owner[s]
             b == NewBlock(s)
             saved == Saved(b.end, reread[s], items[u].reserved)
  <2>1. /\ u \in Users /\ items[u] \in Item /\ item[s] \in Item
        /\ num[s] \in Int /\ reread[s] \in Int
    BY <1>7, OwnerAssumption
    DEF TInv, TypeOK, PhaseInv, HoldsItem, WriteItem, At
  <2>2. EraAtSave(s) \in Nat
    BY <2>1 DEF EraAtSave, TInv, TypeOK
  <2>3. b \in Block /\ b.end \in Int
    <3>1. requests \in Nat
      BY BoundsAssumption DEF TInv, TypeOK
    <3>2. mixed[s] \in BOOLEAN
      BY DEF TInv, TypeOK
    <3>3. /\ item[s].tb_loader_id \in Nat /\ item[s].reserved \in Int
          /\ item[s].reserved + num[s] \in Int
      BY <2>1 DEF Item
    <3>4. QED
      BY <2>1, <2>2, <3>1, <3>2, <3>3 DEF NewBlock, Block
  <2>4. saved \in Int
    BY <2>1, <2>3 DEF Item, Saved
  <2>5. /\ items' = [items EXCEPT ![u].reserved = saved]
        /\ block' = [block EXCEPT ![s] = b]
        /\ era' = [era EXCEPT ![u] = EraAtSave(s)]
        /\ phase' = [phase EXCEPT ![s] = "answer"]
        /\ UNCHANGED <<maxId, num, item, oldMax, reread, resp, granted, mixed,
                       torn, requests, crashes>>
    BY <1>7 DEF WriteItem, Goto
  <2> HIDE DEF saved, b
  <2>6. items' \in [Users -> Item \cup {NoItem}]
    <3>1. [items[u] EXCEPT !.reserved = saved] \in Item
      BY <2>1, <2>4 DEF Item
    <3>2. items' = [items EXCEPT ![u] = [items[u] EXCEPT !.reserved = saved]]
      BY <2>1, <2>5 DEF TInv, TypeOK
    <3>3. QED
      BY <2>1, <3>1, <3>2 DEF TInv, TypeOK
  <2>7. TypeOK'
    <3>1. phase' \in [Slots -> Phases]
      BY <2>5 DEF TInv, TypeOK, Phases
    <3>2. /\ block' \in [Slots -> Block \cup {NoItem}]
          /\ era' \in [Users -> Nat]
      BY <2>1, <2>2, <2>3, <2>5 DEF TInv, TypeOK
    <3>3. QED
      BY <2>5, <2>6, <3>1, <3>2 DEF TInv, TypeOK
  <2>8. \A v \in Users : items[v] # NoItem => items'[v] # NoItem
    <3>1. items'[u] = [items[u] EXCEPT !.reserved = saved]
      BY <2>1, <2>5 DEF TInv, TypeOK
    <3>2. items'[u] \in Item
      BY <2>1, <2>4, <3>1 DEF Item
    <3>3. \A v \in Users : v # u => items'[v] = items[v]
      BY <2>1, <2>5 DEF TInv, TypeOK
    <3>4. QED
      BY <3>2, <3>3, NoItemAssumption
  <2>9. PhaseInv'
    BY <2>3, <2>5, <2>8, OwnerAssumption
    DEF TInv, TypeOK, PhaseInv, HoldsItem
  <2>10. QED
    BY <2>7, <2>9 DEF TInv
<1>10. CASE Respond(s)
  <2>1. TypeOK'
    <3>1. granted' \in SUBSET Block
      BY <1>10 DEF TInv, TypeOK, PhaseInv, Respond, At
    <3>2. QED
      BY <1>10, <3>1, AnswerTypes DEF TInv, TypeOK, Respond, Responses
  <2>2. PhaseInv'
    BY <1>10 DEF TInv, TypeOK, PhaseInv, HoldsItem, Respond, Answer, Goto
  <2>3. QED
    BY <2>1, <2>2 DEF TInv
<1>8. CASE Crash(s)
  <2>1. TypeOK'
    <3>1. crashes' \in 0 .. MaxCrashes /\ torn' \in BOOLEAN
      BY <1>8, BoundsAssumption DEF TInv, TypeOK, Crash
    <3>2. QED
      BY <1>8, <3>1, AnswerTypes DEF TInv, TypeOK, Crash, Responses
  <2>2. PhaseInv'
    BY <1>8 DEF TInv, TypeOK, PhaseInv, HoldsItem, Crash, Answer, Goto
  <2>3. QED
    BY <2>1, <2>2 DEF TInv
<1>9. QED
  BY <1>1, <1>2, <1>3, <1>4, <1>5, <1>6, <1>7, <1>8, <1>10 DEF Step

\* So does a step in which nothing happens.
LEMMA StutterTInv == TInv /\ UNCHANGED vars => TInv'
  BY DEF TInv, TypeOK, PhaseInv, HoldsItem, vars

\* The table, the requests and the blocks given out keep their types.
THEOREM TypeInvariant == Spec => []TInv
<1>1. TInv /\ [Next]_vars => TInv'
  BY StepTInv, StutterTInv DEF Next
<1>2. QED
  BY <1>1, InitTInv, PTL DEF Spec

\* What the runs check as TypeOK.
THEOREM TypeCorrect == Spec => []TypeOK
<1>1. TInv => TypeOK
  BY DEF TInv
<1>2. QED
  BY <1>1, TypeInvariant, PTL

-----------------------------------------------------------------------------
(* The blocks of one user.                                                 *)

\* Before the first request no block is given out.
LEMMA InitUserInv == Init => UserInv
  BY DEF Init, UserInv, MixedInv, Unsaved, RowInv, HoldsItem, Covered, Apart,
         Blocks

\* A step after which there are no other blocks, nor rows or eras, keeps the
\* blocks covered and apart.
LEMMA SameBlocks ==
  ASSUME Covered, Apart, UNCHANGED <<items, era>>, Blocks' \subseteq Blocks
  PROVE  Covered' /\ Apart'
  BY DEF Covered, Apart

\* A request that ends leaves no more blocks behind than there were.
LEMMA EndsUserInv ==
  ASSUME TInv, UserInv, NEW s \in Slots, NEW status, Answer(s, status),
         UNCHANGED <<items, era>>, granted' \subseteq Blocks
  PROVE  UserInv'
<1>1. /\ phase'[s] = "idle"
      /\ \A t \in Slots : t # s => /\ phase'[t] = phase[t]
                                   /\ item'[t] = item[t]
                                   /\ reread'[t] = reread[t]
                                   /\ block'[t] = block[t]
                                   /\ mixed'[t] = mixed[t]
  BY DEF Answer, Goto, TInv, TypeOK
<1>2. MixedInv'
  BY <1>1 DEF UserInv, MixedInv, Unsaved
<1>3. RowInv'
  BY <1>1 DEF UserInv, RowInv, HoldsItem
<1>4. Blocks' \subseteq Blocks
  BY <1>1 DEF Blocks
<1>5. QED
  BY <1>2, <1>3, <1>4, SameBlocks DEF UserInv

\* Nor does a step that brings no request past its save.
LEMMA UnsavedBlocks ==
  ASSUME NEW s \in Slots, phase'[s] # "answer", granted' = granted,
         \A t \in Slots : t # s => phase'[t] = phase[t] /\ block'[t] = block[t]
  PROVE  Blocks' \subseteq Blocks
  BY DEF Blocks

\* A request that starts is marked, with those it meets, if it meets any.
LEMMA ReserveUserInv ==
  ASSUME TInv, UserInv, NEW s \in Slots, NEW n \in Sizes, Reserve(s, n)
  PROVE  UserInv'
<1>1. CASE Answer(s, "failure")
  BY <1>1, EndsUserInv DEF Reserve, Blocks
<1>2. CASE ~ Answer(s, "failure")
  <2>1. /\ phase[s] = "idle" /\ StartsAmong(s, Others(s))
        /\ UNCHANGED <<items, granted, era, reread, block>>
        /\ \/ phase' = [phase EXCEPT ![s] = "allocate"] /\ UNCHANGED item
           \/ /\ phase' = [phase EXCEPT ![s] = "rereaditem"]
              /\ item' = [item EXCEPT ![s] = items[Owner[s]]]
    BY <1>2 DEF Reserve, At, Goto
  <2>2. /\ phase'[s] \in {"allocate", "rereaditem"}
        /\ phase'[s] = "rereaditem" => item'[s] = items[Owner[s]]
        /\ \A t \in Slots : t # s => phase'[t] = phase[t] /\ item'[t] = item[t]
    BY <2>1 DEF TInv, TypeOK
  <2>3. /\ mixed'[s] = (Others(s) # {})
        /\ \A t \in Slots : t # s =>
             mixed'[t] = (mixed[t] \/ t \in Others(s))
    BY <2>1 DEF StartsAmong
  <2>4. MixedInv'
    <3>1. SUFFICES ASSUME NEW x \in Slots, NEW y \in Slots, x # y,
                          Owner[x] = Owner[y], Unsaved(x)', Unsaved(y)'
                   PROVE  mixed'[x]
      BY DEF MixedInv
    <3>2. CASE x = s
      <4>1. y \in Others(s)
        BY <2>2, <3>1, <3>2 DEF Others, Unsaved
      <4>2. QED
        BY <2>3, <3>2, <4>1
    <3>3. CASE y = s
      <4>1. x \in Others(s)
        BY <2>2, <3>1, <3>3 DEF Others, Unsaved
      <4>2. QED
        BY <2>3, <3>1, <3>3, <4>1
    <3>4. CASE x # s /\ y # s
      BY <2>2, <2>3, <3>1, <3>4 DEF UserInv, MixedInv, Unsaved
    <3>5. QED
      BY <3>2, <3>3, <3>4
  <2>5. RowInv'
    <3>1. \A t \in Slots : t # s /\ ~ mixed'[t] => ~ mixed[t]
      BY <2>3
    <3>2. QED
      BY <2>1, <2>2, <3>1 DEF UserInv, RowInv, HoldsItem
  <2>6. Blocks' \subseteq Blocks
    BY <2>1, <2>2, UnsavedBlocks
  <2>7. QED
    BY <2>1, <2>4, <2>5, <2>6, SameBlocks DEF UserInv
<1>3. QED
  BY <1>1, <1>2

\* The new row is that of a user who had none, and so no block.
LEMMA InsertUserInv ==
  ASSUME TInv, UserInv, NEW s \in Slots, InsertItem(s)
  PROVE  UserInv'
<1> DEFINE u == Owner[s]
           new == [tb_loader_id |-> oldMax[s] + 1, hex_id |-> TRUE,
                   reserved |-> 1]
<1>1. CASE Answer(s, "error")
  <2>1. phase'[s] = "idle"
    BY <1>1 DEF Answer, Goto, TInv, TypeOK
  <2>2. UNCHANGED <<items, granted, era>>
    BY <2>1 DEF InsertItem, Goto, TInv, TypeOK
  <2>3. QED
    BY <1>1, <2>2, EndsUserInv DEF Blocks
<1>2. CASE ~ Answer(s, "error")
  <2>1. /\ phase[s] = "insert" /\ items[u] = NoItem
        /\ items' = [items EXCEPT ![u] = new]
        /\ item' = [item EXCEPT ![s] = new]
        /\ phase' = [phase EXCEPT ![s] = "rereadmax"]
        /\ UNCHANGED <<granted, era, reread, block, mixed>>
    BY <1>2 DEF InsertItem, At, Goto
  <2> HIDE DEF new
  <2>2. u \in Users
    BY OwnerAssumption
  <2>3. /\ items'[u] = new /\ item'[s] = new /\ phase'[s] = "rereadmax"
        /\ \A v \in Users : v # u => items'[v] = items[v]
        /\ \A t \in Slots : t # s => phase'[t] = phase[t] /\ item'[t] = item[t]
    BY <2>1, <2>2 DEF TInv, TypeOK
  <2>4. MixedInv'
    BY <2>1, <2>3 DEF UserInv, MixedInv, Unsaved
  <2>5. RowInv'
    <3>1. SUFFICES ASSUME NEW t \in Slots, ~ mixed[t]
                   PROVE  /\ HoldsItem(t)' => items'[Owner[t]] = item'[t]
                          /\ phase'[t] = "writeitem" =>
                               reread'[t] = item'[t].reserved
      BY <2>1 DEF RowInv
    <3>2. CASE t = s
      BY <2>3, <3>2
    <3>3. CASE t # s /\ Owner[t] = u
      <4>1. ~ Unsaved(t)
        BY <2>1, <3>1, <3>3 DEF UserInv, MixedInv, Unsaved
      <4>2. QED
        BY <2>3, <3>3, <4>1 DEF Unsaved, HoldsItem
    <3>4. CASE t # s /\ Owner[t] # u
      BY <2>1, <2>3, <3>1, <3>4, OwnerAssumption
      DEF UserInv, RowInv, HoldsItem
    <3>5. QED
      BY <3>2, <3>3, <3>4
  <2>6. Blocks' \subseteq Blocks
    BY <2>1, <2>3, UnsavedBlocks
  <2>7. Apart'
    BY <2>6 DEF UserInv, Apart
  <2>8. Covered'
    <3>1. Blocks \subseteq Block
      BY DEF Blocks, TInv, TypeOK, PhaseInv
    <3>2. \A b \in Blocks : b.user \in Users
      BY <3>1 DEF Block
    <3>3. QED
      BY <2>1, <2>3, <2>6, <3>2 DEF UserInv, Covered
  <2>9. QED
    BY <2>4, <2>5, <2>7, <2>8 DEF UserInv
<1>3. QED
  BY <1>1, <1>2

\* Saving the counter makes a block that is apart from those of its era.
LEMMA WriteUserInv ==
  ASSUME TInv, UserInv, NEW s \in Slots, WriteItem(s)
  PROVE  UserInv'
<1> DEFINE u == Owner[s]
           b == NewBlock(s)
           saved == Saved(b.end, reread[s], items[u].reserved)
<1>1. /\ u \in Users /\ items[u] \in Item /\ item[s] \in Item
      /\ num[s] \in Int /\ reread[s] \in Int /\ phase[s] = "writeitem"
      /\ item[s].reserved \in Int /\ items[u].reserved \in Int
      /\ era[u] \in Nat
  BY OwnerAssumption
  DEF TInv, TypeOK, PhaseInv, HoldsItem, WriteItem, At, Item
<1>2. /\ items' = [items EXCEPT ![u].reserved = saved]
      /\ block' = [block EXCEPT ![s] = b]
      /\ era' = [era EXCEPT ![u] = EraAtSave(s)]
      /\ phase' = [phase EXCEPT ![s] = "answer"]
      /\ UNCHANGED <<granted, item, reread, mixed>>
  BY DEF WriteItem, Goto
<1>3. /\ b.user = u /\ b.era = EraAtSave(s) /\ b.alone = ~ mixed[s]
      /\ b.begin = item[s].reserved /\ b.end = item[s].reserved + num[s]
  BY DEF NewBlock
<1>4. saved \in Int
  BY <1>1, <1>3 DEF Saved
<1>5. ~ mixed[s] => saved = b.end /\ b.begin = items[u].reserved
  BY <1>1, <1>3 DEF Saved, UserInv, RowInv, HoldsItem
<1>6. /\ EraAtSave(s) \in Nat
      /\ MayMoveBack(s) => EraAtSave(s) = era[u] + 1
      /\ ~ MayMoveBack(s) => EraAtSave(s) = era[u] /\ num[s] >= 0 /\ ~ mixed[s]
  BY <1>1 DEF EraAtSave, MayMoveBack
<1> HIDE DEF saved, b
<1>7. /\ items'[u] # NoItem /\ items'[u].reserved = saved
      /\ \A v \in Users : v # u => items'[v] = items[v]
  <2>1. items' = [items EXCEPT ![u] = [items[u] EXCEPT !.reserved = saved]]
    BY <1>1, <1>2 DEF TInv, TypeOK
  <2>2. [items[u] EXCEPT !.reserved = saved] \in Item
    BY <1>1, <1>4 DEF Item
  <2>3. [items[u] EXCEPT !.reserved = saved].reserved = saved
    BY <1>1 DEF Item
  <2>4. QED
    BY <1>1, <2>1, <2>2, <2>3, NoItemAssumption DEF TInv, TypeOK
<1>8. /\ phase'[s] = "answer" /\ block'[s] = b
      /\ \A t \in Slots : t # s => phase'[t] = phase[t] /\ block'[t] = block[t]
      /\ era'[u] = EraAtSave(s)
      /\ \A v \in Users : v # u => era'[v] = era[v]
  BY <1>1, <1>2 DEF TInv, TypeOK
<1>9. Blocks' \subseteq Blocks \cup {b}
  BY <1>2, <1>8 DEF Blocks
<1>10. \A a \in Blocks : /\ a.user \in Users /\ a.end \in Int /\ a.begin \in Int
                         /\ a.era \in Nat
  <2>1. Blocks \subseteq Block
    BY DEF Blocks, TInv, TypeOK, PhaseInv
  <2>2. QED
    BY <2>1 DEF Block
<1>11. MixedInv'
  BY <1>2, <1>8 DEF UserInv, MixedInv, Unsaved
<1>12. RowInv'
  <2>1. SUFFICES ASSUME NEW t \in Slots, ~ mixed[t], HoldsItem(t)'
                 PROVE  /\ items'[Owner[t]] = item[t]
                        /\ phase'[t] = "writeitem" =>
                             reread[t] = item[t].reserved
    BY <1>2 DEF RowInv, HoldsItem
  <2>2. t # s /\ HoldsItem(t) /\ Unsaved(t) /\ Unsaved(s)
    BY <1>1, <1>8, <2>1 DEF HoldsItem, Unsaved
  <2>3. Owner[t] # u
    BY <2>1, <2>2 DEF UserInv, MixedInv
  <2>4. QED
    BY <1>7, <1>8, <2>1, <2>2, <2>3, OwnerAssumption DEF UserInv, RowInv
<1>13. Covered'
  <2>1. SUFFICES ASSUME NEW a \in Blocks', a.alone
                 PROVE  /\ a.era <= era'[a.user]
                        /\ a.era = era'[a.user] =>
                             /\ items'[a.user] # NoItem
                             /\ a.end <= items'[a.user].reserved
    BY DEF Covered
  <2>2. CASE a = b
    <3>1. a.user = u /\ a.era = EraAtSave(s) /\ ~ mixed[s]
      BY <1>3, <2>1, <2>2
    <3>2. a.end = saved
      BY <1>5, <2>2, <3>1
    <3>3. QED
      BY <1>4, <1>6, <1>7, <1>8, <3>1, <3>2
  <2>3. CASE a \in Blocks /\ a.user # u
    BY <1>7, <1>8, <1>10, <2>1, <2>3 DEF UserInv, Covered
  <2>4. CASE a \in Blocks /\ a.user = u
    <3>1. /\ a.era <= era[u]
          /\ a.era = era[u] => a.end <= items[u].reserved
      BY <2>1, <2>4 DEF UserInv, Covered
    <3>2. CASE MayMoveBack(s)
      BY <1>1, <1>6, <1>8, <1>10, <2>4, <3>1, <3>2
    <3>3. CASE ~ MayMoveBack(s)
      <4>1. saved = items[u].reserved + num[s] /\ num[s] >= 0
        BY <1>1, <1>3, <1>5, <1>6, <3>3
      <4>2. QED
        BY <1>1, <1>6, <1>7, <1>8, <1>10, <2>4, <3>1, <3>3, <4>1
    <3>4. QED
      BY <3>2, <3>3
  <2>5. QED
    BY <1>9, <2>2, <2>3, <2>4
<1>14. Apart'
  <2>1. \A a \in Blocks : a.user = u /\ a.era = b.era /\ a.alone /\ b.alone
                          => a.end <= b.begin
    <3>1. SUFFICES ASSUME NEW a \in Blocks, a.user = u, a.era = b.era, a.alone,
                          b.alone
                   PROVE  a.end <= b.begin
      OBVIOUS
    <3>2. /\ a.era <= era[u]
          /\ a.era = era[u] => a.end <= items[u].reserved
      BY <3>1 DEF UserInv, Covered
    <3>3. ~ MayMoveBack(s)
      BY <1>1, <1>3, <1>6, <1>10, <3>1, <3>2
    <3>4. QED
      BY <1>3, <1>5, <1>6, <3>1, <3>2, <3>3
  <2>2. \A a \in Blocks : a.user = u /\ a.era = b.era /\ a.alone /\ b.alone
                          => Disjoint(a, b) /\ Disjoint(b, a)
    BY <2>1 DEF Disjoint
  <2>3. QED
    BY <1>3, <1>9, <2>2 DEF UserInv, Apart
<1>15. QED
  BY <1>11, <1>12, <1>13, <1>14 DEF UserInv

\* No step of a request gives one number out twice to its user.
LEMMA StepUserInv ==
  ASSUME TInv, UserInv, NEW s \in Slots, Step(s)
  PROVE  UserInv'
<1> USE DEF At, Goto
<1>1. CASE \E n \in Sizes : Reserve(s, n)
  BY <1>1, ReserveUserInv
<1>2. CASE InsertItem(s)
  BY <1>2, InsertUserInv
<1>3. CASE WriteItem(s)
  BY <1>3, WriteUserInv
<1>4. ASSUME Unsaved(s), Unsaved(s)',
             HoldsItem(s)' => HoldsItem(s) \/ mixed[s],
             ~ mixed[s] /\ phase'[s] = "writeitem" =>
               reread'[s] = item[s].reserved,
             phase' = [phase EXCEPT ![s] = phase'[s]],
             \A t \in Slots : t # s => reread'[t] = reread[t],
             UNCHANGED <<items, granted, era, item, block, mixed>>
      PROVE  UserInv'
  <2>1. \A t \in Slots : t # s => phase'[t] = phase[t]
    BY <1>4 DEF TInv, TypeOK
  <2>2. MixedInv'
    BY <1>4, <2>1 DEF UserInv, MixedInv, Unsaved
  <2>3. RowInv'
    BY <1>4, <2>1 DEF UserInv, RowInv, HoldsItem
  <2>4. Blocks' \subseteq Blocks
    BY <1>4, <2>1, UnsavedBlocks DEF Unsaved
  <2>5. QED
    BY <1>4, <2>2, <2>3, <2>4, SameBlocks DEF UserInv
<1>5. CASE ReadMax(s)
  <2>1. CASE Answer(s, "failure")
    BY <1>5, <2>1, EndsUserInv DEF ReadMax, Blocks
  <2>2. CASE ~ Answer(s, "failure")
    <3>1. /\ phase[s] = "allocate"
          /\ phase' = [phase EXCEPT ![s] = "insert"]
          /\ UNCHANGED <<items, granted, era, item, block, mixed, reread>>
      BY <1>5, <2>2 DEF ReadMax
    <3>2. phase'[s] = "insert"
      BY <3>1 DEF TInv, TypeOK
    <3>3. QED
      BY <1>4, <3>1, <3>2 DEF Unsaved, HoldsItem
  <2>3. QED
    BY <2>1, <2>2
<1>6. CASE RereadMax(s)
  <2>1. phase[s] = "rereadmax" /\ phase'[s] = "writemax"
    BY <1>6 DEF RereadMax, TInv, TypeOK
  <2>2. \A t \in Slots : t # s => reread'[t] = reread[t]
    BY <1>6 DEF RereadMax, TInv, TypeOK
  <2>3. QED
    BY <1>4, <1>6, <2>1, <2>2 DEF RereadMax, Unsaved, HoldsItem
<1>7. CASE WriteMax(s)
  <2>1. phase[s] = "writemax" /\ phase'[s] = "rereaditem"
    BY <1>7 DEF WriteMax, TInv, TypeOK
  <2>2. QED
    BY <1>4, <1>7, <2>1 DEF WriteMax, Unsaved, HoldsItem
<1>8. CASE RereadItem(s)
  <2>1. phase[s] = "rereaditem" /\ phase'[s] = "writeitem"
    BY <1>8 DEF RereadItem, TInv, TypeOK
  <2>2. /\ reread'[s] = items[Owner[s]].reserved
        /\ \A t \in Slots : t # s => reread'[t] = reread[t]
    BY <1>8 DEF RereadItem, TInv, TypeOK
  <2>3. ~ mixed[s] => items[Owner[s]] = item[s]
    BY <2>1 DEF UserInv, RowInv, HoldsItem
  <2>4. QED
    BY <1>4, <1>8, <2>1, <2>2, <2>3 DEF RereadItem, Unsaved, HoldsItem
<1>9. CASE Respond(s)
  <2>1. block[s] \in Blocks
    BY <1>9 DEF Respond, Blocks
  <2>2. QED
    BY <1>9, <2>1, EndsUserInv DEF Respond, Blocks
<1>10. CASE Crash(s)
  BY <1>10, EndsUserInv DEF Crash, Blocks
<1>11. QED
  BY <1>1, <1>2, <1>3, <1>5, <1>6, <1>7, <1>8, <1>9, <1>10 DEF Step

\* Nor does a step in which nothing happens.
LEMMA StutterUserInv == UserInv /\ UNCHANGED vars => UserInv'
  BY DEF UserInv, MixedInv, Unsaved, RowInv, HoldsItem, Covered, Apart, Blocks,
         vars

\* A request that meets no other of its user works on the stored row, so that
\* the counter covers every block of its era, also one whose answer is lost,
\* and the next block of the era begins after them.
THEOREM UserInvariant == Spec => []UserInv
<1>1. TInv /\ UserInv /\ [Next]_vars => UserInv'
  BY StepUserInv, StutterUserInv DEF Next
<1>2. QED
  BY <1>1, InitUserInv, TypeInvariant, PTL DEF Spec

\* Serial numbers given to one user by requests that did not overlap are given
\* once, until the counter is moved back.
THEOREM UserBlocksDisjoint == Spec => []BlocksOfUserDisjoint
<1>1. UserInv => BlocksOfUserDisjoint
  BY DEF UserInv, Apart, Blocks, BlocksOfUserDisjoint
<1>2. QED
  BY <1>1, UserInvariant, PTL

\* The stored counter is past every number given out since it was last moved
\* back.
THEOREM CounterCovers == Spec => []CounterCoversBlocks
<1>1. UserInv => CounterCoversBlocks
  BY DEF UserInv, Covered, Blocks, CounterCoversBlocks
<1>2. QED
  BY <1>1, UserInvariant, PTL

-----------------------------------------------------------------------------
(* Ids are unique until two allocations overlap or one is cut short.       *)

\* Every TB-loader id is a number.
LEMMA IdType == TInv => \A u \in Users : Id(u) \in Nat
  BY DEF TInv, TypeOK, Id, Item

\* An imported table names no id twice and none above its maximum.
LEMMA InitIdInv == Init => IdInv
<1> SUFFICES ASSUME Init PROVE IdInv
  OBVIOUS
<1>1. OneAllocates /\ MaxAsRead
  BY DEF Init, OneAllocates, MaxAsRead, Allocating
<1>2. IdsWithinMax
  <2>1. /\ items \in InitialItems /\ maxId \in InitialMaxes
        /\ maxId # Null => maxId \in Nat
    BY InitialAssumption DEF Init
  <2>2. \A u \in Users : maxId # Null /\ items[u] # NoItem
                            /\ items[u].tb_loader_id # 0
                          => items[u].tb_loader_id <= maxId
    BY <2>1, ImportAssumption
  <2>3. \A u \in Users : maxId # Null => Id(u) <= maxId
    BY <2>1, <2>2 DEF Id
  <2>4. QED
    BY <2>3 DEF IdsWithinMax
<1>3. IdsUnique
  BY ImportAssumption DEF Init, IdsUnique, Id
<1>4. QED
  BY <1>1, <1>2, <1>3 DEF IdInv

\* A step that changes neither an id nor the maximum and that leaves every
\* fresh id fresh keeps the ids in order.
LEMMA SameIds ==
  ASSUME IdsWithinMax, IdsUnique, maxId' = maxId,
         \A u \in Users : Id(u)' = Id(u),
         \A t \in Slots : Fresh(t) => Fresh(t)'
  PROVE  IdsWithinMax' /\ IdsUnique'
  BY DEF IdsWithinMax, IdsUnique

\* No step of a request makes two users share an id, or it is torn.
LEMMA StepIdInv ==
  ASSUME TInv, IdInv, NEW s \in Slots, Step(s)
  PROVE  IdInv'
<1> SUFFICES ASSUME ~ torn' PROVE IdInv'
  BY DEF IdInv
<1> USE DEF At, Goto
<1>1. ~ torn
  BY DEF Step, Reserve, ReadMax, InsertItem, RereadMax, WriteMax, RereadItem,
         WriteItem, Respond, Crash, TInv, TypeOK
<1>2. OneAllocates /\ MaxAsRead /\ IdsWithinMax /\ IdsUnique
  BY <1>1 DEF IdInv
<1>3. phase \in [Slots -> Phases] /\ oldMax \in [Slots -> Nat]
      /\ reread \in [Slots -> Int \cup {Null}]
  BY DEF TInv, TypeOK
<1>4. ASSUME UNCHANGED <<items, maxId>>, ~ Fresh(s), ~ Allocating(s)',
             \A t \in Slots : t # s => /\ phase'[t] = phase[t]
                                     /\ oldMax'[t] = oldMax[t]
                                     /\ reread'[t] = reread[t]
      PROVE  IdInv'
  <2>1. OneAllocates' /\ MaxAsRead'
    BY <1>2, <1>4 DEF OneAllocates, MaxAsRead, Allocating
  <2>2. \A u \in Users : Id(u)' = Id(u)
    BY <1>4 DEF Id
  <2>3. \A t \in Slots : Fresh(t) => Fresh(t)'
    BY <1>4 DEF Fresh
  <2>4. IdsWithinMax' /\ IdsUnique'
    BY <1>2, <1>4, <2>2, <2>3, SameIds
  <2>5. QED
    BY <2>1, <2>4 DEF IdInv
<1>5. ASSUME NEW status, Answer(s, status), UNCHANGED <<items, maxId>>,
             ~ Fresh(s)
      PROVE  IdInv'
  BY <1>3, <1>4, <1>5 DEF Answer, Allocating
<1>6. CASE \E n \in Sizes : Reserve(s, n)
  BY <1>3, <1>4, <1>6 DEF Reserve, Answer, Allocating, Fresh
<1>7. CASE ReadMax(s)
  <2>1. CASE Answer(s, "failure")
    BY <1>5, <1>7, <2>1 DEF ReadMax, Fresh
  <2>2. CASE ~ Answer(s, "failure")
    <3>1. /\ phase' = [phase EXCEPT ![s] = "insert"]
          /\ oldMax' = [oldMax EXCEPT ![s] = maxId]
          /\ UNCHANGED <<items, maxId, reread>>
          /\ \A t \in Slots : ~ Allocating(t)
      BY <1>7, <2>2 DEF ReadMax
    <3>2. OneAllocates' /\ MaxAsRead'
      BY <1>3, <3>1 DEF OneAllocates, MaxAsRead, Allocating
    <3>3. \A u \in Users : Id(u)' = Id(u)
      BY <3>1 DEF Id
    <3>4. \A t \in Slots : Fresh(t) => Fresh(t)'
      BY <3>1 DEF Fresh, Allocating
    <3>5. QED
      BY <1>2, <3>1, <3>2, <3>3, <3>4, SameIds DEF IdInv
  <2>3. QED
    BY <2>1, <2>2
<1>8. CASE InsertItem(s)
  <2> DEFINE u == Owner[s]
             new == [tb_loader_id |-> oldMax[s] + 1, hex_id |-> TRUE,
                     reserved |-> 1]
  <2>1. u \in Users /\ new \in Item
    BY <1>3, OwnerAssumption DEF Item
  <2>2. new # NoItem
    BY <2>1, NoItemAssumption
  <2>3. new.tb_loader_id = oldMax[s] + 1
    OBVIOUS
  <2> HIDE DEF new
  <2>4. CASE Answer(s, "error")
    <3>1. phase'[s] = "idle"
      BY <1>3, <2>4 DEF Answer
    <3>2. UNCHANGED <<items, maxId>> /\ ~ Fresh(s)
      BY <1>3, <1>8, <3>1 DEF InsertItem, Fresh
    <3>3. QED
      BY <1>5, <2>4, <3>2
  <2>5. CASE ~ Answer(s, "error")
    <3>1. /\ items[u] = NoItem /\ items' = [items EXCEPT ![u] = new]
          /\ phase' = [phase EXCEPT ![s] = "rereadmax"]
          /\ UNCHANGED <<oldMax, reread, maxId>>
          /\ phase[s] = "insert"
      BY <1>8, <2>5 DEF InsertItem, new
    <3>2. maxId = oldMax[s] /\ maxId \in Nat /\ maxId # Null
      BY <1>2, <1>3, <3>1, NoItemAssumption DEF MaxAsRead, Allocating
    <3>3. Id(u)' = maxId + 1
      <4>1. items'[u] = new
        BY <2>1, <3>1 DEF TInv, TypeOK
      <4>2. QED
        BY <2>1, <2>2, <2>3, <3>2, <4>1 DEF Id
    <3>4. \A v \in Users : v # u => Id(v)' = Id(v)
      BY <3>1 DEF TInv, TypeOK, Id
    <3>5. \A t \in Slots : ~ Fresh(t)
      BY <1>2, <3>1 DEF OneAllocates, Allocating, Fresh
    <3>6. \A v \in Users : Id(v) <= maxId /\ Id(v) \in Nat
      BY <1>2, <3>2, <3>5, IdType DEF IdsWithinMax
    <3>7. OneAllocates' /\ MaxAsRead'
      BY <1>2, <1>3, <3>1 DEF OneAllocates, MaxAsRead, Allocating
    <3>8. IdsWithinMax'
      <4>1. Fresh(s)'
        BY <1>3, <3>1 DEF Fresh
      <4>2. QED
        BY <3>1, <3>3, <3>4, <3>6, <4>1 DEF IdsWithinMax
    <3>9. IdsUnique'
      BY <1>2, <3>2, <3>3, <3>4, <3>6 DEF IdsUnique
    <3>10. QED
      BY <3>7, <3>8, <3>9 DEF IdInv
  <2>6. QED
    BY <2>4, <2>5
<1>9. CASE RereadMax(s)
  <2>1. /\ phase' = [phase EXCEPT ![s] = "writemax"] /\ phase[s] = "rereadmax"
        /\ reread' = [reread EXCEPT ![s] = maxId]
        /\ UNCHANGED <<items, maxId, oldMax>>
    BY <1>9 DEF RereadMax
  <2>2. OneAllocates' /\ MaxAsRead'
    BY <1>2, <1>3, <2>1 DEF OneAllocates, MaxAsRead, Allocating
  <2>3. \A u \in Users : Id(u)' = Id(u)
    BY <2>1 DEF Id
  <2>4. \A t \in Slots : Fresh(t) => Fresh(t)'
    BY <1>3, <2>1 DEF Fresh
  <2>5. QED
    BY <1>2, <2>1, <2>2, <2>3, <2>4, SameIds DEF IdInv
<1>10. CASE WriteMax(s)
  <2>1. /\ phase' = [phase EXCEPT ![s] = "rereaditem"]
        /\ phase[s] = "writemax" /\ UNCHANGED <<items, oldMax, reread>>
        /\ maxId' = Saved(oldMax[s] + 1, reread[s], maxId)
    BY <1>10 DEF WriteMax
  <2>2. maxId = oldMax[s] /\ reread[s] = maxId /\ maxId \in Nat
        /\ maxId # Null
    BY <1>2, <1>3, <2>1, NoItemAssumption DEF MaxAsRead, Allocating
  <2>3. maxId' = maxId + 1
    BY <2>1, <2>2 DEF Saved
  <2>4. \A t \in Slots : ~ Allocating(t)'
    BY <1>2, <1>3, <2>1 DEF OneAllocates, Allocating
  <2>5. OneAllocates' /\ MaxAsRead'
    BY <2>4 DEF OneAllocates, MaxAsRead, Allocating
  <2>6. \A u \in Users : Id(u)' = Id(u)
    BY <2>1 DEF Id
  <2>7. IdsWithinMax'
    <3>1. \A u \in Users : Id(u) \in Nat /\ Id(u) <= maxId + 1
      BY <1>2, <2>2, IdType DEF IdsWithinMax
    <3>2. QED
      BY <2>3, <2>6, <3>1 DEF IdsWithinMax
  <2>8. IdsUnique'
    BY <1>2, <2>6 DEF IdsUnique
  <2>9. QED
    BY <2>5, <2>7, <2>8 DEF IdInv
<1>11. CASE RereadItem(s)
  <2>1. /\ phase' = [phase EXCEPT ![s] = "writeitem"]
        /\ phase[s] = "rereaditem" /\ UNCHANGED <<items, maxId, oldMax>>
        /\ \A t \in Slots : t # s => reread'[t] = reread[t]
    BY <1>3, <1>11 DEF RereadItem
  <2>2. ~ Fresh(s) /\ ~ Allocating(s)'
        /\ \A t \in Slots : t # s => phase'[t] = phase[t]
    BY <1>3, <2>1 DEF Fresh, Allocating
  <2>3. QED
    BY <1>4, <2>1, <2>2
<1>12. CASE WriteItem(s)
  <2> DEFINE u == Owner[s]
             saved == Saved(NewBlock(s).end, reread[s], items[u].reserved)
  <2>1. u \in Users /\ items[u] \in Item /\ phase[s] = "writeitem"
    BY <1>12, OwnerAssumption
    DEF TInv, TypeOK, PhaseInv, HoldsItem, WriteItem
  <2>2. /\ items' = [items EXCEPT ![u].reserved = saved]
        /\ phase' = [phase EXCEPT ![s] = "answer"]
        /\ UNCHANGED <<maxId, oldMax, reread>>
    BY <1>12 DEF WriteItem
  <2>3. saved \in Int
    <3>1. item[s] \in Item /\ num[s] \in Int /\ reread[s] \in Int
      BY <1>12, <2>1 DEF TInv, TypeOK, PhaseInv, HoldsItem
    <3>2. QED
      BY <2>1, <3>1 DEF Saved, NewBlock, Item
  <2> HIDE DEF saved
  <2>4. \A v \in Users : Id(v)' = Id(v)
    <3>1. items' = [items EXCEPT ![u] = [items[u] EXCEPT !.reserved = saved]]
      BY <2>1, <2>2 DEF TInv, TypeOK
    <3>2. \A v \in Users : v # u => Id(v)' = Id(v)
      BY <2>1, <3>1 DEF Id, TInv, TypeOK
    <3>3. items'[u] = [items[u] EXCEPT !.reserved = saved]
      BY <2>1, <3>1 DEF TInv, TypeOK
    <3>4. items'[u].tb_loader_id = items[u].tb_loader_id
      BY <2>1, <3>3 DEF Item
    <3>5. items[u] # NoItem /\ items'[u] # NoItem
      <4>1. items'[u] \in Item
        BY <2>1, <2>3, <3>3 DEF Item
      <4>2. QED
        BY <2>1, <4>1, NoItemAssumption
    <3>6. Id(u)' = Id(u)
      BY <3>4, <3>5 DEF Id
    <3>7. QED
      BY <3>2, <3>6
  <2>5. /\ \A t \in Slots : Fresh(t) => Fresh(t)'
        /\ OneAllocates' /\ MaxAsRead'
    BY <1>2, <1>3, <2>1, <2>2
    DEF Fresh, OneAllocates, MaxAsRead, Allocating
  <2>6. QED
    BY <1>2, <2>2, <2>4, <2>5, SameIds DEF IdInv
<1>13. CASE Respond(s) \/ Crash(s)
  BY <1>5, <1>13 DEF Respond, Crash, Fresh
<1>14. QED
  BY <1>6, <1>7, <1>8, <1>9, <1>10, <1>11, <1>12, <1>13 DEF Step

\* Nor does a step in which nothing happens.
LEMMA StutterIdInv == IdInv /\ UNCHANGED vars => IdInv'
  BY DEF IdInv, OneAllocates, MaxAsRead, IdsWithinMax, IdsUnique, Id, Fresh,
         Allocating, vars

\* While allocations neither overlap nor are cut short, the id being
\* allocated is the only one above the maximum, and so it is new.
THEOREM IdInvariant == Spec => []IdInv
<1>1. TInv /\ IdInv /\ [Next]_vars => IdInv'
  BY StepIdInv, StutterIdInv DEF Next
<1>2. QED
  BY <1>1, InitIdInv, TypeInvariant, PTL DEF Spec

\* Two users share a TB-loader id only after a torn allocation.
THEOREM SharedIdsAreTorn == Spec => []SharedIdOnlyIfTorn
<1>1. IdInv => SharedIdOnlyIfTorn
  BY DEF IdInv, IdsUnique, Id, SharedIdOnlyIfTorn, LoaderIdsUnique
<1>2. QED
  BY <1>1, IdInvariant, PTL
=============================================================================
