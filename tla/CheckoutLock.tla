---------------------------- MODULE CheckoutLock ----------------------------
(***************************************************************************)
(* What the ACM checkout service promises its clients, with every detail   *)
(* of requests and database left out: one exclusive lock per project.      *)
(* A free project is taken by one holder; while it is held nobody else     *)
(* takes it and the record of who holds it does not change; it becomes     *)
(* free again by a check-in, a discard, a revocation or a reset.  Only on  *)
(* a project that requests contend for is none of this promised.           *)
(***************************************************************************)
CONSTANTS Projects,   \* the projects an ACM name resolves to
          Holders,    \* what the service records of whoever has an ACM out
          Free        \* nobody has it out

VARIABLES
  holder,     \* [Projects -> Holders \cup {Free}]
  contended   \* projects on which requests overlap: an input

Init == holder \in [Projects -> {Free}]

Acquire(p) ==
  /\ holder[p] = Free
  /\ \E h \in Holders : holder' = [holder EXCEPT ![p] = h]

Release(p) ==
  /\ holder[p] # Free
  /\ holder' = [holder EXCEPT ![p] = Free]

\* The request that is saved last does what it likes with the entry.
Overtake(p) ==
  /\ p \in contended
  /\ \E h \in Holders \cup {Free} : holder' = [holder EXCEPT ![p] = h]

Next == \E p \in Projects : Acquire(p) \/ Release(p) \/ Overtake(p)

Spec == Init /\ [][Next]_holder
=============================================================================
