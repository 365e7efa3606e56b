----------------------------- MODULE MCTbLoader -----------------------------
(* Small instances of TbLoader.                                            *)
EXTENDS TbLoader, TLC

CONSTANTS ann, ben, s1, s2, s3

Full(id, reserved) ==
  [tb_loader_id |-> id, hex_id |-> TRUE, reserved |-> reserved]

\* Ann may send two requests at once.
OwnSlots == (s1 :> ann) @@ (s2 :> ben) @@ (s3 :> ann)

\* The code does not refuse a negative number.
MCSizes == {3, -3}

Table(a, b) == (ann :> a) @@ (ben :> b)

\* New users, known ones, one near the limit, and an import that left out
\* the hex id or the counter.
MCItems ==
  {Table(NoItem, NoItem), Table(Full(1, 3), NoItem),
   Table(Full(1, 5), Full(2, 1)),
   Table([tb_loader_id |-> 1, hex_id |-> FALSE, reserved |-> 6], NoItem),
   Table([tb_loader_id |-> 1, hex_id |-> TRUE, reserved |-> 0], NoItem)}

MCMaxes == {2, Null}
=============================================================================
