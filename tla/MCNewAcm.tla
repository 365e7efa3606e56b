------------------------------ MODULE MCNewAcm -------------------------------
(* Two commands, for one program or two, of an organisation that is there,   *)
(* one that is not, and one whose parent the other command makes.            *)
EXTENDS NewAcm

CONSTANTS c1, c2, p1, p2, amplio, maker, child

MCAsks ==
  {a \in [Commands -> [program : Programs, organisation : Organisations,
                       parent : {None, maker}]] :
     /\ a[c1].program = p1 /\ a[c1].parent = None /\ a[c1].organisation # child
     /\ a[c2].parent = maker =>
          a[c2].organisation = child /\ a[c1].organisation = maker}

=============================================================================
