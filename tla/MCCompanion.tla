----------------------------- MODULE MCCompanion -----------------------------
(* Downloads of one deployment, uploads of overlapping sets of plays, and    *)
(* uploads of recordings: one is described, one not, one of a stranger.      *)
EXTENDS Companion

CONSTANTS c1, c2, r1, r2, r3

Play(n, content, village) == [n |-> n, content |-> content, village |-> village]
p1 == Play(1, "song", "Jirapa")
p2 == Play(2, "song", "Lawra")
p3 == Play(3, "story", "Jirapa")
p4 == Play(4, "song", "Jirapa")

MCPlays == {p1, p2, p3, p4}

Stats(plays) == [kind : {"stats"}, plays : plays, known : {TRUE}, loader : {TRUE}]

MCWorkloads ==
  [Clients -> [kind : {"download"}]]
  \cup {w \in [Clients -> Stats({{p1, p3}, {p1, p2, p4}})
                          \cup [kind : {"stats"}, plays : {{p2}},
                                known : BOOLEAN, loader : BOOLEAN]] :
          w[c1] = [kind |-> "stats", plays |-> {p1, p3}, known |-> TRUE,
                   loader |-> TRUE]}
  \cup {w \in [Clients -> [kind : {"feedback"},
                           recordings : {{r1}, {r1, r2}, {r1, r3}}]] :
          w[c1].recordings = {r1, r2}}

=============================================================================
