----------------------------- MODULE MCLogReader -----------------------------
(* A deployment of one package with one playlist of one message; a second   *)
(* message is known by its file name only.                                  *)
EXTENDS LogReader

CONSTANTS a, b, p

MCPlaylists == [q \in {p} |-> <<<<a>>>>]
MCPlays == {[length |-> 60000, played |-> 59000]}
MCLengths == <<5, 3>>

\* The lines that differ for the reader: a message found, one missing from
\* its playlist, and one whose playlist is missing.
MCLog ==
  [kind : {"REBOOT"}, old : BOOLEAN]
  \cup [kind : {"RTC"}, time : MaybeTime]
  \cup [kind : {"setRTC"}, time : {NoTime, 3}]
  \cup [kind : {"ChgPkg"}, package : {p, NoPackage}]
  \cup {[kind |-> "PlayMsg", playlist |-> 1, message |-> 1, file |-> NoContent],
        [kind |-> "PlayMsg", playlist |-> 1, message |-> 2, file |-> b],
        [kind |-> "PlayMsg", playlist |-> 2, message |-> 1, file |-> b]}
  \cup [kind : {"MsgDone"}, play : Plays]
  \cup [kind : {"MsgDone?", "adjPos", "other"}]

=============================================================================
