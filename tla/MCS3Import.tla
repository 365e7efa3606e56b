----------------------------- MODULE MCS3Import -----------------------------
(* A small instance of S3Import: a file with rows and two recordings, of     *)
(* which one has a uuid, and, later in the listing, one with rows that a     *)
(* table rejects.                                                            *)
EXTENDS S3Import

CONSTANTS f1, late, named, unnamed, r1, r2

MCKey == [f \in Files |-> IF f = f1 THEN 1 ELSE 2]

MCTables ==
  [f \in Files |-> IF f = f1 THEN {"playstatistics"}
                             ELSE {"survey_responses"}]

MCRecordings == [f \in Files |-> IF f = f1 THEN {named, unnamed} ELSE {}]

\* cron's runs, and a re-import by hand.
MCModes == {{}, {"reimport"}}
=============================================================================
