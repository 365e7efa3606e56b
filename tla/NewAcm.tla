------------------------------- MODULE NewAcm --------------------------------
(***************************************************************************)
(* The command that sets up a program (new-acm.service.ts): the rows of    *)
(* its organisation, project, program, first deployment and checkout, in   *)
(* one transaction, the copy of the template's content in S3, and then the *)
(* publication of its specification (SpecPublish).                         *)
(*                                                                         *)
(* Each step first looks whether its work is done, over a connection of    *)
(* its own: it sees what is committed, not what its own transaction has    *)
(* written.  A step that cannot go on returns false, which commits what    *)
(* the steps before it have written; an exception rolls it back.  The      *)
(* operator runs a command again until it succeeds.  A dry run changes     *)
(* nothing and is left out.                                                *)
(*                                                                         *)
(*  organisation -> project -> program -> list -> copy -> checkout         *)
(*               -> commit -> publish -> done                              *)
(***************************************************************************)
EXTENDS Integers, FiniteSets

CONSTANTS
  Commands,
  Organisations, Programs,
  Known,        \* organisations that exist at first
  Template,     \* objects below template/ (the first page S3 lists)
  Test,         \* the program that new ones are made from
  Asks,         \* what the commands may be asked
  MaxFaults,    \* bound: exceptions in all
  None

ASSUME NewAcmAssumption ==
  /\ Asks \subseteq [Commands -> [program : Programs, organisation : Organisations,
                                  parent : Organisations \cup {None}]]
  /\ IsFiniteSet(Commands)
  /\ Known \subseteq Organisations /\ Test \notin Programs \cup {None}
  /\ None \notin Programs \cup Organisations
  /\ MaxFaults \in Nat

VARIABLES
  ask,
  at,
  tx,          \* the keys of the rows its transaction has inserted
  id,          \* the id it has chosen for the program
  todo,        \* the objects it has yet to copy
  db,          \* keys of the committed rows, but for those of programs
  prog,        \* programs: the code with an id, or None
  links,       \* organisation_programs: <<id, organisation>>
  content,     \* objects of each program in S3
  published,
  faults,
  cut,         \* history: programs whose copy once broke off
  choseTogether, \* history: two commands chose an id at a time
  overwritten  \* history: programs whose row was given to another

memory == <<tx, id, todo>>
records == <<db, prog, links, overwritten>>
bucket == <<content, published, cut>>
setupVars == <<ask, at, memory, records, bucket, faults, choseTogether>>

Ids == 1 .. 2 * Cardinality(Commands) + 1
Tables == {"organisation", "project", "program", "deployment", "checkout", "id"}
Stages == {"idle", "organisation", "new organisation", "project",
           "new project", "program", "max", "save", "insert", "update", "list",
           "copy", "checkout", "new checkout", "commit", "give up", "publish",
           "done", "stopped", "failed"}

SetupTypeOK ==
  /\ ask \in Asks /\ at \in [Commands -> Stages]
  /\ \A c \in Commands : \A k \in tx[c] : k[1] \in Tables
  /\ id \in [Commands -> Ids \cup {0}]
  /\ todo \in [Commands -> SUBSET Template]
  /\ \A k \in db : k[1] \in Tables
  /\ prog \in [Ids -> Programs \cup {Test, None}]
  /\ links \subseteq Ids \X Organisations
  /\ content \in [Programs -> SUBSET Template] /\ published \subseteq Programs
  /\ faults \in 0 .. MaxFaults
  /\ cut \subseteq Programs /\ overwritten \subseteq Programs

SetupInit ==
  /\ ask \in Asks
  /\ at = [c \in Commands |-> "idle"]
  /\ tx = [c \in Commands |-> {}] /\ id = [c \in Commands |-> 0]
  /\ todo = [c \in Commands |-> {}]
  /\ db = {<<"organisation", o>> : o \in Known}
  /\ prog = [n \in Ids |-> IF n = 1 THEN Test ELSE None]
  /\ links = {} /\ content = [p \in Programs |-> {}] /\ published = {}
  /\ faults = 0 /\ cut = {} /\ choseTogether = FALSE /\ overwritten = {}

\* The committed keys, those of programs included.
StoredKeys ==
  db \cup {<<"id", n>> : n \in {m \in Ids : prog[m] # None}}
     \cup {<<"program", prog[n]>> : n \in Ids}

GoTo(c, s) == at' = [at EXCEPT ![c] = s]

\* An exception: Postgres undoes the transaction.
RollBack(c) ==
  /\ GoTo(c, "failed") /\ tx' = [tx EXCEPT ![c] = {}]
  /\ id' = [id EXCEPT ![c] = 0] /\ todo' = [todo EXCEPT ![c] = {}]

\* An insert waits for a transaction that has inserted the same key, and
\* raises if the key is there.
InsertKeys(c, keys, next) ==
  /\ \A d \in Commands \ {c} : keys \cap tx[d] = {}
  /\ IF keys \cap StoredKeys # {} THEN RollBack(c)
     ELSE /\ GoTo(c, next) /\ tx' = [tx EXCEPT ![c] = @ \cup keys]
          /\ UNCHANGED <<id, todo>>

\* A step that finds its row goes on, another writes it first.
Look(c, table, key, next, new) ==
  /\ at[c] = table
  /\ GoTo(c, IF <<table, key>> \in StoredKeys THEN next ELSE new)
  /\ UNCHANGED <<ask, memory, records, bucket, faults, choseTogether>>

Write(c, stage, keys, next) ==
  /\ at[c] = stage /\ InsertKeys(c, keys, next)
  /\ UNCHANGED <<ask, records, bucket, faults, choseTogether>>

Code(c) == ask[c].program

-----------------------------------------------------------------------------
Begin(c) ==
  /\ at[c] = "idle" /\ GoTo(c, "organisation")
  /\ UNCHANGED <<ask, memory, records, bucket, faults, choseTogether>>

\* createOrganisationRecord: an unknown parent ends the run.
Organisation(c) ==
  Look(c, "organisation", ask[c].organisation, "project",
       IF ask[c].parent = None \/ <<"organisation", ask[c].parent>> \in db
       THEN "new organisation" ELSE "give up")

NewOrganisation(c) ==
  Write(c, "new organisation", {<<"organisation", ask[c].organisation>>},
        "project")

Project(c) == Look(c, "project", Code(c), "program", "new project")

NewProject(c) == Write(c, "new project", {<<"project", Code(c)>>}, "program")

\* createProgramRecords does not see the organisation if this run has made
\* it: the run ends, and the next one gets on.
Program(c) ==
  LET ready == <<"organisation", ask[c].organisation>> \in db
               /\ <<"program", Test>> \in StoredKeys IN
  Look(c, "program", Code(c), IF ready THEN "list" ELSE "give up",
       IF ready THEN "max" ELSE "give up")

Max(S) == CHOOSE n \in S : \A m \in S : m <= n

\* Mutant: the first id that is not the template's.
MaxIdFirst(c) ==
  /\ at[c] = "max" /\ GoTo(c, "save")
  /\ id' = [id EXCEPT ![c] = 2]
  /\ choseTogether' = (choseTogether \/ \E d \in Commands : id[d] # 0)
  /\ UNCHANGED <<ask, tx, todo, records, bucket, faults>>

\* SELECT MAX(id) FROM programs, plus one.
MaxId(c) ==
  /\ at[c] = "max" /\ GoTo(c, "save")
  /\ id' = [id EXCEPT ![c] = Max({n \in Ids : prog[n] # None}) + 1]
  /\ choseTogether' = (choseTogether \/ \E d \in Commands : id[d] # 0)
  /\ UNCHANGED <<ask, tx, todo, records, bucket, faults>>

\* save looks the id up: a row that has it is updated.
SaveProgram(c) ==
  /\ at[c] = "save"
  /\ GoTo(c, IF prog[id[c]] = None THEN "insert" ELSE "update")
  /\ UNCHANGED <<ask, memory, records, bucket, faults, choseTogether>>

\* The program, its link to the organisation, and its first deployment.
InsertProgram(c) ==
  Write(c, "insert",
        {<<"program", Code(c)>>, <<"id", id[c]>>, <<"deployment", Code(c)>>},
        "list")

\* An update of another program's row makes it this one's.
UpdateProgram(c) ==
  /\ \A d \in Commands \ {c} : <<"id", id[c]>> \notin tx[d]
  /\ Write(c, "update", {<<"program", Code(c)>>, <<"deployment", Code(c)>>},
           "list")

\* create_and_populate_s3_object: any object below the code counts as all.
List(c) ==
  /\ at[c] = "list"
  /\ IF content[Code(c)] # {}
     THEN GoTo(c, "checkout") /\ UNCHANGED todo
     ELSE GoTo(c, "copy") /\ todo' = [todo EXCEPT ![c] = Template]
  /\ UNCHANGED <<ask, tx, id, records, bucket, faults, choseTogether>>

\* Mutant: an object that cannot be copied is passed over.
CopyAll(c) ==
  /\ at[c] = "copy"
  /\ IF todo[c] = {}
     THEN GoTo(c, "checkout") /\ UNCHANGED <<todo, content>>
     ELSE \E x \in todo[c] :
            /\ content' \in {[content EXCEPT ![Code(c)] = @ \cup {x}], content}
            /\ todo' = [todo EXCEPT ![c] = @ \ {x}]
            /\ UNCHANGED at
  /\ UNCHANGED <<ask, tx, id, records, published, cut, faults, choseTogether>>

Copy(c) ==
  /\ at[c] = "copy"
  /\ IF todo[c] = {}
     THEN GoTo(c, "checkout") /\ UNCHANGED <<todo, content>>
     ELSE \E x \in todo[c] :
            /\ content' = [content EXCEPT ![Code(c)] = @ \cup {x}]
            /\ todo' = [todo EXCEPT ![c] = @ \ {x}]
            /\ UNCHANGED at
  /\ UNCHANGED <<ask, tx, id, records, published, cut, faults, choseTogether>>

Checkout(c) == Look(c, "checkout", Code(c), "commit", "new checkout")

NewCheckout(c) == Write(c, "new checkout", {<<"checkout", Code(c)>>}, "commit")

\* Mutant: a run that cannot go on leaves no rows.
CommitDone(c) ==
  LET keep == at[c] = "commit"
      made == keep /\ <<"program", Code(c)>> \in tx[c] IN
  /\ at[c] \in {"commit", "give up"}
  /\ GoTo(c, IF keep THEN "publish" ELSE "stopped")
  /\ db' = IF keep THEN db \cup {k \in tx[c] : k[1] \notin {"program", "id"}}
           ELSE db
  /\ prog' = IF made THEN [prog EXCEPT ![id[c]] = Code(c)] ELSE prog
  /\ links' = IF made THEN links \cup {<<id[c], ask[c].organisation>>} ELSE links
  /\ overwritten' = IF made /\ prog[id[c]] \in Programs
                    THEN overwritten \cup {prog[id[c]]} ELSE overwritten
  /\ tx' = [tx EXCEPT ![c] = {}] /\ id' = [id EXCEPT ![c] = 0]
  /\ todo' = [todo EXCEPT ![c] = {}]
  /\ UNCHANGED <<ask, bucket, faults, choseTogether>>

\* createAcm: the transaction commits whether or not all steps were done.
Commit(c) ==
  LET made == <<"program", Code(c)>> \in tx[c] IN
  /\ at[c] \in {"commit", "give up"}
  /\ GoTo(c, IF at[c] = "commit" THEN "publish" ELSE "stopped")
  /\ db' = db \cup {k \in tx[c] : k[1] \notin {"program", "id"}}
  /\ prog' = IF made THEN [prog EXCEPT ![id[c]] = Code(c)] ELSE prog
  /\ links' = IF made THEN links \cup {<<id[c], ask[c].organisation>>} ELSE links
  /\ overwritten' = IF made /\ prog[id[c]] \in Programs
                    THEN overwritten \cup {prog[id[c]]} ELSE overwritten
  /\ tx' = [tx EXCEPT ![c] = {}] /\ id' = [id EXCEPT ![c] = 0]
  /\ todo' = [todo EXCEPT ![c] = {}]
  /\ UNCHANGED <<ask, bucket, faults, choseTogether>>

Publish(c) ==
  /\ at[c] = "publish" /\ GoTo(c, "done")
  /\ published' = published \cup {Code(c)}
  /\ UNCHANGED <<ask, memory, records, content, cut, faults, choseTogether>>

-----------------------------------------------------------------------------
\* An exception ends a run.  One while the content is copied is caught and
\* returns false; the process may also be stopped there.
Fault(c) ==
  /\ at[c] \notin {"idle", "done", "stopped", "failed"}
  /\ faults < MaxFaults /\ faults' = faults + 1
  /\ \/ RollBack(c)
     \/ at[c] = "copy" /\ GoTo(c, "give up") /\ UNCHANGED memory
  /\ cut' = IF at[c] = "copy" THEN cut \cup {Code(c)} ELSE cut
  /\ UNCHANGED <<ask, records, content, published, choseTogether>>

Rerun(c) ==
  /\ at[c] \in {"stopped", "failed"} /\ GoTo(c, "idle")
  /\ UNCHANGED <<ask, memory, records, bucket, faults, choseTogether>>

Step(c) ==
  \/ Begin(c) \/ Organisation(c) \/ NewOrganisation(c) \/ Project(c)
  \/ NewProject(c) \/ Program(c) \/ MaxId(c) \/ SaveProgram(c)
  \/ InsertProgram(c) \/ UpdateProgram(c) \/ List(c) \/ Copy(c)
  \/ Checkout(c) \/ NewCheckout(c) \/ Commit(c) \/ Publish(c) \/ Rerun(c)

SetupNext == \E c \in Commands : Step(c) \/ Fault(c)

SetupSpec == SetupInit /\ [][SetupNext]_setupVars

\* A command goes on, and the operator runs it again.
FairSetupSpec == SetupSpec /\ \A c \in Commands : WF_setupVars(Step(c))

-----------------------------------------------------------------------------
(* Properties.                                                             *)

\* A program that can be checked out has all that the ACM needs, whichever
\* runs have made it: its project, its first deployment, its row with a link
\* to an organisation, and the whole template.  Excepted are a program whose
\* row a concurrent command has taken, and content whose copy once broke off,
\* or is under way: the next run takes it to be complete (292-355).
CheckoutIsUsable ==
  \A p \in Programs :
    <<"checkout", p>> \in db =>
      /\ {<<"project", p>>, <<"deployment", p>>} \subseteq db
      /\ \/ p \in overwritten
         \/ \E l \in links : prog[l[1]] = p /\ <<"organisation", l[2]>> \in db
      /\ \/ content[p] = Template \/ p \in cut
         \/ \E c \in Commands : at[c] = "copy" /\ Code(c) = p

\* The id is chosen outside the transaction (190-196), and a save with an id
\* that is there updates its row: one program becomes another, which the
\* organisation of the first is then linked to.  That takes two commands that
\* choose their ids at a time.
ProgramsStayApart ==
  choseTogether \/
    /\ overwritten = {}
    /\ \A l \in links : \E c \in Commands :
         prog[l[1]] = Code(c) /\ l[2] = ask[c].organisation

\* However often it fails, a command that is run again until it succeeds is
\* done in the end: what a failed run has committed or copied never stands in
\* the way of the next (75-99).  A new organisation takes two runs.  Only a
\* program whose row another command has taken cannot be set up again: its
\* first deployment is there already, and has a unique name.
EventuallyDone ==
  \A c \in Commands : <>(at[c] = "done" \/ Code(c) \in overwritten)

=============================================================================
