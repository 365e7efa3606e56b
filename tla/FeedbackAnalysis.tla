-------------------------- MODULE FeedbackAnalysis --------------------------
(***************************************************************************)
(* Analysis of user feedback (src/src/userfeedback/analysis and            *)
(* uf-messages).  Analysts are handed messages nobody has analysed for a   *)
(* survey and post a form with their answers, which is saved row by row    *)
(* without a transaction:                                                  *)
(*                                                                         *)
(*   Post --> SaveMessage --> (FindAnswer --> SaveAnswer                   *)
(*              --> (FindChoice --> SaveChoice) per option) per question   *)
(*                                                                         *)
(* Another request deletes submissions.  A save() is one step: an UPDATE   *)
(* that is not made because the second reading shows the values already    *)
(* might as well have been made at that reading.                           *)
(*                                                                         *)
(* Left out: transcriptions, times, and edits of the survey meanwhile.     *)
(***************************************************************************)
EXTENDS Integers, Sequences

CONSTANTS
  Messages,     \* user feedback of one program, deployment and language
  Questions,    \* of the survey
  Options,      \* ids of the rows of uf_choices
  Submissions,  \* forms that may be posted
  Requests,     \* posted forms and deletions
  None

\* A question and the options chosen, a single choice before its sub-choice.
Item == [question : Questions, options : Seq(Options)]
Submission == [useless : BOOLEAN, items : Seq(Item)]

ASSUME OptionsAssumption == Options \subseteq Nat \ {0}
ASSUME SubmissionsAssumption == Submissions \subseteq Submission
ASSUME NoneAssumption == None \notin Messages \cup Requests

\* An option is one of one question (uf_choice.entity.ts:34).
ASSUME OptionOfOneQuestion ==
  \A s \in Submissions : \A n, m \in DOMAIN s.items :
    s.items[n].question # s.items[m].question =>
      \A k \in DOMAIN s.items[n].options, l \in DOMAIN s.items[m].options :
        s.items[n].options[k] # s.items[m].options[l]

VARIABLES
  useless,  \* messages marked as useless
  answers,  \* rows of uf_analysis, each at its id
  choices,  \* rows of uf_analysis_choices, each at its id
  phase,    \* request -> the statement it runs next
  message,  \* request -> the message its form is about
  form,     \* request -> the form
  item,     \* request -> questions whose answer it has saved
  option,   \* request -> options of the last of them that it has saved
  answer,   \* request -> id of the answer it works on, 0: a new one
  choice,   \* request -> id of the choice it has found, 0: none
  todo,     \* request -> ids of answers it has yet to delete
  before    \* history: request -> those that had ended when it began

process == <<phase, message, form, item, option, answer, choice, todo, before>>
vars == <<useless, answers, choices, process>>

Answer == [message : Messages, question : Questions, by : Requests,
           deletedBy : Requests \cup {None}]
Choice == [answer : Nat \ {0}, option : Options]

Phases == {"new", "message", "find", "answer", "option", "choice", "delete",
           "choices", "done", "failed"}
Ended == {"done", "failed"}

EmptyForm == [useless |-> FALSE, items |-> <<>>]

TypeOK ==
  /\ useless \in SUBSET Messages
  /\ answers \in Seq(Answer)
  /\ choices \in Seq(Choice)
  /\ \A k \in DOMAIN choices : choices[k].answer \in DOMAIN answers
  /\ phase \in [Requests -> Phases]
  /\ message \in [Requests -> Messages \cup {None}]
  /\ form \in [Requests -> Submission]
  /\ item \in [Requests -> Nat]
  /\ option \in [Requests -> Nat]
  /\ answer \in [Requests -> Nat]
  /\ choice \in [Requests -> Nat]
  /\ todo \in [Requests -> SUBSET Nat]
  /\ before \in [Requests -> SUBSET Requests]
  /\ \A r \in Requests : answer[r] \in {0} \cup DOMAIN answers

Init ==
  /\ useless = {}
  /\ answers = <<>>
  /\ choices = <<>>
  /\ phase = [r \in Requests |-> "new"]
  /\ message = [r \in Requests |-> None]
  /\ form = [r \in Requests |-> EmptyForm]
  /\ item = [r \in Requests |-> 0]
  /\ option = [r \in Requests |-> 0]
  /\ answer = [r \in Requests |-> 0]
  /\ choice = [r \in Requests |-> 0]
  /\ todo = [r \in Requests |-> {}]
  /\ before = [r \in Requests |-> {}]

Live(i) == answers[i].deletedBy = None

-----------------------------------------------------------------------------
\* Mutant: deleted answers do not count.
AnsweredLive(m) == \E i \in DOMAIN answers : answers[i].message = m /\ Live(i)

\* The subquery is written in SQL, so that deleted rows count.
Answered(m) == \E i \in DOMAIN answers : answers[i].message = m

\* The messages getMessage chooses from.
Available(m) == m \notin useless /\ ~ Answered(m)

\* updates is_useless without looking at anything.
NotFeedback(m) ==
  /\ useless' = useless \cup {m}
  /\ UNCHANGED <<answers, choices, process>>

Goto(r, to) == phase' = [phase EXCEPT ![r] = to]

Begin(r, to) ==
  /\ phase[r] = "new"
  /\ Goto(r, to)
  /\ before' = [before EXCEPT ![r] = {q \in Requests : phase[q] \in Ended}]

\* The survey and the message exist.
Post(r, m, s) ==
  /\ Begin(r, "message")
  /\ message' = [message EXCEPT ![r] = m]
  /\ form' = [form EXCEPT ![r] = s]
  /\ UNCHANGED <<useless, answers, choices, item, option, answer, choice, todo>>

\* The statement after the n-th answer with all its choices.
Continue(r, n) == Goto(r, IF n = Len(form[r].items) THEN "done" ELSE "find")

SaveMessage(r) ==
  /\ phase[r] = "message"
  /\ IF form[r].useless
     THEN useless' = useless \cup {message[r]} /\ Goto(r, "done")
     ELSE useless' = useless \ {message[r]} /\ Continue(r, 0)
  /\ UNCHANGED <<answers, choices, message, form, item, option, answer, choice,
                 todo, before>>

\* Mutants: a lookup that finds nothing, and one that finds deleted rows.
FoundNever(m, q) == {}

FoundDeleted(m, q) ==
  {i \in DOMAIN answers : answers[i].message = m /\ answers[i].question = q}

\* Analysis.findOne sees no deleted rows.
Found(m, q) ==
  {i \in DOMAIN answers :
     answers[i].message = m /\ answers[i].question = q /\ Live(i)}

Current(r) == form[r].items[item[r] + 1]

FindAnswer(r) ==
  LET found == Found(message[r], Current(r).question) IN
  /\ phase[r] = "find"
  /\ Goto(r, "answer")
  /\ \/ \E i \in found : answer' = [answer EXCEPT ![r] = i]
     \/ found = {} /\ answer' = [answer EXCEPT ![r] = 0]
  /\ UNCHANGED <<useless, answers, choices, message, form, item, option, choice,
                 todo, before>>

\* The row a request saves: deleted_at is null in the entity as well.
Saved(r) == [message |-> message[r], question |-> Current(r).question,
             by |-> r, deletedBy |-> None]

RowId(r) == IF answer[r] = 0 THEN Len(answers) + 1 ELSE answer[r]

SaveAnswer(r) ==
  /\ phase[r] = "answer"
  /\ answers' = IF answer[r] = 0 THEN Append(answers, Saved(r))
                ELSE [answers EXCEPT ![answer[r]] = Saved(r)]
  /\ answer' = [answer EXCEPT ![r] = RowId(r)]
  /\ item' = [item EXCEPT ![r] = @ + 1]
  /\ option' = [option EXCEPT ![r] = 0]
  /\ IF Current(r).options = <<>> THEN Continue(r, item[r] + 1)
     ELSE Goto(r, "option")
  /\ UNCHANGED <<useless, choices, message, form, choice, todo, before>>

\* The options of the answer that has been saved, and the next one.
Chosen(r) == form[r].items[item[r]].options
NextOption(r) == Chosen(r)[option[r] + 1]

\* Not a choice of this answer: the row whose own id is that of the option.
FindChoice(r) ==
  /\ phase[r] = "option"
  /\ Goto(r, "choice")
  /\ choice' = [choice EXCEPT ![r] = IF NextOption(r) \in DOMAIN choices
                                     THEN NextOption(r) ELSE 0]
  /\ UNCHANGED <<useless, answers, choices, message, form, item, option, answer,
                 todo, before>>

\* Mutant: a row that was found keeps its option.
WrittenKeeping(r, row) ==
  [answer |-> answer[r],
   option |-> IF choice[r] = 0 THEN NextOption(r) ELSE row.option]

Written(r, row) == [answer |-> answer[r], option |-> NextOption(r)]

SaveChoice(r) ==
  /\ phase[r] = "choice"
  /\ choices' = IF choice[r] = 0 THEN Append(choices, Written(r, None))
                ELSE [choices EXCEPT ![choice[r]] = Written(r, @)]
  /\ option' = [option EXCEPT ![r] = @ + 1]
  /\ IF option[r] + 1 = Len(Chosen(r)) THEN Continue(r, item[r])
     ELSE Goto(r, "option")
  /\ UNCHANGED <<useless, answers, message, form, item, answer, choice, todo,
                 before>>

\* deleteSubmission names a message, and takes every answer to the survey.
BeginDelete(r) ==
  LET found == {i \in DOMAIN answers : Live(i)} IN
  /\ Begin(r, IF found = {} THEN "done" ELSE "delete")
  /\ todo' = [todo EXCEPT ![r] = found]
  /\ UNCHANGED <<useless, answers, choices, message, form, item, option, answer,
                 choice>>

Remove(r, i) ==
  /\ phase[r] = "delete"
  /\ Goto(r, "choices")
  /\ answers' = [answers EXCEPT ![i].deletedBy = r]
  /\ answer' = [answer EXCEPT ![r] = i]
  /\ todo' = [todo EXCEPT ![r] = @ \ {i}]
  /\ UNCHANGED <<useless, choices, message, form, item, option, choice, before>>

\* Choices have no column for a soft deletion: with any, softRemove throws.
RemoveChoices(r) ==
  /\ phase[r] = "choices"
  /\ Goto(r, IF \E k \in DOMAIN choices : choices[k].answer = answer[r]
             THEN "failed"
             ELSE IF todo[r] = {} THEN "done" ELSE "delete")
  /\ UNCHANGED <<useless, answers, choices, message, form, item, option, answer,
                 choice, todo, before>>

\* A statement throws, or the process stops.
Fail(r) ==
  /\ phase[r] \notin Ended \cup {"new"}
  /\ Goto(r, "failed")
  /\ UNCHANGED <<useless, answers, choices, message, form, item, option, answer,
                 choice, todo, before>>

Step(r) ==
  \/ \E m \in Messages, s \in Submissions : Post(r, m, s)
  \/ SaveMessage(r)
  \/ FindAnswer(r)
  \/ SaveAnswer(r)
  \/ FindChoice(r)
  \/ SaveChoice(r)
  \/ BeginDelete(r)
  \/ \E i \in todo[r] : Remove(r, i)
  \/ RemoveChoices(r)
  \/ Fail(r)

Next ==
  \/ \E m \in Messages : NotFeedback(m)
  \/ \E r \in Requests : Step(r)

Spec == Init /\ [][Next]_vars

-----------------------------------------------------------------------------
\* Two forms about one message of which neither had been dealt with when the
\* other was posted.
Overlap(q, r) ==
  /\ q # r /\ message[q] = message[r] /\ message[r] # None
  /\ q \notin before[r] /\ r \notin before[q]

\* A message has one answer to a question, however often its form is posted,
\* fails or is deleted, unless two forms about it overlapped: the row is
\* looked up without a lock (analysis.service.ts:151-169).
OneAnswerEach ==
  \A i, j \in DOMAIN answers :
    /\ i # j /\ Live(i) /\ Live(j)
    /\ answers[i].message = answers[j].message
    /\ answers[i].question = answers[j].question
    => \E q, r \in Requests :
         Overlap(q, r) /\ message[r] = answers[i].message

\* A message with which a request has got as far as an answer is not handed
\* out again, not even if that request failed or its answers were deleted;
\* one that was found useless, only if another form about it was saved at the
\* same time or since (analysis.service.ts:62-66 and 140).
DoneIsNotHandedOut ==
  \A m \in Messages : Available(m) =>
    \A r \in Requests : message[r] = m =>
      /\ item[r] = 0
      /\ phase[r] = "done" /\ form[r].useless =>
           \E q \in Requests :
             message[q] = m /\ ~ form[q].useless /\ q \notin before[r]

\* An answer that was deleted comes back only by a form whose answers were
\* being saved while it was deleted: save() writes back the deleted_at it
\* has read (analysis.service.ts:152-169).
DeletedStaysDeleted ==
  [][\A i \in DOMAIN answers :
       ~ Live(i) /\ answers'[i].deletedBy = None =>
         \E r \in Requests :
           /\ phase[r] = "answer" /\ answer[r] = i
           /\ answers[i].deletedBy \notin before[r]
           /\ r \notin before[answers[i].deletedBy]]_vars

\* The options a form chose.
OptionsOf(s) ==
  UNION {{s.items[k].options[n] : n \in DOMAIN s.items[k].options} :
         k \in DOMAIN s.items}

\* When a form is saved and no other one was posted since it began, each
\* option it chose is stored with its answer, except those whose row was
\* taken for another option of the form that has the id of the row
\* (analysis.service.ts:113).
ChoicesStored ==
  \A r \in Requests :
    /\ phase[r] = "done" /\ ~ form[r].useless
    /\ \A q \in Requests \ {r} : message[q] # None => q \in before[r]
    => \A n \in DOMAIN form[r].items :
         LET question == form[r].items[n].question
             options == form[r].items[n].options
         IN \A k \in DOMAIN options :
              \/ \E c \in DOMAIN choices :
                   /\ choices[c].option = options[k]
                   /\ answers[choices[c].answer].message = message[r]
                   /\ answers[choices[c].answer].question = question
              \/ \E c \in DOMAIN choices :
                   /\ c # options[k] /\ c \in OptionsOf(form[r])
                   /\ choices[c].option = c
                   /\ answers[choices[c].answer].by = r
=============================================================================
