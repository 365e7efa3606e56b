---------------------- MODULE FeedbackAnalysis_proofs ----------------------
(***************************************************************************)
(* Theorems about FeedbackAnalysis for any messages, questions, forms and  *)
(* number of requests.                                                     *)
(***************************************************************************)
EXTENDS FeedbackAnalysis, TLAPS

\* How far a request in each phase has got.
PhaseInv ==
  \A r \in Requests :
    /\ phase[r] \in {"message", "find", "answer", "option", "choice"}
         => message[r] \in Messages
    /\ phase[r] \in {"new", "message"} => item[r] = 0
    /\ phase[r] \in {"new", "delete", "choices"} => message[r] = None
    /\ phase[r] \in {"find", "answer"} => item[r] < Len(form[r].items)
    /\ phase[r] \in {"option", "choice"} =>
         /\ item[r] \in 1 .. Len(form[r].items)
         /\ option[r] < Len(Chosen(r))
         /\ answer[r] \in DOMAIN answers
    /\ phase[r] = "choice" => choice[r] \in {0} \cup DOMAIN choices
    /\ todo[r] \subseteq DOMAIN answers

TInv == TypeOK /\ PhaseInv

-----------------------------------------------------------------------------
\* What appending to a table does.
LEMMA AppendFacts ==
  ASSUME NEW S, NEW s \in Seq(S), NEW x \in S
  PROVE  /\ Append(s, x) \in Seq(S)
         /\ DOMAIN Append(s, x) = DOMAIN s \cup {Len(s) + 1}
         /\ Append(s, x)[Len(s) + 1] = x
         /\ \A i \in DOMAIN s : Append(s, x)[i] = s[i]
         /\ Len(s) + 1 \in Nat \ {0}
         /\ Len(s) + 1 \notin DOMAIN s
  OBVIOUS

\* What writing over a row of a table does.
LEMMA ReplaceFacts ==
  ASSUME NEW S, NEW s \in Seq(S), NEW i \in DOMAIN s, NEW x \in S
  PROVE  /\ [s EXCEPT ![i] = x] \in Seq(S)
         /\ DOMAIN [s EXCEPT ![i] = x] = DOMAIN s
         /\ [s EXCEPT ![i] = x][i] = x
         /\ \A j \in DOMAIN s : j # i => [s EXCEPT ![i] = x][j] = s[j]
         /\ i \in Nat \ {0}
  OBVIOUS

\* Each element of a form has its type.
LEMMA ItemType ==
  ASSUME TypeOK, NEW r \in Requests, NEW n \in 1 .. Len(form[r].items)
  PROVE  /\ form[r].items[n] \in Item
         /\ form[r].items[n].question \in Questions
         /\ form[r].items[n].options \in Seq(Options)
<1>1. form[r] \in Submission
  BY DEF TypeOK
<1>2. form[r].items \in Seq(Item)
  BY <1>1 DEF Submission
<1>3. form[r].items[n] \in Item
  BY <1>2
<1>4. QED
  BY <1>3 DEF Item

\* A request that goes on to another phase.
LEMMA GotoFacts ==
  ASSUME TypeOK, NEW r \in Requests, NEW to \in Phases, Goto(r, to)
  PROVE  /\ phase' \in [Requests -> Phases]
         /\ phase'[r] = to
         /\ \A q \in Requests \ {r} : phase'[q] = phase[q]
  BY DEF TypeOK, Goto

\* The row a request saves has its type.
LEMMA SavedType ==
  ASSUME TInv, NEW r \in Requests, phase[r] = "answer"
  PROVE  /\ Current(r) \in Item
         /\ Current(r).question \in Questions
         /\ Current(r).options \in Seq(Options)
         /\ Saved(r) \in Answer
<1>1. item[r] + 1 \in 1 .. Len(form[r].items)
  <2>1. form[r].items \in Seq(Item)
    BY DEF TInv, TypeOK, Submission
  <2>2. QED
    BY <2>1 DEF TInv, TypeOK, PhaseInv
<1>2. /\ Current(r) \in Item
      /\ Current(r).question \in Questions
      /\ Current(r).options \in Seq(Options)
  BY <1>1, ItemType DEF TInv, Current
<1>3. message[r] \in Messages
  BY DEF TInv, PhaseInv
<1>4. QED
  BY <1>2, <1>3 DEF Saved, Answer

LEMMA InitTInv == Init => TInv
<1> SUFFICES ASSUME Init PROVE TInv
  OBVIOUS
<1>1. EmptyForm \in Submission
  BY DEF EmptyForm, Submission
<1>2. TypeOK
  BY <1>1 DEF Init, TypeOK, Phases
<1>3. PhaseInv
  BY DEF Init, PhaseInv
<1>4. QED
  BY <1>2, <1>3 DEF TInv

-----------------------------------------------------------------------------
(* Types, action by action.                                                *)

LEMMA PostTInv ==
  ASSUME TInv, NEW r \in Requests, NEW m \in Messages, NEW s \in Submissions,
         Post(r, m, s)
  PROVE  TInv'
<1>1. /\ phase' \in [Requests -> Phases] /\ phase'[r] = "message"
      /\ \A q \in Requests \ {r} : phase'[q] = phase[q]
  BY GotoFacts DEF TInv, Post, Begin, Phases
<1>2. s \in Submission
  BY SubmissionsAssumption
<1>3. /\ message' \in [Requests -> Messages \cup {None}]
      /\ form' \in [Requests -> Submission]
      /\ before' \in [Requests -> SUBSET Requests]
  BY <1>2 DEF TInv, TypeOK, Post, Begin
<1>4. /\ message'[r] = m /\ form'[r] = s
      /\ \A q \in Requests \ {r} : message'[q] = message[q] /\ form'[q] = form[q]
      /\ phase[r] = "new"
  BY DEF TInv, TypeOK, Post, Begin
<1>5. TypeOK'
  BY <1>1, <1>3 DEF TInv, TypeOK, Post
<1>6. PhaseInv'
  BY <1>1, <1>4 DEF TInv, TypeOK, PhaseInv, Post, Chosen
<1>7. QED
  BY <1>5, <1>6 DEF TInv

LEMMA SaveMessageTInv ==
  ASSUME TInv, NEW r \in Requests, SaveMessage(r)
  PROVE  TInv'
<1>1. PICK to \in {"done", "find"} :
        /\ Goto(r, to)
        /\ to = "find" => Len(form[r].items) # 0
  BY DEF SaveMessage, Continue
<1>2. /\ phase' \in [Requests -> Phases] /\ phase'[r] = to
      /\ \A q \in Requests \ {r} : phase'[q] = phase[q]
  BY <1>1, GotoFacts DEF TInv, Phases
<1>3. message[r] \in Messages /\ item[r] = 0 /\ form[r].items \in Seq(Item)
  BY DEF TInv, TypeOK, PhaseInv, SaveMessage, Submission
<1>4. useless' \in SUBSET Messages
  BY <1>3 DEF TInv, TypeOK, SaveMessage
<1>5. TypeOK'
  BY <1>2, <1>4 DEF TInv, TypeOK, SaveMessage
<1>6. PhaseInv'
  BY <1>1, <1>2, <1>3 DEF TInv, TypeOK, PhaseInv, SaveMessage, Chosen
<1>7. QED
  BY <1>5, <1>6 DEF TInv

LEMMA FindAnswerTInv ==
  ASSUME TInv, NEW r \in Requests, FindAnswer(r)
  PROVE  TInv'
<1>1. /\ phase' \in [Requests -> Phases] /\ phase'[r] = "answer"
      /\ \A q \in Requests \ {r} : phase'[q] = phase[q]
  BY GotoFacts DEF TInv, FindAnswer, Phases
<1>2. PICK i \in {0} \cup DOMAIN answers :
        answer' = [answer EXCEPT ![r] = i]
  BY DEF FindAnswer, Found
<1>3. DOMAIN answers \subseteq Nat
  BY DEF TInv, TypeOK
<1>4. /\ answer' \in [Requests -> Nat] /\ answer'[r] = i
      /\ \A q \in Requests \ {r} : answer'[q] = answer[q]
  BY <1>2, <1>3 DEF TInv, TypeOK
<1>5. TypeOK'
  BY <1>1, <1>4 DEF TInv, TypeOK, FindAnswer
<1>6. PhaseInv'
  BY <1>1, <1>4 DEF TInv, TypeOK, PhaseInv, FindAnswer, Chosen
<1>7. QED
  BY <1>5, <1>6 DEF TInv

\* The table of answers after a save: the ids stay and one may be added.
LEMMA SaveAnswerRows ==
  ASSUME TInv, NEW r \in Requests, SaveAnswer(r)
  PROVE  /\ answers' \in Seq(Answer)
         /\ RowId(r) \in Nat
         /\ DOMAIN answers' = DOMAIN answers \cup {RowId(r)}
         /\ answers'[RowId(r)] = Saved(r)
         /\ \A i \in DOMAIN answers : i # RowId(r) => answers'[i] = answers[i]
         /\ answer[r] = 0 => RowId(r) \notin DOMAIN answers
         /\ answer[r] # 0 => RowId(r) = answer[r]
<1>1. Saved(r) \in Answer /\ answers \in Seq(Answer)
  BY SavedType DEF TInv, TypeOK, SaveAnswer
<1>2. CASE answer[r] = 0
  <2>1. answers' = Append(answers, Saved(r)) /\ RowId(r) = Len(answers) + 1
    BY <1>2 DEF SaveAnswer, RowId
  <2>2. QED
    BY <1>1, <1>2, <2>1, AppendFacts
<1>3. CASE answer[r] # 0
  <2>1. /\ answer[r] \in DOMAIN answers /\ RowId(r) = answer[r]
        /\ answers' = [answers EXCEPT ![answer[r]] = Saved(r)]
    BY <1>3 DEF TInv, TypeOK, SaveAnswer, RowId
  <2>2. /\ answers' \in Seq(Answer) /\ DOMAIN answers' = DOMAIN answers
        /\ answers'[answer[r]] = Saved(r) /\ answer[r] \in Nat \ {0}
        /\ \A i \in DOMAIN answers : i # answer[r] => answers'[i] = answers[i]
    BY <1>1, <2>1, ReplaceFacts
  <2>3. QED
    BY <1>3, <2>1, <2>2
<1>4. QED
  BY <1>2, <1>3

LEMMA SaveAnswerTInv ==
  ASSUME TInv, NEW r \in Requests, SaveAnswer(r)
  PROVE  TInv'
<1>1. PICK to \in {"done", "find", "option"} :
        /\ Goto(r, to)
        /\ to = "find" => Len(form[r].items) # item[r] + 1
        /\ to = "option" => Current(r).options # <<>>
  BY DEF SaveAnswer, Continue
<1>2. /\ phase' \in [Requests -> Phases] /\ phase'[r] = to
      /\ \A q \in Requests \ {r} : phase'[q] = phase[q]
  BY <1>1, GotoFacts DEF TInv, Phases
<1>3. /\ form[r].items \in Seq(Item) /\ item[r] < Len(form[r].items)
      /\ Len(form[r].items) \in Nat /\ item[r] \in Nat
      /\ message[r] \in Messages
  BY DEF TInv, TypeOK, PhaseInv, SaveAnswer, Submission
<1>4. /\ item' \in [Requests -> Nat] /\ item'[r] = item[r] + 1
      /\ \A q \in Requests \ {r} : item'[q] = item[q]
      /\ option' \in [Requests -> Nat] /\ option'[r] = 0
      /\ \A q \in Requests \ {r} : option'[q] = option[q]
  BY DEF TInv, TypeOK, SaveAnswer
<1>5. /\ answer' \in [Requests -> Nat] /\ answer'[r] = RowId(r)
      /\ \A q \in Requests \ {r} : answer'[q] = answer[q]
  <2>1. RowId(r) \in Nat
    BY SaveAnswerRows
  <2>2. answer' = [answer EXCEPT ![r] = RowId(r)]
    BY DEF SaveAnswer
  <2>3. QED
    BY <2>1, <2>2 DEF TInv, TypeOK
<1>6. answers' \in Seq(Answer) /\ DOMAIN answers' = DOMAIN answers \cup {RowId(r)}
  BY SaveAnswerRows
<1>7. TypeOK'
  BY <1>2, <1>4, <1>5, <1>6 DEF TInv, TypeOK, SaveAnswer
<1>8. to = "option" => Len(Chosen(r)') > 0
  <2>1. Current(r).options \in Seq(Options)
    BY SavedType DEF SaveAnswer
  <2>2. Chosen(r)' = Current(r).options
    BY <1>4 DEF Chosen, Current, SaveAnswer
  <2>3. QED
    BY <1>1, <2>1, <2>2
<1>9. \A q \in Requests \ {r} : Chosen(q)' = Chosen(q)
  BY <1>4 DEF Chosen, SaveAnswer
<1>10. PhaseInv'
  BY <1>1, <1>2, <1>3, <1>4, <1>5, <1>6, <1>8, <1>9
     DEF TInv, TypeOK, PhaseInv, SaveAnswer
<1>11. QED
  BY <1>7, <1>10 DEF TInv

LEMMA FindChoiceTInv ==
  ASSUME TInv, NEW r \in Requests, FindChoice(r)
  PROVE  TInv'
<1>1. /\ phase' \in [Requests -> Phases] /\ phase'[r] = "choice"
      /\ \A q \in Requests \ {r} : phase'[q] = phase[q]
  BY GotoFacts DEF TInv, FindChoice, Phases
<1>2. PICK c \in {0} \cup DOMAIN choices :
        choice' = [choice EXCEPT ![r] = c]
  BY DEF FindChoice
<1>3. DOMAIN choices \subseteq Nat
  BY DEF TInv, TypeOK
<1>4. /\ choice' \in [Requests -> Nat] /\ choice'[r] = c
      /\ \A q \in Requests \ {r} : choice'[q] = choice[q]
  BY <1>2, <1>3 DEF TInv, TypeOK
<1>5. TypeOK'
  BY <1>1, <1>4 DEF TInv, TypeOK, FindChoice
<1>6. PhaseInv'
  BY <1>1, <1>4 DEF TInv, TypeOK, PhaseInv, FindChoice, Chosen
<1>7. QED
  BY <1>5, <1>6 DEF TInv

LEMMA SaveChoiceTInv ==
  ASSUME TInv, NEW r \in Requests, SaveChoice(r)
  PROVE  TInv'
<1>1. PICK to \in {"done", "find", "option"} :
        /\ Goto(r, to)
        /\ to = "find" => Len(form[r].items) # item[r]
        /\ to = "option" => option[r] + 1 # Len(Chosen(r))
  BY DEF SaveChoice, Continue
<1>2. /\ phase' \in [Requests -> Phases] /\ phase'[r] = to
      /\ \A q \in Requests \ {r} : phase'[q] = phase[q]
  BY <1>1, GotoFacts DEF TInv, Phases
<1>3. /\ form[r].items \in Seq(Item) /\ item[r] \in 1 .. Len(form[r].items)
      /\ option[r] < Len(Chosen(r)) /\ option[r] \in Nat
      /\ message[r] \in Messages /\ answer[r] \in DOMAIN answers
      /\ choice[r] \in {0} \cup DOMAIN choices
  BY DEF TInv, TypeOK, PhaseInv, SaveChoice, Submission
<1>4. Chosen(r) \in Seq(Options)
  BY <1>3, ItemType DEF TInv, Chosen
<1>5. NextOption(r) \in Options
  BY <1>3, <1>4 DEF NextOption
<1>6. answer[r] \in Nat \ {0}
  BY <1>3 DEF TInv, TypeOK
<1>7. \A row : Written(r, row) \in Choice /\ Written(r, row).answer = answer[r]
  BY <1>5, <1>6 DEF Written, Choice
<1>8. /\ choices' \in Seq(Choice)
      /\ DOMAIN choices \subseteq DOMAIN choices'
      /\ \A k \in DOMAIN choices' : choices'[k].answer \in DOMAIN answers
  <2>1. choices \in Seq(Choice)
    BY DEF TInv, TypeOK
  <2>2. \A k \in DOMAIN choices : choices[k].answer \in DOMAIN answers
    BY DEF TInv, TypeOK
  <2>3. CASE choice[r] = 0
    <3>1. choices' = Append(choices, Written(r, None))
      BY <2>3 DEF SaveChoice
    <3>2. QED
      BY <1>3, <1>7, <2>1, <2>2, <3>1, AppendFacts
  <2>4. CASE choice[r] # 0
    <3>1. /\ choice[r] \in DOMAIN choices
          /\ choices' = [choices EXCEPT ![choice[r]] =
                           Written(r, choices[choice[r]])]
      BY <1>3, <2>4 DEF SaveChoice
    <3>2. QED
      BY <1>3, <1>7, <2>1, <2>2, <3>1, ReplaceFacts
  <2>5. QED
    BY <2>3, <2>4
<1>9. /\ option' \in [Requests -> Nat] /\ option'[r] = option[r] + 1
      /\ \A q \in Requests \ {r} : option'[q] = option[q]
  BY DEF TInv, TypeOK, SaveChoice
<1>10. TypeOK'
  BY <1>2, <1>8, <1>9 DEF TInv, TypeOK, SaveChoice
<1>11. \A q \in Requests : Chosen(q)' = Chosen(q)
  BY DEF Chosen, SaveChoice
<1>12. Len(Chosen(r)) \in Nat
  BY <1>4
<1>13. PhaseInv'
  BY <1>1, <1>2, <1>3, <1>8, <1>9, <1>11, <1>12
     DEF TInv, TypeOK, PhaseInv, SaveChoice
<1>14. QED
  BY <1>10, <1>13 DEF TInv

LEMMA BeginDeleteTInv ==
  ASSUME TInv, NEW r \in Requests, BeginDelete(r)
  PROVE  TInv'
<1>1. PICK to \in {"done", "delete"} : Begin(r, to)
  BY DEF BeginDelete
<1>2. /\ phase' \in [Requests -> Phases] /\ phase'[r] = to
      /\ \A q \in Requests \ {r} : phase'[q] = phase[q]
  BY <1>1, GotoFacts DEF TInv, Begin, Phases
<1>3. /\ before' \in [Requests -> SUBSET Requests] /\ phase[r] = "new"
  BY <1>1 DEF TInv, TypeOK, Begin
<1>4. DOMAIN answers \subseteq Nat
  BY DEF TInv, TypeOK
<1>5. /\ todo' \in [Requests -> SUBSET Nat] /\ todo'[r] \subseteq DOMAIN answers
      /\ \A q \in Requests \ {r} : todo'[q] = todo[q]
  BY <1>4 DEF TInv, TypeOK, BeginDelete
<1>6. TypeOK'
  BY <1>2, <1>3, <1>5 DEF TInv, TypeOK, BeginDelete
<1>7. PhaseInv'
  BY <1>2, <1>3, <1>5 DEF TInv, TypeOK, PhaseInv, BeginDelete, Chosen
<1>8. QED
  BY <1>6, <1>7 DEF TInv

\* The table of answers after a deletion.
LEMMA RemoveRows ==
  ASSUME TInv, NEW r \in Requests, NEW i \in todo[r], Remove(r, i)
  PROVE  /\ answers' \in Seq(Answer)
         /\ DOMAIN answers' = DOMAIN answers
         /\ i \in DOMAIN answers
         /\ \A j \in DOMAIN answers :
              /\ answers'[j].message = answers[j].message
              /\ answers'[j].question = answers[j].question
              /\ answers'[j].by = answers[j].by
              /\ answers'[j].deletedBy = IF j = i THEN r ELSE answers[j].deletedBy
<1>1. i \in DOMAIN answers /\ answers \in Seq(Answer)
  BY DEF TInv, TypeOK, PhaseInv
<1>2. answers[i] \in Answer
  BY <1>1
<1>3. /\ [answers[i] EXCEPT !.deletedBy = r] \in Answer
      /\ [answers[i] EXCEPT !.deletedBy = r].message = answers[i].message
      /\ [answers[i] EXCEPT !.deletedBy = r].question = answers[i].question
      /\ [answers[i] EXCEPT !.deletedBy = r].by = answers[i].by
      /\ [answers[i] EXCEPT !.deletedBy = r].deletedBy = r
  BY <1>2 DEF Answer
<1>4. answers' = [answers EXCEPT ![i] = [answers[i] EXCEPT !.deletedBy = r]]
  BY DEF Remove
<1>5. QED
  BY <1>1, <1>3, <1>4, ReplaceFacts

LEMMA RemoveTInv ==
  ASSUME TInv, NEW r \in Requests, NEW i \in todo[r], Remove(r, i)
  PROVE  TInv'
<1>1. /\ phase' \in [Requests -> Phases] /\ phase'[r] = "choices"
      /\ \A q \in Requests \ {r} : phase'[q] = phase[q]
  BY GotoFacts DEF TInv, Remove, Phases
<1>2. /\ answers' \in Seq(Answer) /\ DOMAIN answers' = DOMAIN answers
      /\ i \in DOMAIN answers
  BY RemoveRows
<1>3. i \in Nat
  BY <1>2 DEF TInv, TypeOK
<1>4. /\ answer' \in [Requests -> Nat] /\ answer'[r] = i
      /\ \A q \in Requests \ {r} : answer'[q] = answer[q]
      /\ todo' \in [Requests -> SUBSET Nat]
      /\ \A q \in Requests : todo'[q] \subseteq todo[q]
  BY <1>3 DEF TInv, TypeOK, Remove
<1>5. phase[r] = "delete"
  BY DEF Remove
<1>6. UNCHANGED <<useless, choices, message, form, item, option, choice, before>>
  BY DEF Remove
<1>7. TypeOK'
  BY <1>1, <1>2, <1>4, <1>6 DEF TInv, TypeOK
<1>8. PhaseInv'
  BY <1>1, <1>2, <1>4, <1>5, <1>6 DEF TInv, TypeOK, PhaseInv, Chosen
<1>9. QED
  BY <1>7, <1>8 DEF TInv

\* Steps that change nothing but a phase, and useless.
LEMMA OtherTInv ==
  ASSUME TInv, NEW r \in Requests, RemoveChoices(r) \/ Fail(r)
  PROVE  TInv'
<1>1. PICK to \in {"failed", "done", "delete"} :
        Goto(r, to) /\ (to = "delete" => phase[r] = "choices")
  BY DEF RemoveChoices, Fail
<1>2. /\ phase' \in [Requests -> Phases] /\ phase'[r] = to
      /\ \A q \in Requests \ {r} : phase'[q] = phase[q]
  BY <1>1, GotoFacts DEF TInv, Phases
<1>3. UNCHANGED <<useless, answers, choices, message, form, item, option,
                  answer, choice, todo, before>>
  BY DEF RemoveChoices, Fail
<1>4. TypeOK'
  BY <1>2, <1>3 DEF TInv, TypeOK
<1>5. PhaseInv'
  BY <1>1, <1>2, <1>3 DEF TInv, TypeOK, PhaseInv, Chosen
<1>6. QED
  BY <1>4, <1>5 DEF TInv

LEMMA NotFeedbackTInv ==
  ASSUME TInv, NEW m \in Messages, NotFeedback(m)
  PROVE  TInv'
<1>1. TypeOK'
  BY DEF TInv, TypeOK, NotFeedback, process
<1>2. PhaseInv'
  BY DEF TInv, TypeOK, PhaseInv, NotFeedback, process, Chosen
<1>3. QED
  BY <1>1, <1>2 DEF TInv

LEMMA NextTInv == TInv /\ [Next]_vars => TInv'
<1> SUFFICES ASSUME TInv, [Next]_vars PROVE TInv'
  OBVIOUS
<1>1. CASE UNCHANGED vars
  BY <1>1 DEF vars, process, TInv, TypeOK, PhaseInv, Chosen
<1>2. ASSUME NEW m \in Messages, NotFeedback(m) PROVE TInv'
  BY <1>2, NotFeedbackTInv
<1>3. ASSUME NEW r \in Requests, Step(r) PROVE TInv'
  BY <1>3, PostTInv, SaveMessageTInv, FindAnswerTInv, SaveAnswerTInv,
     FindChoiceTInv, SaveChoiceTInv, BeginDeleteTInv, RemoveTInv, OtherTInv
     DEF Step
<1>4. QED
  BY <1>1, <1>2, <1>3 DEF Next

\* Messages, answers, choices and requests keep their types.
THEOREM TypeCorrect == Spec => []TypeOK
<1>1. Init => TInv
  BY InitTInv
<1>2. TInv /\ [Next]_vars => TInv'
  BY NextTInv
<1>3. TInv => TypeOK
  BY DEF TInv
<1>4. QED
  BY <1>1, <1>2, <1>3, PTL DEF Spec

-----------------------------------------------------------------------------
\* The answer a request is about to write over is one to its question.
RowInv ==
  \A r \in Requests :
    phase[r] = "answer" /\ answer[r] # 0 =>
      /\ answer[r] \in DOMAIN answers
      /\ answers[answer[r]].message = message[r]
      /\ answers[answer[r]].question = Current(r).question

\* What was before a request has ended.
BeforeInv ==
  \A q, r \in Requests : q \in before[r] => phase[q] \in Ended

BInv == TInv /\ RowInv /\ BeforeInv

\* What a step does to request q: it begins, or keeps its form.
Keeps(q) ==
  /\ phase[q] \in Ended => phase'[q] = phase[q]
  /\ phase'[q] = "new" => phase[q] = "new"
  /\ \/ /\ phase[q] = "new"
        /\ phase'[q] # "new"
        /\ before'[q] = {p \in Requests : phase[p] \in Ended}
     \/ /\ message'[q] = message[q]
        /\ form'[q] = form[q]
        /\ before'[q] = before[q]

\* Request q is about to save the same answer as before the step.
SameAnswer(q) ==
  phase[q] = "answer" /\ answer'[q] = answer[q] /\ item'[q] = item[q]
    /\ form'[q] = form[q] /\ message'[q] = message[q]

\* No answer changes its message or its question, nor do rows vanish.
RowsKept ==
  \A i \in DOMAIN answers :
    /\ i \in DOMAIN answers'
    /\ answers'[i].message = answers[i].message
    /\ answers'[i].question = answers[i].question

\* Everything but saving, finding and deleting answers.
Calm == UNCHANGED answers /\ \A q \in Requests :
          /\ Keeps(q) /\ item'[q] = item[q]
          /\ phase'[q] = "answer" => SameAnswer(q)

LEMMA CalmSteps ==
  ASSUME TInv, [Next]_vars
  PROVE  Calm \/ \E r \in Requests :
           FindAnswer(r) \/ SaveAnswer(r) \/ \E i \in todo[r] : Remove(r, i)
<1>1. CASE UNCHANGED vars
  BY <1>1 DEF Calm, Keeps, SameAnswer, vars, process
<1>2. ASSUME NEW m \in Messages, NotFeedback(m) PROVE Calm
  BY <1>2 DEF NotFeedback, Calm, Keeps, SameAnswer, process
<1>3. ASSUME NEW r \in Requests, NEW m \in Messages, NEW s \in Submissions,
             Post(r, m, s)
      PROVE  Calm
  BY <1>3 DEF Post, Begin, Goto, Calm, Keeps, SameAnswer, TInv, TypeOK, Ended
<1>4. ASSUME NEW r \in Requests, BeginDelete(r) PROVE Calm
  BY <1>4 DEF BeginDelete, Begin, Goto, Calm, Keeps, SameAnswer, TInv, TypeOK,
              Ended
<1>5. ASSUME NEW r \in Requests,
             SaveMessage(r) \/ FindChoice(r) \/ SaveChoice(r)
               \/ RemoveChoices(r) \/ Fail(r)
      PROVE  Calm
  <2>1. UNCHANGED <<answers, message, form, before, item, answer>>
    BY <1>5 DEF SaveMessage, FindChoice, SaveChoice, RemoveChoices, Fail
  <2>2. /\ phase[r] \notin Ended \cup {"new"}
        /\ \E to \in Phases \ {"new", "answer"} : Goto(r, to)
    BY <1>5 DEF SaveMessage, FindChoice, SaveChoice, RemoveChoices, Fail,
                Continue, Ended, Phases
  <2>3. QED
    BY <2>1, <2>2 DEF Goto, Calm, Keeps, SameAnswer, TInv, TypeOK
<1>6. QED
  BY <1>1, <1>2, <1>3, <1>4, <1>5 DEF Next, Step

LEMMA NextKeeps ==
  ASSUME TInv, RowInv, [Next]_vars
  PROVE  RowsKept /\ \A q \in Requests : Keeps(q)
<1>1. CASE Calm
  BY <1>1 DEF Calm, RowsKept
<1>2. ASSUME NEW r \in Requests, FindAnswer(r)
      PROVE  RowsKept /\ \A q \in Requests : Keeps(q)
  BY <1>2 DEF FindAnswer, Goto, RowsKept, Keeps, TInv, TypeOK, Ended
<1>3. ASSUME NEW r \in Requests, NEW i \in todo[r], Remove(r, i)
      PROVE  RowsKept /\ \A q \in Requests : Keeps(q)
  <2>1. RowsKept
    BY <1>3, RemoveRows DEF RowsKept
  <2>2. \A q \in Requests : Keeps(q)
    BY <1>3 DEF Remove, Goto, Keeps, TInv, TypeOK, Ended
  <2>3. QED
    BY <2>1, <2>2
<1>4. ASSUME NEW r \in Requests, SaveAnswer(r)
      PROVE  RowsKept /\ \A q \in Requests : Keeps(q)
  <2>1. RowsKept
    <3>1. ASSUME NEW i \in DOMAIN answers
          PROVE  /\ i \in DOMAIN answers'
                 /\ answers'[i].message = answers[i].message
                 /\ answers'[i].question = answers[i].question
      <4>1. CASE i # RowId(r)
        BY <1>4, <4>1, SaveAnswerRows
      <4>2. CASE i = RowId(r)
        <5>1. answer[r] # 0 /\ answer[r] = i /\ answers'[i] = Saved(r)
              /\ i \in DOMAIN answers'
          BY <1>4, <4>2, SaveAnswerRows
        <5>2. /\ answers[i].message = message[r]
              /\ answers[i].question = Current(r).question
          BY <1>4, <5>1 DEF RowInv, SaveAnswer
        <5>3. QED
          BY <5>1, <5>2 DEF Saved
      <4>3. QED
        BY <4>1, <4>2
    <3>2. QED
      BY <3>1 DEF RowsKept
  <2>2. \A q \in Requests : Keeps(q)
    <3>1. /\ phase[r] = "answer"
          /\ \E to \in Phases \ {"new"} : Goto(r, to)
          /\ UNCHANGED <<message, form, before>>
      BY <1>4 DEF SaveAnswer, Continue, Phases
    <3>2. QED
      BY <3>1 DEF Goto, Keeps, TInv, TypeOK, Ended
  <2>3. QED
    BY <2>1, <2>2
<1>5. QED
  BY <1>1, <1>2, <1>3, <1>4, CalmSteps

\* Who is about to save an answer was so before, or has just looked it up.
LEMMA AnswerSteps ==
  ASSUME TInv, [Next]_vars, NEW q \in Requests, phase'[q] = "answer"
  PROVE  SameAnswer(q) \/ FindAnswer(q)
<1>1. CASE Calm
  BY <1>1 DEF Calm
<1>2. ASSUME NEW r \in Requests, FindAnswer(r)
      PROVE  SameAnswer(q) \/ FindAnswer(q)
  BY <1>2 DEF FindAnswer, Goto, SameAnswer, TInv, TypeOK
<1>3. ASSUME NEW r \in Requests, NEW i \in todo[r], Remove(r, i)
      PROVE  SameAnswer(q)
  BY <1>3 DEF Remove, Goto, SameAnswer, TInv, TypeOK
<1>4. ASSUME NEW r \in Requests, SaveAnswer(r)
      PROVE  SameAnswer(q)
  <2>1. /\ \E to \in Phases \ {"answer"} : Goto(r, to)
        /\ UNCHANGED <<message, form>>
    BY <1>4 DEF SaveAnswer, Continue, Phases
  <2>2. /\ answer' = [answer EXCEPT ![r] = RowId(r)]
        /\ item' = [item EXCEPT ![r] = @ + 1]
    BY <1>4 DEF SaveAnswer
  <2>3. QED
    BY <2>1, <2>2 DEF Goto, SameAnswer, TInv, TypeOK
<1>5. QED
  BY <1>1, <1>2, <1>3, <1>4, CalmSteps

LEMMA InitBInv == Init => BInv
  BY InitTInv DEF Init, BInv, RowInv, BeforeInv

LEMMA NextBInv == BInv /\ [Next]_vars => BInv'
<1> SUFFICES ASSUME BInv, [Next]_vars PROVE BInv'
  OBVIOUS
<1>1. TInv /\ RowInv /\ BeforeInv
  BY DEF BInv
<1>2. TInv'
  BY <1>1, NextTInv
<1>3. RowsKept /\ \A q \in Requests : Keeps(q)
  BY <1>1, NextKeeps
<1>4. BeforeInv'
  BY <1>1, <1>3 DEF BeforeInv, Keeps, TInv, TypeOK
<1>5. RowInv'
  <2>1. ASSUME NEW r \in Requests, phase'[r] = "answer", answer'[r] # 0
        PROVE  /\ answer'[r] \in DOMAIN answers'
               /\ answers'[answer'[r]].message = message'[r]
               /\ answers'[answer'[r]].question = Current(r)'.question
    <3>1. CASE SameAnswer(r)
      BY <1>1, <1>3, <2>1, <3>1 DEF SameAnswer, RowInv, RowsKept, Current
    <3>2. CASE FindAnswer(r)
      <4>1. PICK i \in Found(message[r], Current(r).question) : answer'[r] = i
        BY <1>1, <2>1, <3>2 DEF FindAnswer, TInv, TypeOK
      <4>2. Current(r)' = Current(r) /\ UNCHANGED <<message, answers>>
        BY <3>2 DEF FindAnswer, Current
      <4>3. QED
        BY <4>1, <4>2 DEF Found
    <3>3. QED
      BY <1>1, <2>1, <3>1, <3>2, AnswerSteps
  <2>2. QED
    BY <2>1 DEF RowInv
<1>6. QED
  BY <1>2, <1>4, <1>5 DEF BInv

-----------------------------------------------------------------------------
(* A message that has been dealt with is not handed out again.             *)

\* A request that has saved an answer has left a row for its message.
SavedInv ==
  \A r \in Requests : item[r] > 0 =>
    \E i \in DOMAIN answers : answers[i].message = message[r]

\* A message found useless is marked as such until another form is saved.
UselessInv ==
  \A r \in Requests :
    phase[r] = "done" /\ form[r].useless /\ message[r] \in Messages \ useless =>
      \E q \in Requests :
        message[q] = message[r] /\ ~ form[q].useless /\ q \notin before[r]

LEMMA NextSavedInv == BInv /\ SavedInv /\ [Next]_vars => SavedInv'
<1> SUFFICES ASSUME BInv, SavedInv, [Next]_vars,
                    NEW r \in Requests, item'[r] > 0
             PROVE  \E i \in DOMAIN answers' : answers'[i].message = message'[r]
  BY DEF SavedInv
<1>1. TInv /\ RowInv /\ RowsKept /\ Keeps(r)
  BY NextKeeps DEF BInv
<1>2. ASSUME item'[r] = item[r]
      PROVE  \E i \in DOMAIN answers' : answers'[i].message = message'[r]
  <2>1. phase[r] # "new"
    BY <1>1, <1>2 DEF TInv, PhaseInv
  <2>2. message'[r] = message[r]
    BY <1>1, <2>1 DEF Keeps
  <2>3. QED
    BY <1>1, <1>2, <2>2 DEF SavedInv, RowsKept
<1>3. ASSUME NEW q \in Requests, SaveAnswer(q)
      PROVE  \E i \in DOMAIN answers' : answers'[i].message = message'[r]
  <2>1. CASE q = r
    <3>1. RowId(r) \in DOMAIN answers' /\ answers'[RowId(r)] = Saved(r)
      BY <1>1, <1>3, <2>1, SaveAnswerRows
    <3>2. Saved(r).message = message[r] /\ message' = message
      BY <1>3 DEF Saved, SaveAnswer
    <3>3. QED
      BY <3>1, <3>2
  <2>2. CASE q # r
    BY <1>2, <1>3, <2>2 DEF SaveAnswer
  <2>3. QED
    BY <2>1, <2>2
<1>4. QED
  BY <1>1, <1>2, <1>3, CalmSteps DEF Calm, FindAnswer, Remove

\* A request moves to another phase by a step of its own.
LEMMA OwnStep ==
  ASSUME TInv, [Next]_vars, NEW r \in Requests, phase'[r] # phase[r]
  PROVE  Step(r)
<1>1. PICK q \in Requests : Step(q)
  BY DEF Next, NotFeedback, process, vars
<1>2. \E to \in Phases : Goto(q, to)
  BY <1>1 DEF Step, Post, Begin, SaveMessage, FindAnswer, SaveAnswer,
     FindChoice, SaveChoice, BeginDelete, Remove, RemoveChoices, Fail,
     Continue, Phases
<1>3. q = r
  BY <1>2 DEF Goto, TInv, TypeOK
<1>4. QED
  BY <1>1, <1>3

\* A form that says useless has no answers to save.
FormInv ==
  \A r \in Requests :
    phase[r] \in {"find", "answer", "option", "choice"} => ~ form[r].useless

LEMMA NextFormInv == BInv /\ FormInv /\ [Next]_vars => FormInv'
<1> SUFFICES ASSUME BInv, FormInv, [Next]_vars, NEW r \in Requests,
                    phase'[r] \in {"find", "answer", "option", "choice"}
             PROVE  ~ form'[r].useless
  BY DEF FormInv
<1>1. TInv /\ Keeps(r)
  BY NextKeeps DEF BInv
<1>2. CASE phase'[r] = phase[r]
  BY <1>1, <1>2 DEF FormInv, Keeps
<1>3. CASE phase'[r] # phase[r]
  <2>1. Step(r)
    BY <1>1, <1>3, OwnStep
  <2>2. CASE SaveMessage(r)
    BY <1>1, <2>2 DEF SaveMessage, Goto, TInv, TypeOK
  <2>3. CASE FindAnswer(r) \/ SaveAnswer(r) \/ FindChoice(r) \/ SaveChoice(r)
    BY <2>3 DEF FindAnswer, SaveAnswer, FindChoice, SaveChoice, FormInv
  <2>4. CASE \/ \E m \in Messages, s \in Submissions : Post(r, m, s)
             \/ BeginDelete(r)
             \/ \E i \in todo[r] : Remove(r, i)
             \/ RemoveChoices(r)
             \/ Fail(r)
    BY <1>1, <2>4 DEF Post, BeginDelete, Begin, Remove, RemoveChoices, Fail,
                      Goto, TInv, TypeOK
  <2>5. QED
    BY <2>1, <2>2, <2>3, <2>4 DEF Step
<1>4. QED
  BY <1>2, <1>3

LEMMA NextUselessInv ==
  BInv /\ FormInv /\ UselessInv /\ [Next]_vars => UselessInv'
<1> SUFFICES ASSUME BInv, FormInv, UselessInv, [Next]_vars,
                    NEW r \in Requests, phase'[r] = "done", form'[r].useless,
                    message'[r] \in Messages \ useless'
             PROVE  \E q \in Requests : /\ message'[q] = message'[r]
                                        /\ ~ form'[q].useless
                                        /\ q \notin before'[r]
  BY DEF UselessInv
<1>1. TInv /\ BeforeInv /\ \A q \in Requests : Keeps(q)
  BY NextKeeps DEF BInv
<1>2. \A q \in Requests : message[q] # None =>
        message'[q] = message[q] /\ form'[q] = form[q] /\ before'[q] = before[q]
  BY <1>1 DEF Keeps, TInv, PhaseInv
<1>3. CASE phase[r] = "done" /\ message[r] \in Messages
  <2>1. /\ message'[r] = message[r] /\ form'[r] = form[r]
        /\ before'[r] = before[r]
    BY <1>2, <1>3, NoneAssumption
  <2>2. CASE message[r] \notin useless
    <3>1. PICK q \in Requests :
            message[q] = message[r] /\ ~ form[q].useless /\ q \notin before[r]
      BY <1>3, <2>1, <2>2 DEF UselessInv
    <3>2. message[q] # None
      BY <1>3, <3>1, NoneAssumption
    <3>3. QED
      BY <1>2, <2>1, <3>1, <3>2
  <2>3. CASE message[r] \in useless
    <3>1. PICK q \in Requests :
            /\ SaveMessage(q) /\ ~ form[q].useless /\ message[q] = message[r]
      <4>1. useless' # useless
        BY <2>1, <2>3
      <4>2. (\E q \in Requests : SaveMessage(q))
              \/ \E m \in Messages : NotFeedback(m)
        BY <4>1 DEF Next, Step, Post, FindAnswer, SaveAnswer, FindChoice,
                    SaveChoice, BeginDelete, Remove, RemoveChoices, Fail, vars
      <4>3. QED
        BY <2>1, <2>3, <4>2 DEF SaveMessage, NotFeedback
    <3>2. q \notin before[r]
      BY <1>1, <3>1 DEF BeforeInv, SaveMessage, Ended
    <3>3. QED
      BY <2>1, <3>1, <3>2 DEF SaveMessage
  <2>4. QED
    BY <2>2, <2>3
<1>4. CASE phase[r] # "done" \/ message[r] \notin Messages
  <2>1. phase[r] # "done"
    BY <1>1, <1>4 DEF Keeps, Ended
  <2>2. Step(r)
    BY <1>1, <2>1, OwnStep
  <2>3. CASE SaveMessage(r)
    BY <1>1, <2>3 DEF SaveMessage, Goto, TInv, TypeOK
  <2>4. CASE SaveAnswer(r) \/ SaveChoice(r)
    BY <2>4 DEF SaveAnswer, SaveChoice, FormInv
  <2>5. CASE BeginDelete(r) \/ RemoveChoices(r)
    <3>1. message[r] = None /\ message' = message
      BY <1>1, <2>5 DEF BeginDelete, Begin, RemoveChoices, TInv, PhaseInv
    <3>2. QED
      BY <3>1, NoneAssumption
  <2>6. CASE \/ \E m \in Messages, s \in Submissions : Post(r, m, s)
             \/ FindAnswer(r) \/ FindChoice(r) \/ Fail(r)
             \/ \E i \in todo[r] : Remove(r, i)
    BY <1>1, <2>6 DEF Post, Begin, FindAnswer, FindChoice, Fail, Remove, Goto,
                      TInv, TypeOK
  <2>7. QED
    BY <2>2, <2>3, <2>4, <2>5, <2>6 DEF Step
<1>5. QED
  BY <1>3, <1>4

\* Whatever is handed out was neither answered nor found useless, unless
\* another form about it has been saved since (analysis.service.ts:62-66).
THEOREM HandedOut == Spec => []DoneIsNotHandedOut
<1> DEFINE IInv == BInv /\ FormInv /\ SavedInv /\ UselessInv
<1>1. Init => IInv
  BY InitBInv DEF Init, FormInv, SavedInv, UselessInv
<1>2. IInv /\ [Next]_vars => IInv'
  BY NextBInv, NextFormInv, NextSavedInv, NextUselessInv
<1>3. IInv => DoneIsNotHandedOut
  <2> SUFFICES ASSUME IInv, NEW m \in Messages, Available(m),
                      NEW r \in Requests, message[r] = m
               PROVE  /\ item[r] = 0
                      /\ phase[r] = "done" /\ form[r].useless =>
                           \E q \in Requests : /\ message[q] = m
                                                /\ ~ form[q].useless
                                                /\ q \notin before[r]
    BY DEF DoneIsNotHandedOut
  <2>1. item[r] = 0
    <3>1. item[r] \in Nat
      BY DEF BInv, TInv, TypeOK
    <3>2. ~ (item[r] > 0)
      BY DEF Available, Answered, SavedInv
    <3>3. QED
      BY <3>1, <3>2
  <2>2. m \in Messages \ useless
    BY DEF Available
  <2>3. QED
    BY <2>1, <2>2 DEF UselessInv
<1>4. QED
  <2>1. Init => IInv
    BY <1>1
  <2>2. IInv /\ [Next]_vars => IInv'
    BY <1>2
  <2>3. IInv => DoneIsNotHandedOut
    BY <1>3
  <2>4. QED
    BY <2>1, <2>2, <2>3, PTL DEF Spec

-----------------------------------------------------------------------------
(* One answer to each question.                                            *)

OverlapOn(m) == \E q, r \in Requests : Overlap(q, r) /\ message[r] = m

SameQuestion(i, j) ==
  answers[i].message = answers[j].message
    /\ answers[i].question = answers[j].question

\* Row i is what request r has looked for.
IsSought(i, r) ==
  Live(i) /\ answers[i].message = message[r]
    /\ answers[i].question = Current(r).question

\* Without overlapping forms about message m, its answers are to different
\* questions, and a request that is about to save one has found what there is.
OneInv ==
  \A m \in Messages : ~ OverlapOn(m) =>
    /\ \A i, j \in DOMAIN answers :
         Live(i) /\ Live(j) /\ answers[i].message = m /\ SameQuestion(i, j)
           => i = j
    /\ \A r \in Requests : phase[r] = "answer" /\ message[r] = m =>
         \A i \in DOMAIN answers : IsSought(i, r) => i = answer[r]

\* Forms that have overlapped go on doing so.
LEMMA OverlapStays ==
  ASSUME BInv, [Next]_vars, NEW m \in Messages, OverlapOn(m)
  PROVE  OverlapOn(m)'
<1>1. PICK q \in Requests, r \in Requests : Overlap(q, r) /\ message[r] = m
  BY DEF OverlapOn
<1>2. Keeps(q) /\ Keeps(r) /\ TInv
  BY NextKeeps DEF BInv
<1>3. message[q] # None /\ message[r] # None
  BY <1>1 DEF Overlap
<1>4. phase[q] # "new" /\ phase[r] # "new"
  BY <1>2, <1>3 DEF TInv, PhaseInv
<1>5. /\ message'[q] = message[q] /\ before'[q] = before[q]
      /\ message'[r] = message[r] /\ before'[r] = before[r]
  BY <1>2, <1>4 DEF Keeps
<1>6. QED
  BY <1>1, <1>5 DEF Overlap, OverlapOn

\* The first part of OneInv, for two rows after a step.
LEMMA NextRowsOne ==
  ASSUME BInv, OneInv, [Next]_vars, NEW m \in Messages, ~ OverlapOn(m),
         NEW i \in DOMAIN answers', NEW j \in DOMAIN answers',
         Live(i)', Live(j)', answers'[i].message = m, SameQuestion(i, j)'
  PROVE  i = j
<1>1. TInv
  BY DEF BInv
<1>2. CASE UNCHANGED answers
  BY <1>2 DEF OneInv, Live, SameQuestion
<1>3. ASSUME NEW r \in Requests, NEW k \in todo[r], Remove(r, k)
      PROVE  i = j
  <2>1. /\ i \in DOMAIN answers /\ j \in DOMAIN answers
        /\ answers'[i].message = answers[i].message
        /\ answers'[i].question = answers[i].question
        /\ answers'[j].message = answers[j].message
        /\ answers'[j].question = answers[j].question
    BY <1>1, <1>3, RemoveRows
  <2>2. Live(i) /\ Live(j)
    BY <1>1, <1>3, <2>1, RemoveRows, NoneAssumption DEF Live
  <2>3. QED
    BY <2>1, <2>2 DEF OneInv, SameQuestion
<1>4. ASSUME NEW r \in Requests, SaveAnswer(r)
      PROVE  i = j
  <2> DEFINE new == RowId(r)
  <2>1. /\ DOMAIN answers' = DOMAIN answers \cup {new}
        /\ answers'[new] = Saved(r)
        /\ \A k \in DOMAIN answers : k # new => answers'[k] = answers[k]
        /\ answer[r] = 0 => new \notin DOMAIN answers
        /\ answer[r] # 0 => new = answer[r]
    BY <1>1, <1>4, SaveAnswerRows
  <2>2. ASSUME NEW k \in DOMAIN answers', k # new, Live(k)',
               answers'[k].message = message[r],
               answers'[k].question = Current(r).question,
               message[r] = m
        PROVE  FALSE
    <3>1. k \in DOMAIN answers /\ answers'[k] = answers[k]
      BY <2>1, <2>2
    <3>2. IsSought(k, r)
      BY <2>2, <3>1 DEF IsSought, Live
    <3>3. k = answer[r]
      BY <1>4, <2>2, <3>1, <3>2 DEF OneInv, SaveAnswer
    <3>4. 0 \notin DOMAIN answers
      BY <1>1 DEF TInv, TypeOK
    <3>5. QED
      BY <2>1, <2>2, <3>1, <3>3, <3>4
  <2>3. /\ Saved(r).message = message[r]
        /\ Saved(r).question = Current(r).question
    BY DEF Saved
  <2>4. CASE i = new
    BY <2>1, <2>2, <2>3, <2>4 DEF SameQuestion
  <2>5. CASE j = new
    BY <2>1, <2>2, <2>3, <2>5 DEF SameQuestion
  <2>6. CASE i # new /\ j # new
    <3>1. /\ i \in DOMAIN answers /\ answers'[i] = answers[i]
          /\ j \in DOMAIN answers /\ answers'[j] = answers[j]
      BY <2>1, <2>6
    <3>2. QED
      BY <3>1 DEF OneInv, Live, SameQuestion
  <2>7. QED
    BY <2>4, <2>5, <2>6
<1>5. QED
  BY <1>1, <1>2, <1>3, <1>4, CalmSteps DEF Calm, FindAnswer

\* The second part, for a request after a step.
LEMMA NextSoughtOne ==
  ASSUME BInv, OneInv, [Next]_vars, NEW m \in Messages, ~ OverlapOn(m)',
         ~ OverlapOn(m), NEW r \in Requests,
         phase'[r] = "answer", message'[r] = m,
         NEW i \in DOMAIN answers', IsSought(i, r)'
  PROVE  i = answer'[r]
<1>1. TInv /\ BeforeInv
  BY DEF BInv
<1>2. CASE FindAnswer(r)
  <2>1. UNCHANGED <<answers, message, form, item>> /\ i \in DOMAIN answers
    BY <1>2 DEF FindAnswer
  <2>2. i \in Found(message[r], Current(r).question)
    BY <2>1 DEF IsSought, Found, Live, Current
  <2>3. PICK j \in Found(message[r], Current(r).question) :
          answer' = [answer EXCEPT ![r] = j]
    BY <1>2, <2>2 DEF FindAnswer
  <2>4. i = j
    BY <2>1, <2>2, <2>3 DEF Found, OneInv, SameQuestion
  <2>5. QED
    BY <1>1, <2>3, <2>4 DEF TInv, TypeOK
<1>3. CASE SameAnswer(r)
  <2>1. phase[r] = "answer" /\ message[r] = m /\ answer'[r] = answer[r]
        /\ Current(r)' = Current(r)
    BY <1>3 DEF SameAnswer, Current
  <2>2. CASE UNCHANGED answers
    BY <2>1, <2>2 DEF OneInv, IsSought, Live
  <2>3. ASSUME NEW q \in Requests, NEW k \in todo[q], Remove(q, k)
        PROVE  i = answer'[r]
    <3>1. /\ i \in DOMAIN answers
          /\ answers'[i].message = answers[i].message
          /\ answers'[i].question = answers[i].question
      BY <1>1, <2>3, RemoveRows
    <3>2. Live(i)
      BY <1>1, <2>3, <3>1, RemoveRows, NoneAssumption DEF Live, IsSought
    <3>3. QED
      BY <2>1, <3>1, <3>2 DEF OneInv, IsSought
  <2>4. ASSUME NEW q \in Requests, SaveAnswer(q)
        PROVE  i = answer'[r]
    <3>0. /\ DOMAIN answers' = DOMAIN answers \cup {RowId(q)}
          /\ answers'[RowId(q)] = Saved(q)
          /\ \A k \in DOMAIN answers : k # RowId(q) => answers'[k] = answers[k]
      BY <1>1, <2>4, SaveAnswerRows
    <3>1. CASE q = r
      <4>1. item' = [item EXCEPT ![r] = item[r] + 1]
        BY <2>4, <3>1 DEF SaveAnswer
      <4>2. item[r] \in Nat /\ item'[r] = item[r] + 1
        BY <1>1, <4>1 DEF TInv, TypeOK
      <4>3. item'[r] = item[r]
        BY <1>3 DEF SameAnswer
      <4>4. QED
        BY <4>2, <4>3
    <3>2. CASE q # r /\ message[q] = m
      <4>1. q \notin before[r] /\ r \notin before[q]
        BY <1>1, <2>1, <2>4 DEF BeforeInv, SaveAnswer, Ended
      <4>2. QED
        BY <2>1, <3>2, <4>1, NoneAssumption DEF Overlap, OverlapOn
    <3>3. CASE message[q] # m
      <4>1. i # RowId(q)
        <5>1. answers'[RowId(q)].message = message[q]
          BY <3>0 DEF Saved
        <5>2. message'[r] = m /\ answers'[i].message = message'[r]
          BY DEF IsSought
        <5>3. QED
          BY <3>3, <5>1, <5>2
      <4>2. i \in DOMAIN answers /\ answers'[i] = answers[i]
        BY <3>0, <4>1
      <4>3. QED
        BY <2>1, <4>2 DEF OneInv, IsSought, Live
    <3>4. QED
      BY <3>1, <3>2, <3>3
  <2>5. QED
    BY <1>1, <2>2, <2>3, <2>4, CalmSteps DEF Calm, FindAnswer
<1>4. QED
  BY <1>1, <1>2, <1>3, AnswerSteps

LEMMA NextOneInv == BInv /\ OneInv /\ [Next]_vars => OneInv'
<1> SUFFICES ASSUME BInv, OneInv, [Next]_vars, NEW m \in Messages,
                    ~ OverlapOn(m)'
             PROVE  /\ \A i, j \in DOMAIN answers' :
                         Live(i)' /\ Live(j)' /\ answers'[i].message = m
                           /\ SameQuestion(i, j)' => i = j
                    /\ \A r \in Requests :
                         phase'[r] = "answer" /\ message'[r] = m =>
                           \A i \in DOMAIN answers' :
                             IsSought(i, r)' => i = answer'[r]
  BY DEF OneInv
<1>1. ~ OverlapOn(m)
  BY OverlapStays
<1>2. QED
  BY <1>1, NextRowsOne, NextSoughtOne

\* Unless two forms about a message overlapped, it has one answer to each
\* question (analysis.service.ts:151-169).
THEOREM OneAnswer == Spec => []OneAnswerEach
<1> DEFINE IInv == BInv /\ OneInv
<1>1. Init => IInv
  BY InitBInv DEF Init, OneInv, IsSought
<1>2. IInv /\ [Next]_vars => IInv'
  BY NextBInv, NextOneInv
<1>3. IInv => OneAnswerEach
  <2> SUFFICES ASSUME IInv, NEW i \in DOMAIN answers, NEW j \in DOMAIN answers,
                      i # j, Live(i), Live(j), SameQuestion(i, j)
               PROVE  OverlapOn(answers[i].message)
    BY DEF OneAnswerEach, OverlapOn, SameQuestion
  <2>1. answers[i] \in Answer
    BY DEF BInv, TInv, TypeOK
  <2>2. answers[i].message \in Messages
    BY <2>1 DEF Answer
  <2>3. QED
    BY <2>2 DEF OneInv
<1>4. QED
  <2>1. Init => IInv
    BY <1>1
  <2>2. IInv /\ [Next]_vars => IInv'
    BY <1>2
  <2>3. IInv => OneAnswerEach
    BY <1>3
  <2>4. QED
    BY <2>1, <2>2, <2>3, PTL DEF Spec

-----------------------------------------------------------------------------
(* Deleted answers.                                                        *)

\* Whoever deleted the row a request is about to save had not ended when
\* that request began.
DeleteInv ==
  \A r \in Requests :
    phase[r] = "answer" /\ answer[r] # 0 /\ ~ Live(answer[r]) =>
      answers[answer[r]].deletedBy \notin before[r]

LEMMA NextDeleteInv == BInv /\ DeleteInv /\ [Next]_vars => DeleteInv'
<1> SUFFICES ASSUME BInv, DeleteInv, [Next]_vars, NEW r \in Requests,
                    phase'[r] = "answer", answer'[r] # 0, ~ Live(answer[r])'
             PROVE  answers'[answer'[r]].deletedBy \notin before'[r]
  BY DEF DeleteInv
<1>1. TInv /\ RowInv /\ BeforeInv /\ Keeps(r)
  BY NextKeeps DEF BInv
<1>2. CASE FindAnswer(r)
  <2>1. PICK i \in Found(message[r], Current(r).question) : answer'[r] = i
    BY <1>1, <1>2 DEF FindAnswer, TInv, TypeOK
  <2>2. UNCHANGED answers
    BY <1>2 DEF FindAnswer
  <2>3. QED
    BY <2>1, <2>2 DEF Found, Live
<1>3. CASE SameAnswer(r)
  <2>1. /\ phase[r] = "answer" /\ answer'[r] = answer[r]
        /\ before'[r] = before[r] /\ answer[r] \in DOMAIN answers
    BY <1>1, <1>3 DEF SameAnswer, Keeps, RowInv
  <2>2. CASE UNCHANGED answers
    BY <2>1, <2>2 DEF DeleteInv, Live
  <2>3. ASSUME NEW q \in Requests, NEW k \in todo[q], Remove(q, k)
        PROVE  answers'[answer'[r]].deletedBy \notin before'[r]
    <3>1. answers'[answer[r]].deletedBy =
            IF answer[r] = k THEN q ELSE answers[answer[r]].deletedBy
      BY <1>1, <2>1, <2>3, RemoveRows
    <3>2. CASE answer[r] = k
      <4>1. q \notin before[r]
        BY <1>1, <2>3 DEF BeforeInv, Remove, Ended
      <4>2. QED
        BY <2>1, <3>1, <3>2, <4>1
    <3>3. CASE answer[r] # k
      BY <2>1, <3>1, <3>3 DEF DeleteInv, Live
    <3>4. QED
      BY <3>2, <3>3
  <2>4. ASSUME NEW q \in Requests, SaveAnswer(q)
        PROVE  answers'[answer'[r]].deletedBy \notin before'[r]
    <3>0. answers'[RowId(q)] = Saved(q)
      BY <1>1, <2>4, SaveAnswerRows
    <3>1. answer[r] # RowId(q)
      <4>1. answers'[RowId(q)].deletedBy = None
        BY <3>0 DEF Saved
      <4>2. QED
        BY <2>1, <4>1 DEF Live
    <3>2. answers'[answer[r]] = answers[answer[r]]
      BY <1>1, <2>1, <2>4, <3>1, SaveAnswerRows
    <3>3. QED
      BY <2>1, <3>2 DEF DeleteInv, Live
  <2>5. QED
    BY <1>1, <2>2, <2>3, <2>4, CalmSteps DEF Calm, FindAnswer
<1>4. QED
  BY <1>1, <1>2, <1>3, AnswerSteps

\* A deleted answer comes back only by a form that overlapped the deletion
\* (analysis.service.ts:152-169).
THEOREM DeletedStays == Spec => DeletedStaysDeleted
<1> DEFINE IInv == BInv /\ DeleteInv
<1> DEFINE Kept ==
      \A i \in DOMAIN answers :
        ~ Live(i) /\ answers'[i].deletedBy = None =>
          \E r \in Requests :
            /\ phase[r] = "answer" /\ answer[r] = i
            /\ answers[i].deletedBy \notin before[r]
            /\ r \notin before[answers[i].deletedBy]
<1>1. Init => IInv
  BY InitBInv DEF Init, DeleteInv
<1>2. IInv /\ [Next]_vars => IInv'
  BY NextBInv, NextDeleteInv
<1>3. IInv /\ [Next]_vars => [Kept]_vars
  <2> SUFFICES ASSUME IInv, [Next]_vars, NEW i \in DOMAIN answers, ~ Live(i),
                      answers'[i].deletedBy = None
               PROVE  \E r \in Requests :
                        /\ phase[r] = "answer" /\ answer[r] = i
                        /\ answers[i].deletedBy \notin before[r]
                        /\ r \notin before[answers[i].deletedBy]
    OBVIOUS
  <2>1. TInv /\ BeforeInv
    BY DEF BInv
  <2>2. answers[i].deletedBy \in Requests
    <3>1. answers[i] \in Answer
      BY <2>1 DEF TInv, TypeOK
    <3>2. QED
      BY <3>1 DEF Answer, Live
  <2>3. ASSUME NEW r \in Requests, NEW k \in todo[r], Remove(r, k)
        PROVE  FALSE
    BY <2>1, <2>3, RemoveRows, NoneAssumption DEF Live
  <2>4. ASSUME NEW r \in Requests, SaveAnswer(r)
        PROVE  /\ phase[r] = "answer" /\ answer[r] = i
               /\ answers[i].deletedBy \notin before[r]
               /\ r \notin before[answers[i].deletedBy]
    <3>1. i = RowId(r)
      BY <2>1, <2>4, SaveAnswerRows DEF Live
    <3>2. answer[r] # 0 /\ answer[r] = i
      BY <2>1, <2>4, <3>1, SaveAnswerRows
    <3>3. phase[r] = "answer"
      BY <2>4 DEF SaveAnswer
    <3>4. r \notin before[answers[i].deletedBy]
      BY <2>1, <2>2, <3>3 DEF BeforeInv, Ended
    <3>5. QED
      BY <3>2, <3>3, <3>4 DEF DeleteInv
  <2>5. ~ UNCHANGED answers
    BY DEF Live
  <2>6. QED
    BY <2>1, <2>3, <2>4, <2>5, CalmSteps DEF Calm, FindAnswer
<1>4. QED
  <2>1. Init => IInv
    BY <1>1
  <2>2. IInv /\ [Next]_vars => IInv'
    BY <1>2
  <2>3. IInv /\ [Next]_vars => [Kept]_vars
    BY <1>3
  <2>4. QED
    BY <2>1, <2>2, <2>3, PTL DEF Spec, DeletedStaysDeleted

-----------------------------------------------------------------------------
(* The options chosen are stored.                                          *)

\* Every other form had been dealt with when request r began.
Alone(r) == \A q \in Requests \ {r} : message[q] # None => q \in before[r]

\* Option o of the n-th question is stored, or its row was taken.
IsKept(r, n, o) ==
  \/ \E c \in DOMAIN choices :
       /\ choices[c].option = o
       /\ answers[choices[c].answer].message = message[r]
       /\ answers[choices[c].answer].question = form[r].items[n].question
  \/ \E c \in DOMAIN choices :
       /\ c # o /\ c \in OptionsOf(form[r])
       /\ choices[c].option = c
       /\ answers[choices[c].answer].by = r

\* Request r has saved the k-th option of the n-th question.
HasSaved(r, n, k) ==
  \/ n < item[r]
  \/ n = item[r] /\ (phase[r] \in {"option", "choice"} => k <= option[r])

AllKept(r) ==
  phase[r] \in {"find", "answer", "option", "choice", "done"} =>
    \A n \in DOMAIN form[r].items : \A k \in DOMAIN form[r].items[n].options :
      \A o : HasSaved(r, n, k) /\ o = form[r].items[n].options[k]
               => IsKept(r, n, o)

\* A form on its own has kept all options it has saved, the answer it has just
\* saved is its own, and the choice it has found has the id of the option.
AloneInv(r) ==
  /\ AllKept(r)
  /\ phase[r] = "done" => item[r] = Len(form[r].items)
  /\ phase[r] \in {"option", "choice"} =>
       /\ answers[answer[r]].message = message[r]
       /\ answers[answer[r]].question = form[r].items[item[r]].question
       /\ answers[answer[r]].by = r
  /\ phase[r] = "choice" /\ choice[r] # 0 => choice[r] = NextOption(r)

StoreInv == \A r \in Requests : Alone(r) /\ ~ form[r].useless => AloneInv(r)

\* The form of a request is one that may be posted; a deletion has none.
PostedInv ==
  \A r \in Requests :
    /\ form[r] \in Submissions \cup {EmptyForm}
    /\ message[r] = None => form[r] = EmptyForm /\ item[r] = 0

LEMMA NextPostedInv == TInv /\ PostedInv /\ [Next]_vars => PostedInv'
<1> SUFFICES ASSUME TInv, PostedInv, [Next]_vars PROVE PostedInv'
  OBVIOUS
<1>1. CASE UNCHANGED <<message, form, item>>
  BY <1>1 DEF PostedInv
<1>2. ASSUME NEW r \in Requests, NEW m \in Messages, NEW s \in Submissions,
             Post(r, m, s)
      PROVE  PostedInv'
  BY <1>2, NoneAssumption DEF Post, PostedInv, TInv, TypeOK
<1>3. ASSUME NEW r \in Requests, SaveAnswer(r)
      PROVE  PostedInv'
  <2>1. message[r] \in Messages
    BY <1>3 DEF SaveAnswer, TInv, PhaseInv
  <2>2. QED
    BY <1>3, <2>1, NoneAssumption DEF SaveAnswer, PostedInv, TInv, TypeOK
<1>4. QED
  BY <1>1, <1>2, <1>3 DEF Next, Step, NotFeedback, SaveMessage, FindAnswer,
     FindChoice, SaveChoice, BeginDelete, Remove, RemoveChoices, Fail, vars,
     process

\* Who is alone after a step was so before, and others' forms have ended.
LEMMA AloneWas ==
  ASSUME BInv, [Next]_vars, NEW r \in Requests, Alone(r)', phase[r] # "new"
  PROVE  /\ Alone(r) /\ message'[r] = message[r] /\ form'[r] = form[r]
         /\ \A q \in Requests \ {r} : message[q] # None => phase[q] \in Ended
<1>1. TInv /\ BeforeInv /\ \A q \in Requests : Keeps(q)
  BY NextKeeps DEF BInv
<1>2. /\ message'[r] = message[r] /\ form'[r] = form[r]
      /\ before'[r] = before[r]
  BY <1>1 DEF Keeps
<1>3. ASSUME NEW q \in Requests \ {r}, message[q] # None
      PROVE  q \in before[r] /\ phase[q] \in Ended
  <2>1. phase[q] # "new"
    BY <1>1, <1>3 DEF TInv, PhaseInv
  <2>2. message'[q] # None
    BY <1>1, <1>3, <2>1 DEF Keeps
  <2>3. QED
    BY <1>1, <1>2, <2>2 DEF Alone, BeforeInv
<1>4. QED
  BY <1>2, <1>3 DEF Alone

\* A step that leaves a request and the choices alone.
Untouched(r) ==
  /\ phase'[r] = phase[r] /\ item'[r] = item[r] /\ option'[r] = option[r]
  /\ answer'[r] = answer[r] /\ choice'[r] = choice[r]
  /\ choices' = choices
  /\ \A i \in DOMAIN answers : answers'[i].by = answers[i].by

\* What happens to a request that posts a form while no other one is open.
LEMMA AloneSteps ==
  ASSUME TInv, [Next]_vars, NEW r \in Requests, message[r] # None,
         phase[r] # "new",
         \A q \in Requests \ {r} : message[q] # None => phase[q] \in Ended
  PROVE  \/ Untouched(r) \/ phase'[r] = "failed"
         \/ SaveMessage(r) \/ FindAnswer(r) \/ SaveAnswer(r)
         \/ FindChoice(r) \/ SaveChoice(r)
<1>1. CASE UNCHANGED vars
  BY <1>1 DEF vars, process, Untouched
<1>2. ASSUME NEW m \in Messages, NotFeedback(m) PROVE Untouched(r)
  BY <1>2 DEF NotFeedback, process, Untouched
<1>3. ASSUME NEW q \in Requests, Step(q), q # r PROVE Untouched(r)
  <2>1. phase[q] \notin {"message", "find", "answer", "option", "choice"}
    BY <1>3, NoneAssumption DEF TInv, PhaseInv, Ended
  <2>2. ~ (SaveMessage(q) \/ FindAnswer(q) \/ SaveAnswer(q) \/ FindChoice(q)
             \/ SaveChoice(q))
    BY <2>1 DEF SaveMessage, FindAnswer, SaveAnswer, FindChoice, SaveChoice
  <2>3. ASSUME NEW m \in Messages, NEW s \in Submissions, Post(q, m, s)
        PROVE  Untouched(r)
    BY <1>3, <2>3 DEF Post, Begin, Goto, Untouched, TInv, TypeOK
  <2>4. CASE BeginDelete(q)
    BY <1>3, <2>4 DEF BeginDelete, Begin, Goto, Untouched, TInv, TypeOK
  <2>5. ASSUME NEW i \in todo[q], Remove(q, i)
        PROVE  Untouched(r)
    <3>1. \A j \in DOMAIN answers : answers'[j].by = answers[j].by
      BY <2>5, RemoveRows
    <3>2. QED
      BY <1>3, <2>5, <3>1 DEF Remove, Goto, Untouched, TInv, TypeOK
  <2>6. CASE RemoveChoices(q) \/ Fail(q)
    BY <1>3, <2>6 DEF RemoveChoices, Fail, Goto, Untouched, TInv, TypeOK
  <2>7. QED
    BY <1>3, <2>2, <2>3, <2>4, <2>5, <2>6 DEF Step
<1>4. ASSUME Step(r)
      PROVE  \/ phase'[r] = "failed"
             \/ SaveMessage(r) \/ FindAnswer(r) \/ SaveAnswer(r)
             \/ FindChoice(r) \/ SaveChoice(r)
  <2>1. phase[r] \notin {"new", "delete", "choices"}
    BY DEF TInv, PhaseInv
  <2>2. Fail(r) => phase'[r] = "failed"
    BY DEF Fail, Goto, TInv, TypeOK
  <2>3. QED
    BY <1>4, <2>1, <2>2 DEF Step, Post, Begin, BeginDelete, Remove, RemoveChoices
<1>5. QED
  BY <1>1, <1>2, <1>3, <1>4 DEF Next

\* An option that is kept stays so while the choices do.
LEMMA KeptStays ==
  ASSUME TInv, RowsKept, NEW r \in Requests, choices' = choices,
         message'[r] = message[r], form'[r] = form[r],
         \A i \in DOMAIN answers : answers[i].by = r => answers'[i].by = r,
         NEW n, NEW o, IsKept(r, n, o)
  PROVE  IsKept(r, n, o)'
<1>1. \A c \in DOMAIN choices : choices[c].answer \in DOMAIN answers
  BY DEF TInv, TypeOK
<1>2. OptionsOf(form[r])' = OptionsOf(form[r])
  BY DEF OptionsOf
<1>3. QED
  BY <1>1, <1>2 DEF IsKept, RowsKept

\* Request r, alone with its form, and what has been proved of every step.
Apart(r) ==
  /\ BInv /\ PostedInv /\ RowsKept /\ AloneInv(r)
  /\ r \in Requests /\ message[r] \in Messages /\ ~ form[r].useless
  /\ message'[r] = message[r] /\ form'[r] = form[r]

\* The numbers of questions and options.
LEMMA FormNumbers ==
  ASSUME TypeOK, NEW r \in Requests
  PROVE  /\ item[r] \in Nat /\ option[r] \in Nat
         /\ DOMAIN form[r].items = 1 .. Len(form[r].items)
         /\ Len(form[r].items) \in Nat
         /\ \A n \in DOMAIN form[r].items :
              /\ n \in Nat \ {0}
              /\ DOMAIN form[r].items[n].options
                   = 1 .. Len(form[r].items[n].options)
              /\ Len(form[r].items[n].options) \in Nat
<1>1. form[r].items \in Seq(Item)
  BY DEF TypeOK, Submission
<1>2. \A n \in 1 .. Len(form[r].items) : form[r].items[n].options \in Seq(Options)
  BY ItemType
<1>3. QED
  BY <1>1, <1>2 DEF TypeOK

\* A step that writes no choice keeps what is kept.
LEMMA AllKeptStays ==
  ASSUME NEW r, Apart(r), choices' = choices,
         \A i \in DOMAIN answers : answers[i].by = r => answers'[i].by = r,
         phase[r] \in {"find", "answer", "option", "choice", "done"},
         \A n \in DOMAIN form[r].items : \A k \in DOMAIN form[r].items[n].options :
           HasSaved(r, n, k)' => HasSaved(r, n, k)
  PROVE  AllKept(r)'
<1>1. SUFFICES ASSUME NEW n \in DOMAIN form[r].items,
                      NEW k \in DOMAIN form[r].items[n].options,
                      NEW o, o = form[r].items[n].options[k], HasSaved(r, n, k)'
               PROVE  IsKept(r, n, o)'
  BY DEF AllKept, Apart
<1>2. IsKept(r, n, o)
  BY <1>1 DEF Apart, AloneInv, AllKept
<1>3. QED
  BY <1>2, KeptStays DEF Apart, BInv

LEMMA UntouchedAlone ==
  ASSUME NEW r, Apart(r), Untouched(r)
  PROVE  AloneInv(r)'
<1>1. AllKept(r)'
  <2>1. CASE phase[r] \in {"find", "answer", "option", "choice", "done"}
    BY <2>1, AllKeptStays DEF Untouched, HasSaved
  <2>2. CASE phase[r] \notin {"find", "answer", "option", "choice", "done"}
    BY <2>2 DEF AllKept, Untouched
  <2>3. QED
    BY <2>1, <2>2
<1>2. phase[r] \in {"option", "choice"} => answer[r] \in DOMAIN answers
  BY DEF Apart, BInv, TInv, PhaseInv
<1>3. NextOption(r)' = NextOption(r)
  BY DEF NextOption, Chosen, Untouched, Apart
<1>4. QED
  BY <1>1, <1>2, <1>3 DEF AloneInv, Apart, Untouched, RowsKept

LEMMA SaveMessageAlone ==
  ASSUME NEW r, Apart(r), SaveMessage(r)
  PROVE  AloneInv(r)'
<1>1. TypeOK /\ item'[r] = 0 /\ item[r] = 0
  BY DEF SaveMessage, Apart, BInv, TInv, PhaseInv
<1>2. /\ phase'[r] \in {"find", "done"}
      /\ phase'[r] = "done" => 0 = Len(form[r].items)
  BY <1>1 DEF SaveMessage, Continue, Goto, Apart, TypeOK
<1>3. \A n \in DOMAIN form[r].items : n # 0 /\ ~ (n < 0)
  BY <1>1, FormNumbers DEF Apart
<1>4. AllKept(r)'
  BY <1>1, <1>3 DEF AllKept, HasSaved, Apart
<1>5. QED
  BY <1>1, <1>2, <1>4 DEF AloneInv, Apart

LEMMA FindAnswerAlone ==
  ASSUME NEW r, Apart(r), FindAnswer(r)
  PROVE  AloneInv(r)'
<1>1. phase[r] = "find" /\ phase'[r] = "answer"
  BY DEF FindAnswer, Goto, Apart, BInv, TInv, TypeOK
<1>2. item' = item /\ choices' = choices /\ answers' = answers
  BY DEF FindAnswer
<1>3. AllKept(r)'
  BY <1>1, <1>2, AllKeptStays DEF HasSaved
<1>4. QED
  BY <1>1, <1>3 DEF AloneInv

LEMMA SaveAnswerAlone ==
  ASSUME NEW r, Apart(r), SaveAnswer(r)
  PROVE  AloneInv(r)'
<1>1. TInv /\ TypeOK /\ r \in Requests
  BY DEF Apart, BInv, TInv
<1>2. /\ phase[r] = "answer" /\ item'[r] = item[r] + 1 /\ option'[r] = 0
      /\ answer'[r] = RowId(r) /\ choices' = choices
  BY <1>1 DEF SaveAnswer, TypeOK
<1>3. item[r] + 1 \in DOMAIN form[r].items
  BY <1>1, <1>2, FormNumbers DEF TInv, PhaseInv
<1>4. \/ phase'[r] = "option"
      \/ /\ phase'[r] \in {"find", "done"} /\ form[r].items[item[r] + 1].options = <<>>
         /\ phase'[r] = "done" => item[r] + 1 = Len(form[r].items)
  BY <1>1 DEF SaveAnswer, Continue, Goto, Current, TypeOK
<1>5. answers'[RowId(r)] = Saved(r)
  BY <1>1, SaveAnswerRows
<1>6. AllKept(r)'
  <2>1. \A i \in DOMAIN answers : answers[i].by = r => answers'[i].by = r
    <3>1. answers'[RowId(r)].by = r
      BY <1>5 DEF Saved
    <3>2. \A i \in DOMAIN answers : i # RowId(r) => answers'[i] = answers[i]
      BY <1>1, SaveAnswerRows
    <3>3. QED
      BY <3>1, <3>2
  <2>2. ASSUME NEW n \in DOMAIN form[r].items,
               NEW k \in DOMAIN form[r].items[n].options, HasSaved(r, n, k)'
        PROVE  HasSaved(r, n, k)
    <3>1. n \in Nat /\ k \in Nat \ {0} /\ item[r] \in Nat
      BY <1>1, FormNumbers
    <3>2. n # item[r] + 1
      <4>1. SUFFICES ASSUME n = item[r] + 1 PROVE FALSE
        OBVIOUS
      <4>2. phase'[r] = "option"
        BY <1>4, <4>1
      <4>3. k <= 0
        BY <1>2, <2>2, <3>1, <4>1, <4>2 DEF HasSaved
      <4>4. QED
        BY <3>1, <4>3
    <3>3. n <= item[r]
      BY <1>2, <2>2, <3>1, <3>2 DEF HasSaved
    <3>4. QED
      BY <1>2, <3>1, <3>3 DEF HasSaved
  <2>3. QED
    BY <1>2, <2>1, <2>2, AllKeptStays
<1>7. /\ answers'[answer'[r]].message = message'[r]
      /\ answers'[answer'[r]].question = form'[r].items[item'[r]].question
      /\ answers'[answer'[r]].by = r
  BY <1>2, <1>5 DEF Saved, Current, Apart
<1>8. QED
  BY <1>2, <1>4, <1>6, <1>7 DEF AloneInv, Apart

LEMMA FindChoiceAlone ==
  ASSUME NEW r, Apart(r), FindChoice(r)
  PROVE  AloneInv(r)'
<1>1. /\ phase[r] = "option" /\ phase'[r] = "choice"
      /\ choice'[r] = IF NextOption(r) \in DOMAIN choices THEN NextOption(r) ELSE 0
  BY DEF FindChoice, Goto, Apart, BInv, TInv, TypeOK
<1>2. /\ item' = item /\ choices' = choices /\ answers' = answers
      /\ option' = option /\ answer' = answer
  BY DEF FindChoice
<1>3. NextOption(r)' = NextOption(r)
  BY <1>2 DEF NextOption, Chosen, Apart
<1>4. AllKept(r)'
  BY <1>1, <1>2, AllKeptStays DEF HasSaved
<1>5. QED
  BY <1>1, <1>2, <1>3, <1>4 DEF AloneInv, Apart

\* The table of choices after one is saved.
LEMMA SaveChoiceRows ==
  ASSUME NEW r, Apart(r), SaveChoice(r)
  PROVE  \E row :
           /\ DOMAIN choices' = DOMAIN choices \cup {row}
           /\ choices'[row].answer = answer[r]
           /\ choices'[row].option = NextOption(r)
           /\ \A c \in DOMAIN choices : c # row => choices'[c] = choices[c]
           /\ row \in DOMAIN choices => row = NextOption(r)
<1>1. TInv /\ phase[r] = "choice" /\ r \in Requests
  BY DEF Apart, BInv, SaveChoice
<1>2. choice[r] \in {0} \cup DOMAIN choices /\ choices \in Seq(Choice)
  BY <1>1 DEF TInv, TypeOK, PhaseInv
<1>3. \A row : Written(r, row) \in Choice
  <2>1. /\ item[r] \in 1 .. Len(form[r].items) /\ option[r] < Len(Chosen(r))
        /\ option[r] \in Nat /\ answer[r] \in Nat \ {0}
    BY <1>1 DEF TInv, TypeOK, PhaseInv
  <2>2. Chosen(r) \in Seq(Options)
    BY <1>1, <2>1, ItemType DEF TInv, Chosen
  <2>3. NextOption(r) \in Options
    BY <2>1, <2>2 DEF NextOption
  <2>4. QED
    BY <2>1, <2>3 DEF Written, Choice
<1>4. \A row : Written(r, row).answer = answer[r]
               /\ Written(r, row).option = NextOption(r)
  BY DEF Written
<1>5. CASE choice[r] = 0
  <2> DEFINE x == Written(r, None)
             row == Len(choices) + 1
  <2>1. choices' = Append(choices, x)
    BY <1>5 DEF SaveChoice
  <2>2. x \in Choice /\ x.answer = answer[r] /\ x.option = NextOption(r)
    BY <1>3, <1>4
  <2> HIDE DEF x
  <2>3. /\ DOMAIN choices' = DOMAIN choices \cup {row} /\ choices'[row] = x
        /\ \A c \in DOMAIN choices : choices'[c] = choices[c]
        /\ row \notin DOMAIN choices
    BY <1>2, <2>1, <2>2, AppendFacts
  <2> HIDE DEF row
  <2>4. QED
    BY <2>2, <2>3
<1>6. CASE choice[r] # 0
  <2>1. /\ choice[r] \in DOMAIN choices
        /\ choices' = [choices EXCEPT ![choice[r]] =
                         Written(r, choices[choice[r]])]
    BY <1>2, <1>6 DEF SaveChoice
  <2>2. choice[r] = NextOption(r)
    BY <1>1, <1>6 DEF Apart, AloneInv
  <2> DEFINE x == Written(r, choices[choice[r]])
  <2>3. x \in Choice /\ x.answer = answer[r] /\ x.option = NextOption(r)
        /\ choices' = [choices EXCEPT ![choice[r]] = x]
    BY <1>3, <1>4, <2>1
  <2> HIDE DEF x
  <2>4. /\ DOMAIN choices' = DOMAIN choices /\ choices'[choice[r]] = x
        /\ \A c \in DOMAIN choices : c # choice[r] => choices'[c] = choices[c]
    BY <1>2, <2>1, <2>3, ReplaceFacts
  <2>5. DOMAIN choices' = DOMAIN choices \cup {choice[r]}
    BY <2>1, <2>4
  <2>6. QED
    BY <2>2, <2>3, <2>4, <2>5
<1>7. QED
  BY <1>5, <1>6

LEMMA SaveChoiceAlone ==
  ASSUME NEW r, Apart(r), SaveChoice(r)
  PROVE  AloneInv(r)'
<1>1. TInv /\ TypeOK /\ r \in Requests
  BY DEF Apart, BInv, TInv
<1>2. /\ phase[r] = "choice" /\ option'[r] = option[r] + 1
      /\ item' = item /\ answers' = answers /\ answer' = answer
  BY <1>1 DEF SaveChoice, TypeOK
<1>3. /\ item[r] \in DOMAIN form[r].items
      /\ option[r] + 1 \in DOMAIN form[r].items[item[r]].options
      /\ answer[r] \in DOMAIN answers
      /\ NextOption(r) = form[r].items[item[r]].options[option[r] + 1]
  <2>1. item[r] \in DOMAIN form[r].items /\ option[r] < Len(Chosen(r))
        /\ answer[r] \in DOMAIN answers
    BY <1>1, <1>2, FormNumbers DEF TInv, PhaseInv
  <2>2. QED
    BY <1>1, <2>1, FormNumbers DEF Chosen, NextOption
<1>4. \/ phase'[r] = "option"
      \/ /\ phase'[r] \in {"find", "done"}
         /\ option[r] + 1 = Len(form[r].items[item[r]].options)
         /\ phase'[r] = "done" => item[r] = Len(form[r].items)
  BY <1>1 DEF SaveChoice, Continue, Goto, Chosen, TypeOK
<1>5. /\ answers[answer[r]].message = message[r]
      /\ answers[answer[r]].question = form[r].items[item[r]].question
      /\ answers[answer[r]].by = r
  BY <1>2 DEF Apart, AloneInv
<1>6. PICK row :
        /\ DOMAIN choices' = DOMAIN choices \cup {row}
        /\ choices'[row].answer = answer[r]
        /\ choices'[row].option = NextOption(r)
        /\ \A c \in DOMAIN choices : c # row => choices'[c] = choices[c]
        /\ row \in DOMAIN choices => row = NextOption(r)
  BY SaveChoiceRows
<1>7. NextOption(r) \in OptionsOf(form[r])
  BY <1>3 DEF OptionsOf
<1>8. OptionsOf(form[r])' = OptionsOf(form[r])
  BY DEF OptionsOf, Apart
<1>9. AllKept(r)'
  <2>1. SUFFICES ASSUME NEW n \in DOMAIN form[r].items,
                        NEW k \in DOMAIN form[r].items[n].options,
                        NEW o, o = form[r].items[n].options[k], HasSaved(r, n, k)'
                 PROVE  IsKept(r, n, o)'
    BY DEF AllKept, Apart
  <2>2. n \in Nat /\ k \in Nat /\ item[r] \in Nat /\ option[r] \in Nat
    BY <1>1, FormNumbers
  <2>3. CASE n = item[r] /\ k = option[r] + 1
    <3>1. row \in DOMAIN choices' /\ choices'[row].option = o
      BY <1>3, <1>6, <2>1, <2>3
    <3>2. /\ answers'[choices'[row].answer].message = message'[r]
          /\ answers'[choices'[row].answer].question = form'[r].items[n].question
      BY <1>2, <1>5, <1>6, <2>3 DEF Apart
    <3>3. QED
      BY <3>1, <3>2 DEF IsKept
  <2>4. CASE ~ (n = item[r] /\ k = option[r] + 1)
    <3>1. HasSaved(r, n, k)
      <4>1. CASE n < item[r]
        BY <4>1 DEF HasSaved
      <4>2. CASE n = item[r] /\ phase'[r] = "option"
        BY <1>2, <2>1, <2>2, <2>4, <4>2 DEF HasSaved
      <4>3. CASE n = item[r] /\ phase'[r] # "option"
        <5>1. k <= Len(form[r].items[n].options)
          BY <1>1, FormNumbers
        <5>2. QED
          BY <1>2, <1>4, <2>2, <2>4, <4>3, <5>1 DEF HasSaved
      <4>4. QED
        BY <1>2, <2>1, <2>2, <4>1, <4>2, <4>3 DEF HasSaved
    <3>2. IsKept(r, n, o)
      BY <1>2, <2>1, <3>1 DEF Apart, AloneInv, AllKept
    <3>3. ASSUME NEW c \in DOMAIN choices, choices[c].option = o,
                 answers[choices[c].answer].message = message[r],
                 answers[choices[c].answer].question = form[r].items[n].question
          PROVE  IsKept(r, n, o)'
      <4>1. CASE c # row
        <5>1. c \in DOMAIN choices' /\ choices'[c] = choices[c]
          BY <1>6, <4>1
        <5>2. QED
          BY <1>2, <3>3, <5>1 DEF IsKept, Apart
      <4>2. CASE c = row /\ o # row
        <5>1. /\ c \in DOMAIN choices' /\ c = NextOption(r) /\ c # o
              /\ choices'[c].option = c /\ answers'[choices'[c].answer].by = r
          BY <1>2, <1>5, <1>6, <4>2
        <5>2. QED
          BY <1>7, <1>8, <5>1 DEF IsKept
      <4>3. CASE c = row /\ o = row
        <5>1. o = NextOption(r) /\ form[r] # EmptyForm
          BY <1>3, <1>6, <4>3, FormNumbers DEF EmptyForm
        <5>2. form[r] \in Submissions
          BY <5>1 DEF Apart, PostedInv
        <5>3. form[r].items[n].question = form[r].items[item[r]].question
          BY <1>3, <2>1, <5>1, <5>2, OptionOfOneQuestion
        <5>4. /\ c \in DOMAIN choices' /\ choices'[c].option = o
              /\ answers'[choices'[c].answer].message = message'[r]
              /\ answers'[choices'[c].answer].question = form'[r].items[n].question
          BY <1>2, <1>5, <1>6, <4>3, <5>1, <5>3 DEF Apart
        <5>5. QED
          BY <5>4 DEF IsKept
      <4>4. QED
        BY <4>1, <4>2, <4>3
    <3>4. ASSUME NEW c \in DOMAIN choices, c # o, c \in OptionsOf(form[r]),
                 choices[c].option = c, answers[choices[c].answer].by = r
          PROVE  IsKept(r, n, o)'
      <4>1. /\ c \in DOMAIN choices' /\ choices'[c].option = c
            /\ answers'[choices'[c].answer].by = r
        BY <1>2, <1>5, <1>6, <3>4
      <4>2. QED
        BY <1>8, <3>4, <4>1 DEF IsKept
    <3>5. QED
      BY <3>2, <3>3, <3>4 DEF IsKept
  <2>5. QED
    BY <2>3, <2>4
<1>10. QED
  BY <1>2, <1>4, <1>5, <1>9 DEF AloneInv, Apart

LEMMA NextStoreInv ==
  ASSUME BInv, FormInv, PostedInv, StoreInv, [Next]_vars
  PROVE  StoreInv'
<1>1. SUFFICES ASSUME NEW r \in Requests, Alone(r)', ~ form'[r].useless
               PROVE  AloneInv(r)'
  BY DEF StoreInv
<1>2. TInv /\ TInv' /\ PostedInv' /\ RowsKept /\ Keeps(r)
  BY NextBInv, NextPostedInv, NextKeeps DEF BInv
<1>3. CASE message'[r] = None
  <2>1. form'[r] = EmptyForm /\ item'[r] = 0
    BY <1>2, <1>3 DEF PostedInv
  <2>2. phase'[r] \notin {"option", "choice"}
    BY <1>2, <1>3, NoneAssumption DEF TInv, PhaseInv
  <2>3. DOMAIN form'[r].items = {} /\ Len(form'[r].items) = 0
    BY <2>1 DEF EmptyForm
  <2>4. QED
    BY <2>1, <2>2, <2>3 DEF AloneInv, AllKept
<1>4. CASE message'[r] # None /\ phase[r] = "new"
  <2>1. message[r] = None /\ phase'[r] # "new"
    BY <1>2, <1>4 DEF TInv, PhaseInv
  <2>2. Step(r)
    BY <1>2, <1>4, <2>1, OwnStep
  <2>3. \E m \in Messages, s \in Submissions : Post(r, m, s)
    BY <1>4, <2>1, <2>2 DEF Step, SaveMessage, FindAnswer, SaveAnswer,
       FindChoice, SaveChoice, BeginDelete, Remove, RemoveChoices, Fail
  <2>4. phase'[r] = "message"
    BY <1>2, <2>3 DEF Post, Begin, Goto, TInv, TypeOK
  <2>5. QED
    BY <2>4 DEF AloneInv, AllKept
<1>5. CASE message'[r] # None /\ phase[r] # "new"
  <2>1. /\ Alone(r) /\ message'[r] = message[r] /\ form'[r] = form[r]
        /\ \A q \in Requests \ {r} : message[q] # None => phase[q] \in Ended
    BY <1>1, <1>5, AloneWas
  <2>2. Apart(r)
    BY <1>1, <1>2, <1>5, <2>1 DEF Apart, StoreInv, TInv, TypeOK
  <2>3. CASE phase'[r] = "failed"
    BY <2>3 DEF AloneInv, AllKept
  <2>4. QED
    BY <1>2, <1>5, <2>1, <2>2, <2>3, AloneSteps, UntouchedAlone, SaveMessageAlone,
       FindAnswerAlone, SaveAnswerAlone, FindChoiceAlone, SaveChoiceAlone
<1>6. QED
  BY <1>3, <1>4, <1>5

\* When no other form was posted meanwhile, the options that a form chose are
\* stored with its answers, but for those whose row was taken for an option
\* that has the id of the row (analysis.service.ts:106-119).
THEOREM ChoicesKept == Spec => []ChoicesStored
<1> DEFINE IInv == BInv /\ FormInv /\ PostedInv /\ StoreInv
<1>1. Init => IInv
  <2> SUFFICES ASSUME Init PROVE IInv
    OBVIOUS
  <2>1. BInv
    BY InitBInv
  <2>2. FormInv /\ PostedInv
    BY DEF Init, FormInv, PostedInv
  <2>3. StoreInv
    BY DEF Init, StoreInv, AloneInv, AllKept
  <2>4. QED
    BY <2>1, <2>2, <2>3
<1>2. IInv /\ [Next]_vars => IInv'
  BY NextBInv, NextFormInv, NextPostedInv, NextStoreInv DEF BInv
<1>3. IInv => ChoicesStored
  <2> SUFFICES ASSUME IInv, NEW r \in Requests, phase[r] = "done",
                      ~ form[r].useless, Alone(r),
                      NEW n \in DOMAIN form[r].items,
                      NEW k \in DOMAIN form[r].items[n].options,
                      NEW o, o = form[r].items[n].options[k]
               PROVE  IsKept(r, n, o)
    BY DEF ChoicesStored, Alone, IsKept
  <2>1. n \in Nat /\ item[r] = Len(form[r].items) /\ n <= Len(form[r].items)
        /\ Len(form[r].items) \in Nat
    BY FormNumbers DEF BInv, TInv, StoreInv, AloneInv
  <2>2. HasSaved(r, n, k)
    BY <2>1 DEF HasSaved
  <2>3. QED
    BY <2>2 DEF StoreInv, AloneInv, AllKept
<1>4. QED
  <2>1. Init => IInv
    BY <1>1
  <2>2. IInv /\ [Next]_vars => IInv'
    BY <1>2
  <2>3. IInv => ChoicesStored
    BY <1>3
  <2>4. QED
    BY <2>1, <2>2, <2>3, PTL DEF Spec
=============================================================================
