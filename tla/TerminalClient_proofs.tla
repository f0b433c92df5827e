------------------------ MODULE TerminalClient_proofs ------------------------
(* Theorems about TerminalClient, for every set of texts, of answers and of *)
(* terminals, any length of a page, and however many jobs are made.         *)
EXTENDS TerminalClient, FiniteSetTheorems, SequenceTheorems, TLAPS

-----------------------------------------------------------------------------
(* The form's jobs.                                                         *)

(* While the form is open, every job it made was answered with an error.    *)
FormInv ==
    /\ form.jobs \in Nat /\ form.errors \in Nat
    /\ form.jobs <= 1 + form.errors
    /\ screen \in {"RequestSelect", "RequestField"} => form.jobs <= form.errors

LEMMA InitFormInv == ClientInit => FormInv
BY DEF ClientInit, NewForm, FormInv

(* A step that leaves the form, and opens no screen of it.                  *)
LEMMA LeavesForm ==
    ASSUME FormInv, UNCHANGED form,
           screen' \notin {"RequestSelect", "RequestField"} \/ screen' = screen
    PROVE  FormInv'
BY DEF FormInv

(* What a submit adds to the form.                                          *)
LEMMA SubmitAdds ==
    ASSUME NEW jobs \in Nat, NEW errors \in Nat, Submit(jobs, errors)
    PROVE  /\ form'.jobs = form.jobs + jobs
           /\ form'.errors = form.errors + errors
           /\ screen = "RequestField"
BY DEF Submit, Enter

LEMMA FormKeepsInv ==
    ASSUME FormInv,
           \/ start_request \/ \E kind \in Kinds : select_task(kind)
           \/ AcceptField \/ submit_request \/ submit_request_Refused
           \/ submit_request_AnswerLost
    PROVE  FormInv'
<1>1. CASE start_request
  BY <1>1 DEF start_request, NewForm, FormInv
<1>2. CASE \E kind \in Kinds : select_task(kind)
  BY <1>2 DEF select_task, FormInv
<1>3. CASE AcceptField
  <2>1. form' = [form EXCEPT !.entered = Entered] /\ screen' = screen
    BY <1>3 DEF AcceptField
  <2>2. form'.jobs = form.jobs /\ form'.errors = form.errors
    BY <2>1
  <2> QED
    BY <2>1, <2>2 DEF FormInv
<1>4. CASE submit_request
  <2>1. Submit(1, 0) /\ screen' = "Home"
    BY <1>4 DEF submit_request
  <2>2. form'.jobs = form.jobs + 1 /\ form'.errors = form.errors + 0 /\ screen = "RequestField"
    BY <2>1, SubmitAdds
  <2> QED
    BY <2>1, <2>2 DEF FormInv
<1>5. CASE submit_request_Refused
  <2>1. Submit(0, 1) /\ screen' = screen
    BY <1>5 DEF submit_request_Refused
  <2>2. form'.jobs = form.jobs + 0 /\ form'.errors = form.errors + 1 /\ screen = "RequestField"
    BY <2>1, SubmitAdds
  <2> QED
    BY <2>1, <2>2 DEF FormInv
<1>6. CASE submit_request_AnswerLost
  <2>1. Submit(1, 1) /\ screen' = screen
    BY <1>6 DEF submit_request_AnswerLost
  <2>2. form'.jobs = form.jobs + 1 /\ form'.errors = form.errors + 1 /\ screen = "RequestField"
    BY <2>1, SubmitAdds
  <2> QED
    BY <2>1, <2>2 DEF FormInv
<1> QED
  BY <1>1, <1>2, <1>3, <1>4, <1>5, <1>6

LEMMA StepKeepsFormInv == FormInv /\ [ClientNext]_clientVars => FormInv'
<1> SUFFICES ASSUME FormInv, [ClientNext]_clientVars PROVE FormInv'
  OBVIOUS
<1>1. CASE cancel_request
  BY <1>1, LeavesForm DEF cancel_request
<1>2. CASE \E text \in Texts[request.field] : Type(text)
  BY <1>2, LeavesForm DEF Type
<1>3. CASE load_tasks
  BY <1>3, LeavesForm DEF load_tasks
<1>4. CASE PreviousPage \/ NextPage
  BY <1>4, LeavesForm DEF PreviousPage, NextPage
<1>5. CASE \E selector \in 0..TASKS_PER_PAGE - 1, answer \in Answers :
              load_task_details(selector, answer)
  BY <1>5, LeavesForm DEF load_task_details
<1>6. CASE ScrollUp \/ \E height \in Heights : ScrollDown(height)
  BY <1>6, LeavesForm DEF ScrollUp, ScrollDown
<1>7. CASE Help \/ Back \/ Quit
  BY <1>7, LeavesForm DEF Help, Back, Quit, GoTo
<1>8. CASE OthersPost \/ OthersClear
  BY <1>8, LeavesForm DEF OthersPost, OthersClear
<1>9. CASE UNCHANGED clientVars
  BY <1>9, LeavesForm DEF clientVars
<1> QED
  BY <1>1, <1>2, <1>3, <1>4, <1>5, <1>6, <1>7, <1>8, <1>9, FormKeepsInv DEF ClientNext

(* A form makes a second job only after an error was shown for the first.   *)
THEOREM SecondJobNeedsErrorTheorem == ClientSpec => []SecondJobNeedsError
<1>1. FormInv => SecondJobNeedsError
  BY DEF FormInv, SecondJobNeedsError
<1> QED
  BY <1>1, InitFormInv, StepKeepsFormInv, PTL DEF ClientSpec

-----------------------------------------------------------------------------
(* Induction on a finite set is a search for a minimal counterexample: a    *)
(* set of its subsets that is not empty has a minimal one.                  *)
LEMMA FiniteSubsets ==
    ASSUME NEW S, IsFiniteSet(S)
    PROVE  IsWellFoundedOn(StrictSubsetOrdering(S), SUBSET S)
  BY FS_StrictSubsetOrderingWellFounded, FS_FiniteSubsetsOfFinite

HasMinimal(T) == \E m \in T : \A u \in T : u \subseteq m => u = m

LEMMA Minimal ==
    ASSUME NEW S, IsFiniteSet(S), NEW T, T \subseteq SUBSET S, T # {}
    PROVE  HasMinimal(T)
<1>1. \E m \in T : \A u \in T : ~ (<<u, m>> \in StrictSubsetOrdering(S))
  <2>1. IsWellFoundedOn(StrictSubsetOrdering(S), SUBSET S)
    BY FiniteSubsets
  <2> QED
    BY <2>1, WFMin
<1> QED
  BY <1>1 DEF StrictSubsetOrdering, HasMinimal

(* A set of numbers that is not empty has a least one.                      *)
LEMMA LeastNumber ==
    ASSUME NEW S \in SUBSET Nat, S # {}
    PROVE  \E n \in S : \A m \in S : n <= m
<1>1. PICK top \in S : TRUE
  OBVIOUS
<1> DEFINE B == {m \in S : m <= top}
           Upto(k) == {m \in B : m <= k}
           T == {Upto(k) : k \in B}
<1>2. IsFiniteSet(B)
  BY FS_BoundedSetOfNaturals
<1>3. T \subseteq SUBSET B
  OBVIOUS
<1>4. Upto(top) \in T
  OBVIOUS
<1> HIDE DEF T, B, Upto
<1>5. PICK least \in T : \A u \in T : u \subseteq least => u = least
  BY <1>2, <1>3, <1>4, Minimal DEF HasMinimal
<1>6. PICK n \in B : least = Upto(n)
  BY <1>5 DEF T
<1>7. ASSUME NEW m \in S, m < n
      PROVE  FALSE
  <2>1. m \in B
    BY <1>6, <1>7 DEF B
  <2>2. Upto(m) \in T
    BY <2>1 DEF T
  <2>4. Upto(m) \subseteq Upto(n)
    <3>1. B \subseteq Nat /\ n \in B
      BY <1>6 DEF B
    <3>2. \A x \in B : x <= m => x <= n
      BY <1>7, <2>1, <3>1
    <3> QED
      BY <3>2 DEF Upto
  <2>3. n \in Upto(m)
    BY <1>5, <1>6, <2>2, <2>4 DEF Upto, B
  <2> QED
    BY <1>6, <1>7, <2>3 DEF Upto, B
<1> QED
  BY <1>6, <1>7 DEF B

(* A finite set of numbers can be listed in decreasing order.               *)
Enumerates(s, S) == /\ s \in [1..Cardinality(S) -> S]
                    /\ \A i \in 1..Cardinality(S) - 1 : s[i] > s[i + 1]

LEMMA NewestFirstExists ==
    ASSUME NEW S \in SUBSET Nat, IsFiniteSet(S)
    PROVE  \E s \in [1..Cardinality(S) -> S] : \A i \in 1..Cardinality(S) - 1 : s[i] > s[i + 1]
<1> DEFINE Without == {T \in SUBSET S : ~ \E s : Enumerates(s, T)}
<1>1. ASSUME Without # {}
      PROVE  FALSE
  <2>1. Without \subseteq SUBSET S
    OBVIOUS
  <2>2. PICK T \in Without : \A U \in Without : U \subseteq T => U = T
    <3>1. HasMinimal(Without)
      BY <1>1, <2>1, Minimal
    <3> HIDE DEF Without
    <3> QED
      BY <3>1 DEF HasMinimal
  <2> HIDE DEF Without
  <2>3. /\ T \subseteq S /\ T \subseteq Nat /\ IsFiniteSet(T)
        /\ Cardinality(T) \in Nat
        /\ \A s : ~ Enumerates(s, T)
    BY <2>1, <2>2, FS_Subset, FS_CardinalityType DEF Without
  <2>4. T # {}
    <3> SUFFICES ASSUME T = {}
                 PROVE  FALSE
      OBVIOUS
    <3>1. Cardinality(T) = 0
      BY FS_EmptySet
    <3>2. Enumerates([i \in 1..0 |-> 0], T)
      BY <3>1 DEF Enumerates
    <3> QED
      BY <2>3, <3>2
  <2>5. PICK m \in T : \A k \in T : m <= k
    BY <2>3, <2>4, LeastNumber
  <2> DEFINE U == T \ {m}
             n == Cardinality(T)
  <2>6. IsFiniteSet(U) /\ Cardinality(U) = n - 1 /\ n \in Nat
    BY <2>3, FS_RemoveElement
  <2>7. U \in SUBSET S /\ U \notin Without
    BY <2>2, <2>3
  <2>8. PICK s : Enumerates(s, U)
    BY <2>7 DEF Without
  <2>9. n \in Nat /\ n # 0
    BY <2>3, <2>4, FS_EmptySet
  <2> DEFINE e == [i \in 1..n |-> IF i = n THEN m ELSE s[i]]
  <2> HIDE DEF n
  <2>10. /\ s \in [1..n - 1 -> U]
         /\ \A i \in 1..n - 1 - 1 : s[i] > s[i + 1]
    BY <2>6, <2>8 DEF Enumerates
  <2>11. e \in [1..n -> T]
    BY <2>9, <2>10
  <2>12. ASSUME NEW i \in 1..n - 1
         PROVE  e[i] > e[i + 1]
    <3>1. i \in 1..n /\ i # n
      BY <2>9
    <3>4. e[i] = s[i] /\ s[i] \in U
      BY <2>10, <3>1
    <3>5. s[i] \in T /\ s[i] # m /\ s[i] \in Nat /\ m \in Nat
      BY <2>3, <3>4
    <3>2. CASE i + 1 = n
      BY <2>5, <2>9, <3>4, <3>5, <3>2
    <3>3. CASE i + 1 # n
      BY <2>9, <2>10, <3>1, <3>4, <3>3
    <3> QED
      BY <3>2, <3>3
  <2>13. Enumerates(e, T)
    BY <2>11, <2>12 DEF Enumerates, n
  <2> QED
    BY <2>3, <2>13
<1>2. \E s : Enumerates(s, S)
  BY <1>1
<1> QED
  BY <1>2 DEF Enumerates

(* The jobs of the service, newest first, as GET /jobs lists them.          *)
LEMMA NewestFirstFacts ==
    ASSUME made \in Nat, stored \subseteq 1..made
    PROVE  /\ NewestFirst \in Seq(Nat)
           /\ \A i \in DOMAIN NewestFirst : NewestFirst[i] \in stored
<1> DEFINE n == Cardinality(stored)
           D(s) == \A i \in 1..n - 1 : s[i] > s[i + 1]
<1>1. stored \in SUBSET Nat /\ IsFiniteSet(stored)
  <2>1. IsFiniteSet(1..made)
    BY FS_Interval
  <2>2. IsFiniteSet(stored)
    BY <2>1, FS_Subset
  <2> QED
    BY <2>2
<1>2. n \in Nat
  BY <1>1, FS_CardinalityType
<1>3. \E s \in [1..n -> stored] : D(s)
  BY <1>1, NewestFirstExists
<1>4. NewestFirst = CHOOSE s \in [1..n -> stored] : D(s)
  BY DEF NewestFirst
<1> HIDE DEF n, D
<1>5. NewestFirst \in [1..n -> stored]
  BY <1>3, <1>4
<1>6. NewestFirst \in [1..n -> Nat] /\ \A i \in DOMAIN NewestFirst : NewestFirst[i] \in stored
  BY <1>1, <1>5
<1> QED
  BY <1>2, <1>6, SeqDef

-----------------------------------------------------------------------------
(* The list and its page.                                                   *)

(* The page shown starts within the list, if it is not the first.           *)
ListInv ==
    /\ screen \in Screens
    /\ made \in Nat /\ stored \subseteq 1..made
    /\ list \in Seq(Nat) /\ \A i \in DOMAIN list : list[i] \in 1..made
    /\ task_page \in Nat
    /\ task_page = 0 \/ task_page * TASKS_PER_PAGE < Len(list)

(* A step that leaves the list alone; jobs may be posted or cleared.        *)
LEMMA ListStays ==
    ASSUME ListInv, UNCHANGED <<list, task_page>>, screen' \in Screens,
           made' \in Nat, made' >= made, stored' \subseteq 1..made'
    PROVE  ListInv'
<1>1. \A i \in DOMAIN list' : list'[i] \in 1..made'
  BY DEF ListInv
<1> QED
  BY <1>1 DEF ListInv

LEMMA SubmitStores ==
    ASSUME ListInv, NEW jobs \in {0, 1}, NEW errors, Submit(jobs, errors), screen' \in Screens
    PROVE  ListInv'
<1>1. /\ made' = made + jobs /\ stored' = stored \cup (made + 1)..made'
      /\ UNCHANGED <<list, task_page>>
  BY DEF Submit, listVars
<1>2. made' \in Nat /\ made' >= made /\ stored' \subseteq 1..made'
  BY <1>1 DEF ListInv
<1> QED
  BY <1>1, <1>2, ListStays

LEMMA CeilDivFact ==
    ASSUME NEW a \in Nat, NEW b \in Nat \ {0}
    PROVE  CeilDiv(a, b) \in Int /\ CeilDiv(a, b) * b <= a + b - 1
<1>1. \A n \in Nat : n \div b \in Int /\ (n \div b) * b <= n
  BY Z3
<1>2. a + b - 1 \in Nat
  OBVIOUS
<1> QED
  BY <1>1, <1>2 DEF CeilDiv

LEMMA ListStep == ListInv /\ [ClientNext]_clientVars => ListInv'
<1> SUFFICES ASSUME ListInv, [ClientNext]_clientVars
             PROVE  ListInv'
  OBVIOUS
<1>1. CASE \/ start_request \/ cancel_request \/ \E kind \in Kinds : select_task(kind)
           \/ \E text \in Texts[request.field] : Type(text)
           \/ AcceptField \/ Help \/ Back \/ Quit \/ UNCHANGED clientVars
           \/ ScrollUp \/ (\E height \in Heights : ScrollDown(height))
           \/ \E selector \in 0..TASKS_PER_PAGE - 1, answer \in Answers :
                 load_task_details(selector, answer)
  <2>1. /\ UNCHANGED <<list, task_page, stored, made>>
        /\ screen' = screen \/ screen' \in {"RequestSelect", "RequestField", "Home", "Help",
                                            "Tasks", "Details", "Closed"}
    BY <1>1 DEF start_request, cancel_request, select_task, Type, AcceptField, Help, Back, Quit,
                GoTo, clientVars, listVars, ScrollUp, ScrollDown, load_task_details
  <2>2. screen' \in Screens /\ made' \in Nat /\ made' >= made /\ stored' \subseteq 1..made'
    BY <2>1 DEF ListInv, Screens
  <2> QED
    BY <2>1, <2>2, ListStays
<1>2. CASE submit_request \/ submit_request_Refused \/ submit_request_AnswerLost
  <2>1. screen' \in Screens
    BY <1>2 DEF submit_request, submit_request_Refused, submit_request_AnswerLost, ListInv,
                Screens
  <2>2. Submit(1, 0) \/ Submit(0, 1) \/ Submit(1, 1)
    BY <1>2 DEF submit_request, submit_request_Refused, submit_request_AnswerLost
  <2> QED
    BY <2>1, <2>2, SubmitStores
<1>3. CASE load_tasks
  <2>1. /\ list' = NewestFirst /\ task_page' = 0 /\ screen' = "Tasks"
        /\ stored' = stored /\ made' = made
    BY <1>3 DEF load_tasks
  <2>2. NewestFirst \in Seq(Nat) /\ \A i \in DOMAIN NewestFirst : NewestFirst[i] \in stored
    BY NewestFirstFacts DEF ListInv
  <2> QED
    BY <2>1, <2>2 DEF ListInv, Screens
<1>4. CASE PreviousPage \/ NextPage
  <2>1. /\ screen' = screen /\ stored' = stored /\ made' = made /\ list' = list
        /\ \/ task_page > 0 /\ task_page' = task_page - 1
           \/ task_page + 1 < task_page_count /\ task_page' = task_page + 1
    BY <1>4 DEF PreviousPage, NextPage
  <2>2. /\ task_page \in Nat /\ Len(list) \in Nat /\ TASKS_PER_PAGE \in Nat \ {0}
        /\ task_page = 0 \/ task_page * TASKS_PER_PAGE < Len(list)
    BY ClientAssumption, LenProperties DEF ListInv
  <2>3. CASE task_page > 0 /\ task_page' = task_page - 1
    <3>1. (task_page - 1) * TASKS_PER_PAGE <= task_page * TASKS_PER_PAGE
      BY <2>2, <2>3
    <3> QED
      BY <2>1, <2>2, <2>3, <3>1 DEF ListInv
  <2>4. CASE task_page + 1 < task_page_count /\ task_page' = task_page + 1
    <3> DEFINE c == CeilDiv(Len(list), TASKS_PER_PAGE)
    <3>1. c \in Int /\ c * TASKS_PER_PAGE <= Len(list) + TASKS_PER_PAGE - 1
      BY <2>2, CeilDivFact
    <3> HIDE DEF c
    <3>2. task_page + 1 < c
      BY <2>2, <2>4, <3>1 DEF task_page_count, AtLeast, c
    <3>3. (task_page + 1 + 1) * TASKS_PER_PAGE <= c * TASKS_PER_PAGE
      BY <2>2, <3>1, <3>2
    <3>4. (task_page + 1 + 1) * TASKS_PER_PAGE = (task_page + 1) * TASKS_PER_PAGE + TASKS_PER_PAGE
      BY <2>2
    <3>5. (task_page + 1) * TASKS_PER_PAGE < Len(list)
      BY <2>2, <3>1, <3>3, <3>4
    <3> QED
      BY <2>1, <2>2, <2>4, <3>5 DEF ListInv
  <2> QED
    BY <2>1, <2>3, <2>4
<1>5. CASE OthersPost \/ OthersClear
  <2>1. /\ UNCHANGED <<screen, list, task_page>>
        /\ \/ made' = made + 1 /\ stored' = stored \cup {made'}
           \/ made' = made /\ stored' = {}
    BY <1>5 DEF OthersPost, OthersClear, listVars
  <2>2. made \in Nat /\ stored \subseteq 1..made /\ screen' \in Screens
    BY <2>1 DEF ListInv
  <2>3. CASE made' = made + 1 /\ stored' = stored \cup {made'}
    <3>1. made' \in 1..made' /\ made' \in Nat /\ made' >= made
      BY <2>2, <2>3
    <3>2. stored' \subseteq 1..made'
      BY <2>2, <2>3, <3>1
    <3> QED
      BY <2>1, <2>2, <3>1, <3>2, ListStays
  <2>4. CASE made' = made /\ stored' = {}
    BY <2>1, <2>2, <2>4, ListStays
  <2> QED
    BY <2>1, <2>3, <2>4
<1> QED
  BY <1>1, <1>2, <1>3, <1>4, <1>5 DEF ClientNext

LEMMA ListAlways == ClientSpec => []ListInv
<1>1. ClientInit => ListInv
  BY EmptySeq DEF ClientInit, ListInv, Screens
<1> QED
  BY <1>1, ListStep, PTL DEF ClientSpec

(* A digit opens the job that the page shows next to it, and no page of a   *)
(* list that has tasks is without any.                                      *)
THEOREM DigitsAlwaysOpenWhatTheyLabel == ClientSpec => []DigitsOpenWhatTheyLabel
<1>1. ListInv => DigitsOpenWhatTheyLabel
  <2> SUFFICES ASSUME ListInv
               PROVE  DigitsOpenWhatTheyLabel
    OBVIOUS
  <2> DEFINE start == task_page * TASKS_PER_PAGE
             n     == Len(list)
  <2>1. /\ start \in Nat /\ n \in Nat /\ TASKS_PER_PAGE \in Nat \ {0}
        /\ start <= n
        /\ n > 0 => start < n
    BY ClientAssumption, LenProperties DEF ListInv
  <2>2. list # <<>> => n > 0
    BY EmptySeq, LenProperties DEF ListInv
  <2>3. PageStart = AtMost(start, n) /\ PageEnd = AtMost(PageStart + TASKS_PER_PAGE, n)
    BY DEF PageStart, PageEnd
  <2>4. \A digit : Selected(digit) = IF start + digit < n THEN list[start + digit + 1] ELSE 0
    BY DEF Selected
  <2> HIDE DEF start, n
  <2>5. PageStart = start
    BY <2>1, <2>3 DEF AtMost
  <2>6. TaskLines = [indicator \in 0..PageEnd - start - 1 |-> list[start + indicator + 1]]
    BY <2>5 DEF TaskLines
  <2>7. PageEnd = IF start + TASKS_PER_PAGE > n THEN n ELSE start + TASKS_PER_PAGE
    BY <2>3, <2>5 DEF AtMost
  <2>8. ASSUME list # <<>>
        PROVE  TaskLines # <<>>
    <3>1. 0 \in 0..PageEnd - start - 1
      BY <2>1, <2>2, <2>7, <2>8
    <3>2. 0 \in DOMAIN TaskLines
      BY <2>6, <3>1
    <3>3. DOMAIN << >> = {}
      OBVIOUS
    <3> QED
      BY <3>2, <3>3
  <2>9. ASSUME NEW digit \in 0..TASKS_PER_PAGE - 1
        PROVE  Selected(digit) = IF digit \in DOMAIN TaskLines THEN TaskLines[digit] ELSE 0
    <3>1. start + digit < n <=> digit \in 0..PageEnd - start - 1
      BY <2>1, <2>7
    <3>2. DOMAIN TaskLines = 0..PageEnd - start - 1
      BY <2>6
    <3>3. digit \in 0..PageEnd - start - 1 => TaskLines[digit] = list[start + digit + 1]
      BY <2>6
    <3> QED
      BY <2>4, <3>1, <3>2, <3>3
  <2> QED
    BY <2>8, <2>9 DEF DigitsOpenWhatTheyLabel
<1> QED
  BY <1>1, ListAlways, PTL

-----------------------------------------------------------------------------
(* The details and their scrolling.                                         *)

(* How far a terminal can scroll down a job.                                *)
Lowest(job, height) == AtLeast(detail_lines(job) - AtLeast(height - 7, 0), 0)

ScrollInv ==
    /\ scroll \in Nat
    /\ details.job = None \/ details.job \in Answers
    /\ details.job # None => \E height \in Heights : scroll <= Lowest(details.job, height)

LEMMA LowestType ==
    ASSUME NEW job, job = None \/ job \in Answers, NEW height \in Heights
    PROVE  Lowest(job, height) \in Nat
<1>1. height \in Nat
  BY ClientAssumption
<1>2. detail_lines(job) \in Nat
  <2>1. CASE job = None
    BY <2>1 DEF detail_lines
  <2>2. CASE job # None
    <3>1. job.variables \in Nat /\ job.input_json \in Nat /\ job.result_json \in Nat
      BY <2>2, ClientAssumption
    <3>2. input_lines(job) \in Nat /\ result_lines(job) \in Nat /\ progress_lines(job) \in Nat
      BY <3>1 DEF input_lines, result_lines, progress_lines
    <3> QED
      BY <2>2, <3>2 DEF detail_lines
  <2> QED
    BY <2>1, <2>2
<1> QED
  BY <1>1, <1>2 DEF Lowest, AtLeast

LEMMA ScrollStep == ScrollInv /\ [ClientNext]_clientVars => ScrollInv'
<1> SUFFICES ASSUME ScrollInv, [ClientNext]_clientVars
             PROVE  ScrollInv'
  OBVIOUS
<1>1. CASE UNCHANGED <<details, scroll>>
  BY <1>1 DEF ScrollInv
<1>2. ASSUME NEW selector \in 0..TASKS_PER_PAGE - 1, NEW answer \in Answers,
             load_task_details(selector, answer)
      PROVE  ScrollInv'
  <2>1. details'.job = answer /\ scroll' = 0
    BY <1>2 DEF load_task_details
  <2>2. PICK height \in Heights : TRUE
    BY ClientAssumption
  <2>3. 0 <= Lowest(answer, height)
    BY LowestType
  <2> QED
    BY <2>1, <2>3 DEF ScrollInv
<1>3. CASE ScrollUp
  <2>1. details' = details /\ scroll' = AtLeast(scroll - 1, 0)
    BY <1>3 DEF ScrollUp
  <2>2. scroll' \in Nat /\ scroll' <= scroll
    BY <2>1 DEF ScrollInv, AtLeast
  <2>3. ASSUME details.job # None
        PROVE  \E height \in Heights : scroll' <= Lowest(details.job, height)
    <3>1. PICK height \in Heights : scroll <= Lowest(details.job, height)
      BY <2>3 DEF ScrollInv
    <3>2. Lowest(details.job, height) \in Nat /\ scroll \in Nat
      BY LowestType DEF ScrollInv
    <3> QED
      BY <2>2, <3>1, <3>2
  <2> QED
    BY <2>1, <2>2, <2>3 DEF ScrollInv
<1>4. ASSUME NEW height \in Heights, ScrollDown(height)
      PROVE  ScrollInv'
  <2>1. details' = details /\ scroll' = AtMost(scroll + 1, Lowest(details.job, height))
    BY <1>4 DEF ScrollDown, MaxScroll, Lowest
  <2>2. Lowest(details.job, height) \in Nat /\ scroll \in Nat
    BY LowestType DEF ScrollInv
  <2>3. scroll' \in Nat /\ scroll' <= Lowest(details.job, height)
    BY <2>1, <2>2 DEF AtMost
  <2> QED
    BY <2>1, <2>3 DEF ScrollInv
<1>5. \/ UNCHANGED <<details, scroll>> \/ ScrollUp \/ (\E height \in Heights : ScrollDown(height))
      \/ \E selector \in 0..TASKS_PER_PAGE - 1, answer \in Answers :
            load_task_details(selector, answer)
  BY DEF ClientNext, clientVars, listVars, start_request, cancel_request, select_task, Type,
         AcceptField, submit_request, submit_request_Refused, submit_request_AnswerLost, Submit,
         load_tasks, PreviousPage, NextPage, Help, Back, Quit, GoTo, OthersPost, OthersClear
<1> QED
  BY <1>1, <1>2, <1>3, <1>4, <1>5

(* The details are never scrolled further than the lowest terminal needs,   *)
(* however high the terminal is at each press and whatever is opened next.  *)
THEOREM NothingIsEverScrolledAway == ClientSpec => []NothingScrolledAway
<1>1. ClientInit => ScrollInv
  BY DEF ClientInit, ScrollInv
<1>2. ScrollInv => NothingScrolledAway
  BY DEF ScrollInv, NothingScrolledAway, MaxScroll, Lowest
<1> QED
  BY <1>1, <1>2, ScrollStep, PTL DEF ClientSpec

-----------------------------------------------------------------------------
(* The form's fields.                                                       *)

(* The value of the i-th field passed its check.                            *)
ValidAt(kind, i, values) ==
    values[i] # <<>> /\ validate_field(kind, i - 1, values[i], values)

(* The checks of an integration's fields.                                   *)
LEMMA FieldChecks ==
    ASSUME NEW text, NEW previous, NEW kind, kind # "monte_carlo_pi"
    PROVE  /\ validate_field(kind, 0, text, previous) <=> Bytes[text] <= 1000
           /\ validate_field(kind, 1, text, previous) <=> validate_variables(text)
           /\ validate_field(kind, 2, text, previous) <=> validate_bounds(2, text, previous)
           /\ validate_field(kind, 3, text, previous) <=> validate_bounds(3, text, previous)
           /\ validate_field(kind, 4, text, previous) <=> (IsU64(text) /\ 2 <= text[1] /\ text[1] <= 100000000)
           /\ validate_field(kind, 5, text, previous) <=> IsU64(text)
           /\ validate_field(kind, 6, text, previous) <=> validate_partitions(text, previous)
  BY DEF validate_field

(* A check looks at no value but those of the fields before.                *)
LEMMA ChecksLookBack ==
    ASSUME NEW kind, NEW field \in 0..6, NEW text, NEW before, NEW after,
           \A i \in 1..field : before[i] = after[i],
           validate_field(kind, field, text, before)
    PROVE  validate_field(kind, field, text, after)
<1>1. CASE kind = "monte_carlo_pi"
  BY <1>1 DEF validate_field
<1>2. CASE kind # "monte_carlo_pi" /\ field \in {0, 1, 4, 5}
  <2>1. field = 0 \/ field = 1 \/ field = 4 \/ field = 5
    BY <1>2
  <2>2. validate_field(kind, field, text, after) <=> validate_field(kind, field, text, before)
    BY <1>2, <2>1, FieldChecks
  <2> QED
    BY <2>2
<1>3. CASE kind # "monte_carlo_pi" /\ field \in {2, 3}
  <2>1. after[2] = before[2] /\ (field = 3 => after[3] = before[3])
    BY <1>3
  <2>2. validate_bounds(field, text, before) <=> validate_bounds(field, text, after)
    BY <2>1 DEF validate_bounds
  <2>3. validate_field(kind, field, text, after) <=> validate_field(kind, field, text, before)
    BY <1>3, <2>2, FieldChecks
  <2> QED
    BY <2>3
<1>4. CASE kind # "monte_carlo_pi" /\ field = 6
  <2>1. after[5] = before[5]
    BY <1>4
  <2>2. validate_partitions(text, before) <=> validate_partitions(text, after)
    BY <2>1 DEF validate_partitions
  <2>3. validate_field(kind, field, text, after) <=> validate_field(kind, field, text, before)
    BY <1>4, <2>2, FieldChecks
  <2> QED
    BY <2>3
<1> QED
  BY <1>1, <1>2, <1>3, <1>4

LEMMA SingleValue ==
    ASSUME NEW s \in Seq(Int), Len(s) = 1
    PROVE  s = <<s[1]>>
  OBVIOUS

(* Every value of a whole form was checked: then POST /jobs accepts what is *)
(* built of them unless its expression does not parse, and it says what     *)
(* they say.                                                                *)
AllValid(kind, values) ==
    /\ values \in Seq(Seq(Int)) /\ Len(values) >= field_count(kind)
    /\ \A i \in 1..field_count(kind) : ValidAt(kind, i, values)

(* The two lists of checks of a list of names.                              *)
LEMMA NamesAgree ==
    ASSUME NEW variables \in Seq(Int), validate_variables(variables)
    PROVE  validate_names(variables)
<1>1. /\ Len(variables) \in 1..10 /\ DOMAIN variables = 1..Len(variables)
      /\ \A i \in DOMAIN variables : valid_variable(variables[i])
      /\ \A i, j \in DOMAIN variables : variables[i] = variables[j] => i = j
  BY LenProperties DEF validate_variables
<1>2. ASSUME NEW i \in DOMAIN variables
      PROVE  is_valid_variable_name(variables[i])
  <2>1. PICK part : part = variables[i]
    OBVIOUS
  <2>2. PICK spelling : spelling = Spelling[part]
    OBVIOUS
  <2>3. /\ part \in Words /\ spelling # <<>>
        /\ spelling[1] \in {"letter", "_"}
        /\ \A k \in DOMAIN spelling : spelling[k] \in {"letter", "digit", "_"}
    BY <1>1, <2>1, <2>2 DEF valid_variable
  <2>4. spelling \in Seq(Classes)
    BY <2>2, <2>3, ClientAssumption
  <2>5. DOMAIN spelling = 1..Len(spelling) /\ Len(spelling) \in Nat
    BY <2>4, LenProperties
  <2>6. \A k \in 2..Len(spelling) : k \in DOMAIN spelling
    BY <2>5
  <2> QED
    BY <2>1, <2>2, <2>3, <2>6 DEF is_valid_variable_name
<1>3. ASSUME NEW i \in DOMAIN variables, NEW before \in 1..i - 1
      PROVE  variables[before] # variables[i]
  <2>1. i \in 1..Len(variables) /\ Len(variables) \in Nat
    BY <1>1
  <2>2. before \in DOMAIN variables /\ before # i
    BY <1>1, <1>3, <2>1
  <2> QED
    BY <1>1, <2>2
<1> QED
  BY <1>1, <1>2, <1>3 DEF validate_names, MAX_DIMENSIONS

LEMMA PiRequest ==
    ASSUME NEW values, AllValid("monte_carlo_pi", values)
    PROVE  /\ Accepted(build_request("monte_carlo_pi", values))
           /\ Parsed(build_request("monte_carlo_pi", values))
           /\ \A entered : entered[1] = values[1]
                  => SaysWhatWasEntered(build_request("monte_carlo_pi", values), entered)
<1> DEFINE r == build_request("monte_carlo_pi", values)
<1>1. r = [task |-> "monte_carlo_pi", iterations |-> values[1][1]]
  BY DEF build_request
<1>2. values[1] \in Seq(Int) /\ validate_field("monte_carlo_pi", 0, values[1], values)
  BY DEF AllValid, ValidAt, field_count
<1>3. Len(values[1]) = 1 /\ values[1][1] \in 0..MaxU64 /\ values[1][1] # 0
  BY <1>2 DEF validate_field, IsU64
<1>4. values[1][1] \in Int /\ values[1] = <<values[1][1]>>
  BY <1>2, <1>3, SingleValue, ElementOfSeq
<1> QED
  BY <1>1, <1>3, <1>4, ClientAssumption DEF Accepted, Parsed, SaysWhatWasEntered

LEMMA IntegrationRequest ==
    ASSUME NEW values, AllValid("monte_carlo_integration", values)
    PROVE  /\ Accepted(build_request("monte_carlo_integration", values))
                  <=> Parsed(build_request("monte_carlo_integration", values))
           /\ \A entered : (\A i \in 1..7 : entered[i] = values[i])
                  => SaysWhatWasEntered(build_request("monte_carlo_integration", values), entered)
<1> DEFINE r == build_request("monte_carlo_integration", values)
           minimum == values[3]
           maximum == values[4]
<1>1. r = [task |-> "monte_carlo_integration", expression |-> values[1],
           variables |-> values[2],
           bounds |-> [i \in DOMAIN minimum |-> [min |-> minimum[i], max |-> maximum[i]]],
           samples |-> values[5][1], seed |-> values[6][1], partitions |-> values[7][1]]
  BY DEF build_request, build_integration_request
<1>2. \A i \in 1..7 : ValidAt("monte_carlo_integration", i, values) /\ values[i] \in Seq(Int)
  <2>1. field_count("monte_carlo_integration") = 7
    BY DEF field_count
  <2>2. /\ values \in Seq(Seq(Int)) /\ Len(values) >= 7
        /\ \A i \in 1..7 : ValidAt("monte_carlo_integration", i, values)
    BY <2>1 DEF AllValid
  <2>3. ASSUME NEW i \in 1..7
        PROVE  values[i] \in Seq(Int)
    <3>1. Len(values) \in Nat
      BY <2>2, LenProperties
    <3>2. i \in 1..Len(values)
      BY <2>2, <3>1
    <3> QED
      BY <2>2, <3>2, ElementOfSeq
  <2> QED
    BY <2>2, <2>3
<1>3. values[1] # <<>> /\ Bytes[values[1]] <= MAX_EXPRESSION_LENGTH
  <2>1. values[1] # <<>> /\ validate_field("monte_carlo_integration", 1 - 1, values[1], values)
    BY <1>2 DEF ValidAt
  <2> QED
    BY <2>1, FieldChecks DEF MAX_EXPRESSION_LENGTH
<1>4. validate_variables(values[2])
  <2>1. validate_field("monte_carlo_integration", 2 - 1, values[2], values)
    BY <1>2 DEF ValidAt
  <2> QED
    BY <2>1, FieldChecks
<1>5. validate_bounds(2, minimum, values)
  <2>1. validate_field("monte_carlo_integration", 3 - 1, values[3], values)
    BY <1>2 DEF ValidAt
  <2> QED
    BY <2>1, FieldChecks
<1>6. validate_bounds(3, maximum, values)
  <2>1. validate_field("monte_carlo_integration", 4 - 1, values[4], values)
    BY <1>2 DEF ValidAt
  <2> QED
    BY <2>1, FieldChecks
<1>7. IsU64(values[5]) /\ 2 <= values[5][1] /\ values[5][1] <= 100000000
  <2>1. validate_field("monte_carlo_integration", 5 - 1, values[5], values)
    BY <1>2 DEF ValidAt
  <2> QED
    BY <2>1, FieldChecks
<1>8. IsU64(values[6])
  <2>1. validate_field("monte_carlo_integration", 6 - 1, values[6], values)
    BY <1>2 DEF ValidAt
  <2> QED
    BY <2>1, FieldChecks
<1>9. validate_partitions(values[7], values)
  <2>1. validate_field("monte_carlo_integration", 7 - 1, values[7], values)
    BY <1>2 DEF ValidAt
  <2> QED
    BY <2>1, FieldChecks
<1>10. /\ values[2] \in Seq(Int) /\ minimum \in Seq(Int) /\ maximum \in Seq(Int)
       /\ Len(minimum) = Len(values[2]) /\ Len(maximum) = Len(values[2])
       /\ \A i \in DOMAIN maximum : minimum[i] < maximum[i]
       /\ AllNumbers(minimum) /\ AllNumbers(maximum)
  BY <1>2, <1>5, <1>6 DEF validate_bounds
<1> HIDE DEF minimum, maximum, r
<1>11. DOMAIN minimum = 1..Len(values[2]) /\ DOMAIN maximum = 1..Len(values[2])
  BY <1>10, LenProperties
<1>12. /\ r.bounds = [i \in DOMAIN minimum |-> [min |-> minimum[i], max |-> maximum[i]]]
       /\ DOMAIN r.bounds = DOMAIN minimum
       /\ \A i \in DOMAIN minimum : r.bounds[i].min = minimum[i] /\ r.bounds[i].max = maximum[i]
  BY <1>1
<1>13. Len(r.bounds) = Len(values[2])
  <2> DEFINE n == Len(values[2])
  <2>1. n \in Nat
    BY <1>10, LenProperties
  <2>2. \A i \in 1..n : minimum[i] \in Int /\ maximum[i] \in Int
    BY <1>10, <1>11, ElementOfSeq
  <2> HIDE DEF n
  <2>3. r.bounds \in [1..n -> [min : Int, max : Int]]
    BY <1>11, <1>12, <2>2 DEF n
  <2> DEFINE Bounds == [min : Int, max : Int]
  <2>4. r.bounds \in Seq(Bounds)
    <3> HIDE DEF Bounds
    <3>1. r.bounds \in [1..n -> Bounds]
      BY <2>3 DEF Bounds
    <3> QED
      BY <2>1, <3>1, SeqDef
  <2>5. Len(r.bounds) \in Nat /\ 1..Len(r.bounds) = 1..n
    BY <1>11, <1>12, <2>4, LenProperties DEF n
  <2> QED
    BY <2>1, <2>5 DEF n
<1>14. Accepted(r) <=> Parsed(r)
  <2>1. /\ r.task = "monte_carlo_integration" /\ r.expression = values[1]
        /\ r.variables = values[2] /\ r.samples = values[5][1] /\ r.seed = values[6][1]
        /\ r.partitions = values[7][1]
    BY <1>1
  <2>2. ASSUME NEW i \in DOMAIN r.bounds
        PROVE  /\ {r.bounds[i].min, r.bounds[i].max} \cap Words = {}
               /\ r.bounds[i].min < r.bounds[i].max
    <3>1. r.bounds[i].min = minimum[i] /\ r.bounds[i].max = maximum[i]
          /\ i \in DOMAIN minimum /\ i \in DOMAIN maximum
      BY <1>11, <1>12
    <3>2. minimum[i] \notin Words /\ maximum[i] \notin Words
      BY <1>10, <3>1 DEF AllNumbers
    <3> QED
      BY <1>10, <3>1, <3>2
  <2>3. /\ 1 <= values[7][1] /\ values[7][1] <= MAX_PARTITIONS
        /\ values[7][1] <= values[5][1]
    BY <1>9 DEF validate_partitions, MAX_PARTITIONS
  <2>4. /\ 2 <= values[5][1] /\ values[5][1] <= MAX_SAMPLES
        /\ {values[5][1], values[6][1]} \subseteq 0..MaxU64
    BY <1>7, <1>8 DEF IsU64, MAX_SAMPLES
  <2>5. validate_names(values[2])
    BY <1>4, <1>10, NamesAgree
  <2>6. validate(r) <=> parse_expression(r.expression)
    BY <1>3, <1>13, <2>1, <2>2, <2>3, <2>4, <2>5 DEF validate
  <2>7. Accepted(r) <=> validate(r)
    BY <2>1, <2>4 DEF Accepted
  <2> QED
    BY <2>1, <2>6, <2>7 DEF Parsed
<1>15. ASSUME NEW entered, \A i \in 1..7 : entered[i] = values[i]
       PROVE  SaysWhatWasEntered(r, entered)
  <2>1. /\ r.task = "monte_carlo_integration" /\ r.expression = values[1]
        /\ r.variables = values[2] /\ r.samples = values[5][1] /\ r.seed = values[6][1]
        /\ r.partitions = values[7][1]
    BY <1>1
  <2>2. /\ <<values[5][1]>> = values[5] /\ <<values[6][1]>> = values[6]
        /\ <<values[7][1]>> = values[7]
    <3>1. Len(values[5]) = 1 /\ Len(values[6]) = 1 /\ Len(values[7]) = 1
      BY <1>7, <1>8, <1>9 DEF IsU64, validate_partitions
    <3>2. values[5] \in Seq(Int) /\ values[6] \in Seq(Int) /\ values[7] \in Seq(Int)
      BY <1>2
    <3> QED
      BY <3>1, <3>2, SingleValue
  <2>3. [i \in DOMAIN r.bounds |-> r.bounds[i].min] = minimum
    BY <1>10, <1>11, <1>12
  <2>4. [i \in DOMAIN r.bounds |-> r.bounds[i].max] = maximum
    BY <1>10, <1>11, <1>12
  <2>5. /\ entered[1] = values[1] /\ entered[2] = values[2] /\ entered[3] = minimum
        /\ entered[4] = maximum /\ entered[5] = values[5] /\ entered[6] = values[6]
        /\ entered[7] = values[7]
    BY <1>15 DEF minimum, maximum
  <2> QED
    BY <2>1, <2>2, <2>3, <2>4, <2>5 DEF SaysWhatWasEntered
<1> QED
  BY <1>14, <1>15 DEF r

(* The form while it asks: each value it keeps passed its check.  Once it   *)
(* was sent the values only grow past those a request is built of.          *)
ValuesOK(r, f) ==
    /\ r.values \in Seq(Seq(Int)) /\ Len(r.values) = r.field + f.tries
    /\ \A i \in 1..field_count(r.kind) : i <= Len(r.values) => ValidAt(r.kind, i, r.values)

EnteredOK(r, f) ==
    /\ f.entered \in Seq(Seq(Int))
    /\ Len(f.entered) = IF f.tries = 0 THEN r.field ELSE r.field + 1
    /\ f.tries = 0 => \A i \in 1..r.field : f.entered[i] = r.values[i]

FieldsOK(r, f) ==
    /\ DOMAIN r = {"kind", "field", "values", "input"}
    /\ DOMAIN f = {"entered", "sent", "tries", "jobs", "errors"}
    /\ r.kind \in Kinds
    /\ r.field \in Nat /\ r.field < field_count(r.kind)
    /\ r.input \in Seq(Int)
    /\ f.tries > 0 => is_final_field(r.kind, r.field)
    /\ ValuesOK(r, f) /\ EnteredOK(r, f)

FieldsInv ==
    /\ form.tries \in Nat
    /\ form.sent # None => (Accepted(form.sent) <=> Parsed(form.sent))
    /\ form.tries = 1 => SaysWhatWasEntered(form.sent, form.entered)
    /\ screen = "RequestSelect" => form = NewForm
    /\ screen = "RequestField" => FieldsOK(request, form)

LEMMA FieldCounts ==
    ASSUME NEW kind \in Kinds
    PROVE  field_count(kind) \in 1..7
BY DEF Kinds, field_count

(* Enter pushes a value that passed its check.                              *)
LEMMA EnterFacts ==
    ASSUME FieldsInv, Enter
    PROVE  /\ FieldsOK(request, form) /\ form.tries \in Nat
           /\ current_value \in Seq(Int)
           /\ Pushed \in Seq(Seq(Int))
           /\ Len(Pushed) = request.field + form.tries + 1
           /\ \A i \in 1..field_count(request.kind) :
                 i <= Len(Pushed) => ValidAt(request.kind, i, Pushed)
           /\ Entered \in Seq(Seq(Int)) /\ Len(Entered) = request.field + 1
           /\ form.tries = 0 => \A i \in 1..request.field + 1 : Entered[i] = Pushed[i]
<1> DEFINE kind   == request.kind
           field  == request.field
           values == request.values
           n      == Len(values)
<1>1. FieldsOK(request, form) /\ form.tries \in Nat
  BY DEF FieldsInv, Enter
<1>2. /\ kind \in Kinds /\ field \in Nat /\ field < field_count(kind)
      /\ request.input \in Seq(Int) /\ values \in Seq(Seq(Int))
      /\ n = field + form.tries /\ n \in Nat
      /\ form.tries > 0 => is_final_field(kind, field)
  BY <1>1 DEF FieldsOK, ValuesOK
<1>3. \A i \in 1..field_count(kind) : i <= n => ValidAt(kind, i, values)
  BY <1>1 DEF FieldsOK, ValuesOK
<1>4. current_value \in Seq(Int)
  <2>1. field_default(kind, field) \in Seq(Int)
    <3>1. << >> \in Seq(Int)
      BY EmptySeq
    <3>2. CASE kind = "monte_carlo_pi"
      BY <3>2 DEF field_default
    <3>3. CASE kind # "monte_carlo_pi"
      BY <3>1, <3>3 DEF field_default
    <3> QED
      BY <3>2, <3>3
  <2> QED
    BY <1>2, <2>1 DEF current_value
<1>5. current_value # <<>> /\ validate_field(kind, field, current_value, values)
  BY DEF Enter
<1>6. Pushed = Append(values, current_value)
  BY DEF Pushed
<1>7. field_count(kind) \in 1..7
  BY <1>2, FieldCounts
<1>8. Entered = [i \in 1..field + 1 |-> IF i = field + 1 THEN current_value ELSE form.entered[i]]
  BY DEF Entered
<1> HIDE DEF kind, field, values, n
<1>9. /\ Pushed \in Seq(Seq(Int)) /\ Len(Pushed) = n + 1
      /\ \A i \in 1..n : Pushed[i] = values[i]
      /\ Pushed[n + 1] = current_value
  BY <1>2, <1>4, <1>6, AppendProperties DEF n
<1>10. ASSUME NEW i \in 1..field_count(kind), i <= n + 1
       PROVE  ValidAt(kind, i, Pushed)
  <2>1. i - 1 \in 0..6
    BY <1>7
  <2>2. CASE i <= n
    <3>1. values[i] # <<>> /\ validate_field(kind, i - 1, values[i], values)
      BY <1>3, <2>2 DEF ValidAt
    <3>2. Pushed[i] = values[i] /\ \A k \in 1..i - 1 : values[k] = Pushed[k]
      BY <1>2, <1>7, <1>9, <2>2
    <3> QED
      BY <2>1, <3>1, <3>2, ChecksLookBack DEF ValidAt
  <2>3. CASE i = n + 1
    <3>1. form.tries = 0 /\ i - 1 = field
      BY <1>1, <1>2, <1>7, <2>3 DEF is_final_field
    <3>2. Pushed[i] = current_value /\ \A k \in 1..i - 1 : values[k] = Pushed[k]
      BY <1>2, <1>9, <2>3
    <3>3. validate_field(kind, i - 1, current_value, values)
      BY <1>5, <3>1
    <3> QED
      BY <1>5, <2>1, <3>2, <3>3, ChecksLookBack DEF ValidAt
  <2> QED
    BY <1>2, <1>7, <1>10, <2>2, <2>3
<1>11. Entered \in Seq(Seq(Int)) /\ Len(Entered) = field + 1
  <2>1. /\ form.entered \in Seq(Seq(Int)) /\ Len(form.entered) \in Nat
        /\ Len(form.entered) >= field
    BY <1>1, <1>2, LenProperties DEF FieldsOK, EnteredOK, field
  <2>2. \A i \in 1..field : form.entered[i] \in Seq(Int)
    BY <1>2, <2>1, ElementOfSeq
  <2>3. Entered \in [1..field + 1 -> Seq(Int)]
    BY <1>2, <1>4, <1>8, <2>2
  <2>4. Entered \in Seq(Seq(Int))
    BY <1>2, <2>3, SeqDef
  <2>5. Len(Entered) \in Nat /\ 1..Len(Entered) = 1..field + 1
    BY <2>3, <2>4, LenProperties
  <2> QED
    BY <1>2, <2>4, <2>5
<1>12. ASSUME form.tries = 0, NEW i \in 1..field + 1
       PROVE  Entered[i] = Pushed[i]
  <2>1. n = field
    BY <1>2, <1>12
  <2>2. i \in 1..field => form.entered[i] = values[i]
    BY <1>1, <1>12 DEF FieldsOK, EnteredOK, field, values
  <2> QED
    BY <1>2, <1>8, <1>9, <2>1, <2>2
<1> QED
  BY <1>1, <1>2, <1>4, <1>9, <1>10, <1>11, <1>12 DEF kind, field

LEMMA AcceptKeepsFields == FieldsInv /\ AcceptField => FieldsInv'
<1> SUFFICES ASSUME FieldsInv, AcceptField
             PROVE  FieldsInv'
  OBVIOUS
<1> DEFINE v == Pushed
           e == Entered
<1>1. /\ Enter /\ ~is_final_field(request.kind, request.field) /\ screen' = screen
      /\ screen = "RequestField"
      /\ request' = [request EXCEPT !.values = v, !.input = <<>>, !.field = @ + 1]
      /\ form' = [form EXCEPT !.entered = e]
  BY DEF AcceptField, Enter
<1>2. /\ FieldsOK(request, form) /\ form.tries \in Nat
      /\ v \in Seq(Seq(Int)) /\ Len(v) = request.field + form.tries + 1
      /\ \A i \in 1..field_count(request.kind) : i <= Len(v) => ValidAt(request.kind, i, v)
      /\ e \in Seq(Seq(Int)) /\ Len(e) = request.field + 1
      /\ form.tries = 0 => \A i \in 1..request.field + 1 : e[i] = v[i]
  BY <1>1, EnterFacts
<1> HIDE DEF v, e
<1>3. /\ request.kind \in Kinds /\ request.field \in Nat
      /\ request.field < field_count(request.kind)
      /\ form.tries = 0
  BY <1>1, <1>2 DEF FieldsOK
<1>4. PICK r : r = request'
  OBVIOUS
<1>5. PICK f : f = form'
  OBVIOUS
<1>6. request.field + 1 < field_count(request.kind)
  BY <1>1, <1>3, FieldCounts DEF is_final_field
<1>7. /\ r.kind = request.kind /\ r.field = request.field + 1 /\ r.values = v /\ r.input = <<>>
      /\ f.entered = e /\ f.tries = form.tries /\ f.sent = form.sent
  <2>1. /\ DOMAIN request = {"kind", "field", "values", "input"}
        /\ DOMAIN form = {"entered", "sent", "tries", "jobs", "errors"}
    BY <1>2 DEF FieldsOK
  <2> QED
    BY <1>1, <1>4, <1>5, <2>1
<1>8. FieldsOK(r, f)
  <2>1. /\ DOMAIN r = {"kind", "field", "values", "input"}
        /\ DOMAIN f = {"entered", "sent", "tries", "jobs", "errors"}
    BY <1>1, <1>2, <1>4, <1>5 DEF FieldsOK
  <2>2. r.input \in Seq(Int)
    BY <1>7, EmptySeq
  <2>3. ValuesOK(r, f)
    BY <1>2, <1>3, <1>7 DEF ValuesOK
  <2>4. EnteredOK(r, f)
    BY <1>2, <1>3, <1>7 DEF EnteredOK
  <2> QED
    BY <1>3, <1>6, <1>7, <2>1, <2>2, <2>3, <2>4 DEF FieldsOK
<1>9. form.sent # None => (Accepted(form.sent) <=> Parsed(form.sent))
  BY DEF FieldsInv
<1> QED
  BY <1>1, <1>3, <1>4, <1>5, <1>7, <1>8, <1>9 DEF FieldsInv

(* A request built of a whole form.                                         *)
LEMMA WholeForm ==
    ASSUME NEW kind \in Kinds, NEW values, AllValid(kind, values), NEW entered,
           NEW first \in BOOLEAN,
           first => \A i \in 1..field_count(kind) : entered[i] = values[i]
    PROVE  /\ Accepted(build_request(kind, values)) <=> Parsed(build_request(kind, values))
           /\ first => SaysWhatWasEntered(build_request(kind, values), entered)
<1>1. CASE kind = "monte_carlo_pi"
  BY <1>1, PiRequest DEF field_count
<1>2. CASE kind = "monte_carlo_integration"
  BY <1>2, IntegrationRequest DEF field_count
<1> QED
  BY <1>1, <1>2 DEF Kinds

LEMMA SubmitKeepsFields ==
    ASSUME FieldsInv, NEW jobs, NEW errors, Submit(jobs, errors),
           screen' = screen \/ screen' = "Home"
    PROVE  FieldsInv'
<1> DEFINE v == Pushed
           e == Entered
           sent == build_request(request.kind, v)
<1>1. /\ Enter /\ is_final_field(request.kind, request.field) /\ screen = "RequestField"
      /\ request' = [request EXCEPT !.values = v, !.input = <<>>]
      /\ form' = [entered |-> e, sent |-> sent, tries |-> form.tries + 1,
                  jobs |-> form.jobs + jobs, errors |-> form.errors + errors]
  BY DEF Submit, Enter
<1>2. /\ FieldsOK(request, form) /\ form.tries \in Nat
      /\ v \in Seq(Seq(Int)) /\ Len(v) = request.field + form.tries + 1
      /\ \A i \in 1..field_count(request.kind) : i <= Len(v) => ValidAt(request.kind, i, v)
      /\ e \in Seq(Seq(Int)) /\ Len(e) = request.field + 1
      /\ form.tries = 0 => \A i \in 1..request.field + 1 : e[i] = v[i]
  BY <1>1, EnterFacts
<1> HIDE DEF v, e
<1>3. /\ request.kind \in Kinds /\ request.field \in Nat
      /\ request.field + 1 = field_count(request.kind)
  BY <1>1, <1>2 DEF FieldsOK, is_final_field
<1>4. AllValid(request.kind, v)
  <2>1. Len(v) >= field_count(request.kind)
    BY <1>2, <1>3
  <2>2. \A i \in 1..field_count(request.kind) : ValidAt(request.kind, i, v)
    BY <1>2, <1>3
  <2> QED
    BY <1>2, <2>1, <2>2 DEF AllValid
<1>5. (Accepted(sent) <=> Parsed(sent)) /\ (form.tries = 0 => SaysWhatWasEntered(sent, e))
  <2>1. form.tries = 0 => \A i \in 1..field_count(request.kind) : e[i] = v[i]
    BY <1>2, <1>3
  <2> QED
    BY <1>3, <1>4, <2>1, WholeForm
<1> HIDE DEF sent
<1>6. PICK r : r = request'
  OBVIOUS
<1>7. PICK f : f = form'
  OBVIOUS
<1>8. /\ r.kind = request.kind /\ r.field = request.field /\ r.values = v /\ r.input = <<>>
      /\ DOMAIN r = {"kind", "field", "values", "input"}
      /\ f.entered = e /\ f.tries = form.tries + 1 /\ f.sent = sent
      /\ DOMAIN f = {"entered", "sent", "tries", "jobs", "errors"}
  <2>1. DOMAIN request = {"kind", "field", "values", "input"}
    BY <1>2 DEF FieldsOK
  <2> QED
    BY <1>1, <1>6, <1>7, <2>1
<1>9. FieldsOK(r, f)
  <2>1. r.input \in Seq(Int)
    BY <1>8, EmptySeq
  <2>2. ValuesOK(r, f)
    <3>1. /\ v \in Seq(Seq(Int)) /\ Len(v) = request.field + (form.tries + 1)
          /\ \A i \in 1..field_count(request.kind) : i <= Len(v) => ValidAt(request.kind, i, v)
      BY <1>2, <1>3
    <3>2. r.values = v /\ r.kind = request.kind /\ r.field + f.tries = request.field + (form.tries + 1)
      BY <1>8
    <3> QED
      BY <3>1, <3>2 DEF ValuesOK
  <2>3. EnteredOK(r, f)
    BY <1>2, <1>3, <1>8 DEF EnteredOK
  <2>4. r.field < field_count(r.kind)
    BY <1>3, <1>8
  <2> QED
    BY <1>3, <1>8, <2>1, <2>2, <2>3, <2>4 DEF FieldsOK, is_final_field
<1>10. form'.tries = 1 => form.tries = 0
  BY <1>2, <1>7, <1>8
<1> QED
  BY <1>1, <1>2, <1>5, <1>6, <1>7, <1>8, <1>9, <1>10 DEF FieldsInv

(* Steps that leave the form, and open no screen of it.                     *)
LEMMA LeavesFields ==
    ASSUME FieldsInv, UNCHANGED <<request, form>>,
           screen' \notin {"RequestSelect", "RequestField"} \/ screen' = screen
    PROVE  FieldsInv'
BY DEF FieldsInv

LEMMA FieldsStep == FieldsInv /\ [ClientNext]_clientVars => FieldsInv'
<1> SUFFICES ASSUME FieldsInv, [ClientNext]_clientVars
             PROVE  FieldsInv'
  OBVIOUS
<1>1. CASE start_request
  <2>1. form' = NewForm /\ screen' = "RequestSelect"
    BY <1>1 DEF start_request
  <2>2. NewForm.tries = 0 /\ NewForm.sent = None
    BY DEF NewForm
  <2> QED
    BY <2>1, <2>2 DEF FieldsInv
<1>2. ASSUME NEW kind \in Kinds, select_task(kind)
      PROVE  FieldsInv'
  <2>1. /\ screen' = "RequestField" /\ request' = [NewRequest EXCEPT !.kind = kind]
        /\ form' = form /\ form = NewForm
    BY <1>2 DEF select_task, FieldsInv
  <2>2. PICK r : r = request'
    OBVIOUS
  <2>3. PICK f : f = NewForm
    OBVIOUS
  <2>4. /\ r.kind = kind /\ r.field = 0 /\ r.values = <<>> /\ r.input = <<>>
        /\ DOMAIN r = {"kind", "field", "values", "input"}
    BY <2>1, <2>2 DEF NewRequest
  <2>5. /\ f.entered = <<>> /\ f.tries = 0 /\ f.sent = None
        /\ DOMAIN f = {"entered", "sent", "tries", "jobs", "errors"}
    BY <2>3 DEF NewForm
  <2>6. /\ << >> \in Seq(Int) /\ << >> \in Seq(Seq(Int)) /\ Len(<< >>) = 0
    BY EmptySeq
  <2>7. ValuesOK(r, f)
    BY <2>4, <2>5, <2>6, FieldCounts DEF ValuesOK
  <2>8. EnteredOK(r, f)
    BY <2>4, <2>5, <2>6 DEF EnteredOK
  <2>9. FieldsOK(r, f)
    BY <2>4, <2>5, <2>6, <2>7, <2>8, FieldCounts DEF FieldsOK
  <2> QED
    BY <2>1, <2>2, <2>3, <2>5, <2>9 DEF FieldsInv
<1>3. ASSUME NEW text \in Texts[request.field], Type(text)
      PROVE  FieldsInv'
  <2>1. /\ screen = "RequestField" /\ request' = [request EXCEPT !.input = text]
        /\ UNCHANGED <<screen, form>>
    BY <1>3 DEF Type
  <2>2. FieldsOK(request, form)
    BY <2>1 DEF FieldsInv
  <2>3. PICK r : r = request'
    OBVIOUS
  <2>4. DOMAIN request = {"kind", "field", "values", "input"}
    BY <2>2 DEF FieldsOK
  <2>5. /\ r.kind = request.kind /\ r.field = request.field /\ r.values = request.values
        /\ r.input = text /\ DOMAIN r = {"kind", "field", "values", "input"}
    BY <2>1, <2>3, <2>4
  <2>6. text \in Seq(Int)
    <3>1. /\ request.kind \in Kinds /\ request.field \in Nat
          /\ request.field < field_count(request.kind)
      BY <2>2 DEF FieldsOK
    <3>2. field_count(request.kind) \in 1..7
      BY <3>1, FieldCounts
    <3>3. request.field \in 0..6
      BY <3>1, <3>2
    <3> QED
      BY <3>3, ClientAssumption
  <2>7. FieldsOK(r, form)
    BY <2>2, <2>5, <2>6 DEF FieldsOK, ValuesOK, EnteredOK
  <2> QED
    BY <2>1, <2>3, <2>7 DEF FieldsInv
<1>4. CASE AcceptField
  BY <1>4, AcceptKeepsFields
<1>5. CASE submit_request \/ submit_request_Refused \/ submit_request_AnswerLost
  BY <1>5, SubmitKeepsFields
     DEF submit_request, submit_request_Refused, submit_request_AnswerLost
<1>6. CASE \/ cancel_request \/ load_tasks \/ PreviousPage \/ NextPage
           \/ \E selector \in 0..TASKS_PER_PAGE - 1, answer \in Answers :
                 load_task_details(selector, answer)
           \/ ScrollUp \/ (\E height \in Heights : ScrollDown(height))
           \/ Help \/ Back \/ Quit \/ OthersPost \/ OthersClear \/ UNCHANGED clientVars
  <2>1. /\ UNCHANGED <<request, form>>
        /\ screen' \notin {"RequestSelect", "RequestField"} \/ screen' = screen
    BY <1>6 DEF cancel_request, load_tasks, PreviousPage, NextPage, load_task_details, ScrollUp,
                ScrollDown, Help, Back, Quit, GoTo, OthersPost, OthersClear, clientVars
  <2> QED
    BY <2>1, LeavesFields
<1> QED
  BY <1>1, <1>2, <1>3, <1>4, <1>5, <1>6 DEF ClientNext

LEMMA FieldsAlways == ClientSpec => []FieldsInv
<1>1. ClientInit => FieldsInv
  BY DEF ClientInit, NewForm, FieldsInv
<1> QED
  BY <1>1, FieldsStep, PTL DEF ClientSpec

(* Whatever is typed, what the form sends, also when it is sent again,      *)
(* passes every check of POST /jobs if its expression parses, and is        *)
(* refused if it does not: in all else the two lists of checks agree.       *)
THEOREM FormAlwaysAgreesWithService == ClientSpec => []FormAgreesWithService
<1>1. FieldsInv => FormAgreesWithService
  BY DEF FieldsInv, FormAgreesWithService
<1> QED
  BY <1>1, FieldsAlways, PTL

(* The request first sent says what the user entered, field by field.       *)
THEOREM FirstPostIsAlwaysWhatWasEntered == ClientSpec => []FirstPostIsWhatWasEntered
<1>1. FieldsInv => FirstPostIsWhatWasEntered
  BY DEF FieldsInv, FirstPostIsWhatWasEntered
<1> QED
  BY <1>1, FieldsAlways, PTL

(* The form asks for a field that exists, and has a value for every field   *)
(* before it; the list never names a job that was not made.                 *)
THEOREM ClientTypeCorrect == ClientSpec => []ClientTypeOK
<1>1. ListInv /\ FieldsInv => ClientTypeOK
  <2> SUFFICES ASSUME ListInv, FieldsInv
               PROVE  ClientTypeOK
    OBVIOUS
  <2>1. ASSUME screen = "RequestField"
        PROVE  /\ request.kind \in Kinds
               /\ request.field < field_count(request.kind)
               /\ Len(request.values) >= request.field
               /\ Len(form.entered) >= request.field
    BY <2>1 DEF FieldsInv, FieldsOK, ValuesOK, EnteredOK
  <2> QED
    BY <2>1 DEF ListInv, ClientTypeOK
<1> QED
  BY <1>1, ListAlways, FieldsAlways, PTL
=============================================================================
