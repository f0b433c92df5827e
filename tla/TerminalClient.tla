---------------------------- MODULE TerminalClient ----------------------------
(***************************************************************************)
(* The full-screen terminal client (math/src): its screens, the paged list *)
(* of tasks, the details of one, and the form that asks for the fields of  *)
(* a request one by one and posts it.  One action per key press; a key     *)
(* that sends a request waits for the answer before the next key is read.  *)
(*                                                                         *)
(* A text typed into a field is what the parsers make of it: the sequence  *)
(* of its comma-separated parts, <<>> when it is blank.  A part is a whole *)
(* number, or a word (anything that is not a finite number), which is an   *)
(* integer of Words.  The form and the service each have their own checks  *)
(* and limits, in two crates, and so they have here.  A number is the same *)
(* in both: it is taken to survive its way through JSON.                   *)
(***************************************************************************)
EXTENDS Integers, Sequences, FiniteSets

CONSTANTS
    Words,            \* the parts that are no finite number
    Spelling,         \* their characters, each of one of the Classes
    Texts,            \* what the user may have typed, by the field typed into
    Bytes,            \* the length of a text typed as an expression
    Expressions,      \* those that evalexpr parses
    MaxU64,           \* u64::MAX, smaller in the runs: TLC's integers have 32 bits
    Answers,          \* the details the service may give of a job
    Heights,          \* the heights the terminal may have
    TASKS_PER_PAGE,   \* 10 in the code, one per digit
    MaxJobs,          \* bound on the jobs ever posted
    MaxFaults         \* bound on the posts that are answered with an error

Classes == {"letter", "digit", "_", "other"}

ASSUME ClientAssumption ==
    /\ TASKS_PER_PAGE \in Nat \ {0}
    /\ Words \subseteq Int /\ Spelling \in [Words -> Seq(Classes)]
    /\ DOMAIN Texts = 0..6 /\ \A field \in 0..6 : Texts[field] \subseteq Seq(Int)
    /\ Bytes \in [Texts[0] -> Nat] /\ Expressions \subseteq Texts[0]
    /\ MaxU64 \in Nat
    /\ Heights # {} /\ Heights \subseteq Nat
    /\ MaxJobs \in Nat /\ MaxFaults \in Nat
    /\ \A answer \in Answers :
          /\ answer.variables \in Nat                       \* how many
          /\ answer.input_json \in Nat /\ answer.result_json \in Nat   \* lines

VARIABLES
    screen,    \* the screen shown, "Closed" after quitting
    list,      \* the ids of the jobs last listed
    task_page, \* the page of the list shown
    details,   \* the job last opened and what the service said of it
    scroll,    \* detail_scroll
    request,   \* the form: task, field, accepted values, text being typed
    stored,    \* the ids of the jobs in the service
    made,      \* how many ids there were
    form       \* of the form last opened: what was accepted per field, the
               \* last request sent, the posts made, the jobs and errors of it

listVars   == <<list, task_page, details, scroll>>
clientVars == <<screen, listVars, request, stored, made, form>>

Kinds   == {"monte_carlo_pi", "monte_carlo_integration"}
Screens == {"Home", "Tasks", "Details", "RequestSelect", "RequestField", "Help", "Closed"}
None    == [task |-> "none"]

NewRequest == [kind |-> "none", field |-> 0, values |-> <<>>, input |-> <<>>]
NewForm    == [entered |-> <<>>, sent |-> None, tries |-> 0, jobs |-> 0, errors |-> 0]

ClientInit ==
    /\ screen    = "Home"
    /\ list      = <<>>
    /\ task_page = 0
    /\ details   = [id |-> 0, job |-> None]
    /\ scroll    = 0
    /\ request   = NewRequest
    /\ stored    = {}
    /\ made      = 0
    /\ form      = NewForm

-----------------------------------------------------------------------------
(* The fields of a form (wizard.rs).                                        *)

field_count(kind) == IF kind = "monte_carlo_pi" THEN 1 ELSE 7

(* Mutant: the last field is one further.                                   *)
is_final_field_OneLate(kind, field) == field = field_count(kind)

is_final_field(kind, field) == field + 1 = field_count(kind)

(* <<>>: no default, the field is required.                                 *)
field_default(kind, field) ==
    CASE kind = "monte_carlo_pi" -> <<1000000>>
      [] field = 4               -> <<100000>>
      [] field = 5               -> <<42>>
      [] field = 6               -> <<8>>
      [] OTHER                   -> <<>>

AllNumbers(text) == \A i \in DOMAIN text : text[i] \notin Words
IsU64(text)      == Len(text) = 1 /\ AllNumbers(text) /\ text[1] \in 0..MaxU64

(* No finite number is spelled like a name.                                 *)
valid_variable(part) ==
    /\ part \in Words /\ Spelling[part] # <<>>
    /\ Spelling[part][1] \in {"letter", "_"}
    /\ \A i \in DOMAIN Spelling[part] : Spelling[part][i] \in {"letter", "digit", "_"}

(* Sorted and deduplicated it is as long.                                   *)
validate_variables(text) ==
    /\ Len(text) \in 1..10
    /\ \A i \in DOMAIN text : valid_variable(text[i])
    /\ \A i, j \in DOMAIN text : text[i] = text[j] => i = j

validate_bounds(field, text, previous) ==
    /\ text # <<>> /\ AllNumbers(text)
    /\ Len(text) = Len(previous[2])
    /\ field = 3 => \A i \in DOMAIN text : previous[3][i] < text[i]

validate_partitions(text, previous) ==
    /\ IsU64(text) /\ 1 <= text[1] /\ text[1] <= 1024
    /\ text[1] <= previous[5][1]

(* An expression is not looked into, but for its length: the form does not  *)
(* parse it.                                                                *)
validate_field(kind, field, text, previous) ==
    IF kind = "monte_carlo_pi" THEN IsU64(text) /\ text[1] # 0
    ELSE CASE field = 0        -> Bytes[text] <= 1000
           [] field = 1        -> validate_variables(text)
           [] field \in {2, 3} -> validate_bounds(field, text, previous)
           [] field = 4        -> IsU64(text) /\ 2 <= text[1] /\ text[1] <= 100000000
           [] field = 5        -> IsU64(text)
           [] field = 6        -> validate_partitions(text, previous)

(* Mutant: the bounds in the order of the fields' names, max before min.    *)
build_integration_request_Swapped(values) ==
    [task |-> "monte_carlo_integration", expression |-> values[1],
     variables |-> values[2],
     bounds |-> [i \in DOMAIN values[3] |-> [min |-> values[4][i], max |-> values[3][i]]],
     samples |-> values[5][1], seed |-> values[6][1], partitions |-> values[7][1]]

build_integration_request(values) ==
    [task |-> "monte_carlo_integration", expression |-> values[1],
     variables |-> values[2],
     bounds |-> [i \in DOMAIN values[3] |-> [min |-> values[3][i], max |-> values[4][i]]],
     samples |-> values[5][1], seed |-> values[6][1], partitions |-> values[7][1]]

build_request(kind, values) ==
    IF kind = "monte_carlo_pi"
    THEN [task |-> kind, iterations |-> values[1][1]]
    ELSE build_integration_request(values)

-----------------------------------------------------------------------------
(* What the service checks of a request (monte_carlo_integration.rs).       *)

MAX_DIMENSIONS        == 10
MAX_EXPRESSION_LENGTH == 1000
MAX_PARTITIONS        == 1024

(* Mutant: the service's limit is lowered, the form's is not.               *)
MAX_SAMPLES_Lowered == 10000000

MAX_SAMPLES == 100000000

is_valid_variable_name(part) ==
    /\ part \in Words /\ Spelling[part] # <<>>
    /\ Spelling[part][1] \in {"letter", "_"}
    /\ \A i \in 2..Len(Spelling[part]) : Spelling[part][i] \in {"letter", "digit", "_"}

(* The function is evalexpr's build_operator_tree.                          *)
parse_expression(expression) == expression \in Expressions

validate_names(variables) ==
    /\ Len(variables) \in 1..MAX_DIMENSIONS
    /\ \A i \in DOMAIN variables :
          /\ is_valid_variable_name(variables[i])
          /\ \A before \in 1..i - 1 : variables[before] # variables[i]

validate(r) ==
    /\ r.expression # <<>> /\ Bytes[r.expression] <= MAX_EXPRESSION_LENGTH
    /\ 2 <= r.samples /\ r.samples <= MAX_SAMPLES
    /\ 1 <= r.partitions /\ r.partitions <= MAX_PARTITIONS /\ r.partitions <= r.samples
    /\ validate_names(r.variables)
    /\ Len(r.variables) = Len(r.bounds)
    /\ \A i \in DOMAIN r.bounds :
          /\ {r.bounds[i].min, r.bounds[i].max} \cap Words = {}
          /\ r.bounds[i].min < r.bounds[i].max
    /\ parse_expression(r.expression)

(* Accepted by POST /jobs: the numbers decode as u64, and the checks pass.  *)
Accepted(r) ==
    IF r.task = "monte_carlo_pi" THEN r.iterations \in 1..MaxU64
    ELSE {r.samples, r.seed} \subseteq 0..MaxU64 /\ validate(r)

-----------------------------------------------------------------------------
(* The form (app.rs).                                                       *)

start_request ==
    /\ screen \in {"Home", "Tasks", "Help"}
    /\ request' = NewRequest
    /\ form'    = NewForm
    /\ screen'  = "RequestSelect"
    /\ UNCHANGED <<listVars, stored, made>>

select_task(kind) ==
    /\ screen = "RequestSelect"
    /\ request' = [NewRequest EXCEPT !.kind = kind]
    /\ screen'  = "RequestField"
    /\ UNCHANGED <<listVars, stored, made, form>>

cancel_request ==
    /\ screen \in {"RequestSelect", "RequestField"}
    /\ screen' = "Home"
    /\ UNCHANGED <<listVars, request, stored, made, form>>

(* Characters and backspaces, until the text is another one.                *)
Type(text) ==
    /\ screen = "RequestField"
    /\ request' = [request EXCEPT !.input = text]
    /\ UNCHANGED <<screen, listVars, stored, made, form>>

current_value == IF request.input # <<>> THEN request.input
                 ELSE field_default(request.kind, request.field)

(* Enter on a valid value; on another, only the message changes.  The value *)
(* is pushed and the input cleared before anything is sent.                 *)
Enter ==
    /\ screen = "RequestField"
    /\ current_value # <<>>
    /\ validate_field(request.kind, request.field, current_value, request.values)

Pushed  == Append(request.values, current_value)
Entered == [i \in 1..request.field + 1 |->
              IF i = request.field + 1 THEN current_value ELSE form.entered[i]]

AcceptField ==
    /\ Enter /\ ~is_final_field(request.kind, request.field)
    /\ request' = [request EXCEPT !.values = Pushed, !.input = <<>>, !.field = @ + 1]
    /\ form'    = [form EXCEPT !.entered = Entered]
    /\ UNCHANGED <<screen, listVars, stored, made>>

Submit(jobs, errors) ==
    /\ Enter /\ is_final_field(request.kind, request.field)
    /\ request' = [request EXCEPT !.values = Pushed, !.input = <<>>]
    /\ form' = [entered |-> Entered, sent |-> build_request(request.kind, Pushed),
                tries |-> form.tries + 1,
                jobs |-> form.jobs + jobs, errors |-> form.errors + errors]
    /\ jobs = 1 => Accepted(form'.sent) /\ made < MaxJobs
    /\ made'   = made + jobs
    /\ stored' = stored \cup (made + 1)..made'
    /\ UNCHANGED listVars

(* Mutant: the form stays open whatever the answer.                         *)
submit_request_StaysOpen == Submit(1, 0) /\ UNCHANGED screen

submit_request == Submit(1, 0) /\ screen' = "Home"

(* Refused, or no answer from the service.                                  *)
submit_request_Refused ==
    /\ form.errors < MaxFaults
    /\ Submit(0, 1)
    /\ UNCHANGED screen

(* The job is stored, but the answer is lost or an error (the enqueue).     *)
submit_request_AnswerLost ==
    /\ form.errors < MaxFaults
    /\ Submit(1, 1)
    /\ UNCHANGED screen

-----------------------------------------------------------------------------
(* The list and the details.                                                *)

CeilDiv(a, b) == (a + b - 1) \div b
AtLeast(a, b) == IF a < b THEN b ELSE a
AtMost(a, b)  == IF a > b THEN b ELSE a

task_page_count == AtLeast(CeilDiv(Len(list), TASKS_PER_PAGE), 1)

PageStart == AtMost(task_page * TASKS_PER_PAGE, Len(list))
PageEnd   == AtMost(PageStart + TASKS_PER_PAGE, Len(list))

(* The rows of the page shown: [indicator] job.                             *)
TaskLines == [indicator \in 0..PageEnd - PageStart - 1 |-> list[PageStart + indicator + 1]]

NewestFirst == LET n == Cardinality(stored)
               IN  CHOOSE s \in [1..n -> stored] : \A i \in 1..n - 1 : s[i] > s[i + 1]

(* Mutant: the page stays where it was in the former list.                  *)
load_tasks_KeepsPage ==
    /\ screen \in {"Home", "Tasks", "Help", "Details"}
    /\ list'   = NewestFirst
    /\ screen' = "Tasks"
    /\ UNCHANGED <<task_page, details, scroll, request, stored, made, form>>

(* GET /jobs answered; otherwise only the message changes.                  *)
load_tasks ==
    /\ screen \in {"Home", "Tasks", "Help", "Details"}
    /\ list'      = NewestFirst
    /\ task_page' = 0
    /\ screen'    = "Tasks"
    /\ UNCHANGED <<details, scroll, request, stored, made, form>>

PreviousPage ==
    /\ screen = "Tasks" /\ task_page > 0
    /\ task_page' = task_page - 1
    /\ UNCHANGED <<screen, list, details, scroll, request, stored, made, form>>

NextPage ==
    /\ screen = "Tasks" /\ task_page + 1 < task_page_count
    /\ task_page' = task_page + 1
    /\ UNCHANGED <<screen, list, details, scroll, request, stored, made, form>>

(* The job a digit opens, 0 when there is none.                             *)
Selected(selector) ==
    LET index == task_page * TASKS_PER_PAGE + selector
    IN  IF index < Len(list) THEN list[index + 1] ELSE 0

(* Mutant: the details of the next job appear as far down as the last ones. *)
load_task_details_KeepsScroll(selector, answer) ==
    /\ screen = "Tasks" /\ Selected(selector) \in stored
    /\ details' = [id |-> Selected(selector), job |-> answer]
    /\ screen'  = "Details"
    /\ UNCHANGED <<list, task_page, scroll, request, stored, made, form>>

(* The service is asked by id; of a job cleared meanwhile it answers 404.   *)
load_task_details(selector, answer) ==
    /\ screen = "Tasks" /\ Selected(selector) \in stored
    /\ details' = [id |-> Selected(selector), job |-> answer]
    /\ scroll'  = 0
    /\ screen'  = "Details"
    /\ UNCHANGED <<list, task_page, request, stored, made, form>>

(* How many lines the details take (details.rs).                            *)
input_lines(job)    == CASE job.task = "monte_carlo_pi"          -> 1
                         [] job.task = "monte_carlo_integration" -> 5 + job.variables
                         [] OTHER                                -> job.input_json
result_lines(job)   == CASE ~job.result \/ job.task = "monte_carlo_pi" -> 1
                         [] job.result /\ job.task = "monte_carlo_integration" -> 5
                         [] OTHER -> job.result_json
progress_lines(job) == IF job.progress THEN 5 ELSE 0
detail_lines(job)   == IF job = None THEN 0
                       ELSE 9 + progress_lines(job) + 2 + input_lines(job) + 2
                              + result_lines(job) + 2

MaxScroll(height) == AtLeast(detail_lines(details.job) - AtLeast(height - 7, 0), 0)

ScrollUp ==
    /\ screen = "Details"
    /\ scroll' = AtLeast(scroll - 1, 0)
    /\ UNCHANGED <<screen, list, task_page, details, request, stored, made, form>>

ScrollDown(height) ==
    /\ screen = "Details"
    /\ scroll' = AtMost(scroll + 1, MaxScroll(height))
    /\ UNCHANGED <<screen, list, task_page, details, request, stored, made, form>>

-----------------------------------------------------------------------------
(* Other keys, and other clients of the service.                            *)

GoTo(to) == screen' = to /\ UNCHANGED <<listVars, request, stored, made, form>>

Help       == screen \in {"Home", "Tasks", "Help"} /\ GoTo("Help")
Back       == \/ screen \in {"Tasks", "Help"} /\ GoTo("Home")
              \/ screen = "Details" /\ GoTo("Tasks")
Quit       == screen # "Closed" /\ GoTo("Closed")    \* q, or Ctrl+C in the form

OthersPost ==
    /\ screen # "Closed" /\ made < MaxJobs
    /\ made'   = made + 1
    /\ stored' = stored \cup {made'}
    /\ UNCHANGED <<screen, listVars, request, form>>

OthersClear ==
    /\ screen # "Closed"
    /\ stored' = {}
    /\ UNCHANGED <<screen, listVars, request, made, form>>

ClientNext ==
    \/ start_request \/ cancel_request \/ \E kind \in Kinds : select_task(kind)
    \/ \E text \in Texts[request.field] : Type(text)
    \/ AcceptField \/ submit_request \/ submit_request_Refused \/ submit_request_AnswerLost
    \/ load_tasks \/ PreviousPage \/ NextPage
    \/ \E selector \in 0..TASKS_PER_PAGE - 1, answer \in Answers :
          load_task_details(selector, answer)
    \/ ScrollUp \/ \E height \in Heights : ScrollDown(height)
    \/ Help \/ Back \/ Quit
    \/ OthersPost \/ OthersClear

ClientSpec == ClientInit /\ [][ClientNext]_clientVars

-----------------------------------------------------------------------------
(* Properties.                                                              *)

(* The form asks for a field that exists, and has a value for every field   *)
(* before it, so that neither the help, the bounds' check nor the request   *)
(* built of it ever looks up one that is not there.                         *)
ClientTypeOK ==
    /\ screen \in Screens
    /\ stored \subseteq 1..made
    /\ \A i \in DOMAIN list : list[i] \in 1..made
    /\ screen = "RequestField" =>
        /\ request.kind \in Kinds
        /\ request.field < field_count(request.kind)
        /\ Len(request.values) >= request.field
        /\ Len(form.entered) >= request.field

(* The one thing the form leaves to the service.                            *)
Parsed(r) == r.task = "monte_carlo_integration" => parse_expression(r.expression)

(* What the form sends, also when it is sent again, passes every check of   *)
(* POST /jobs if its expression parses, and is refused if it does not: the  *)
(* two lists of checks and limits, kept apart in two crates, agree in all   *)
(* else.                                                                    *)
FormAgreesWithService ==
    form.sent # None => (Accepted(form.sent) <=> Parsed(form.sent))

(* The request first sent says what the user entered, field by field.       *)
SaysWhatWasEntered(r, entered) ==
    IF r.task = "monte_carlo_pi" THEN <<r.iterations>> = entered[1]
    ELSE /\ r.expression = entered[1] /\ r.variables = entered[2]
         /\ [i \in DOMAIN r.bounds |-> r.bounds[i].min] = entered[3]
         /\ [i \in DOMAIN r.bounds |-> r.bounds[i].max] = entered[4]
         /\ <<r.samples>> = entered[5] /\ <<r.seed>> = entered[6]
         /\ <<r.partitions>> = entered[7]

FirstPostIsWhatWasEntered ==
    form.tries = 1 => SaysWhatWasEntered(form.sent, form.entered)

(* A form makes a second job only after an error was shown for the first.   *)
SecondJobNeedsError == form.jobs <= 1 + form.errors

(* A digit opens the job that the page shows next to it, and no page of a   *)
(* list that has tasks is without any.                                      *)
DigitsOpenWhatTheyLabel ==
    screen = "Tasks" =>
        /\ list # <<>> => TaskLines # <<>>
        /\ \A digit \in 0..TASKS_PER_PAGE - 1 :
              Selected(digit) = IF digit \in DOMAIN TaskLines THEN TaskLines[digit] ELSE 0

(* The details are never scrolled further than the lowest terminal needs.   *)
NothingScrolledAway ==
    details.job # None => \E height \in Heights : scroll <= MaxScroll(height)

(* builds_pi_request_from_guided_field, of every request the form sends: it *)
(* has the value the user entered last.                                     *)
PostsWhatWasEntered ==
    form.tries > 0 => SaysWhatWasEntered(form.sent, form.entered)
=============================================================================
