---------------------------- MODULE LearningCenter ----------------------------
(***************************************************************************)
(* apps/web, the education screen: the shared map of the learner's own     *)
(* progress, and one library at a time, of courses (with lessons) or of    *)
(* quizzes (with questions, answers and attempts).                         *)
(*                                                                         *)
(* Every list, detail, submit and mark is a call of its own that nothing   *)
(* cancels, so answers come in any order, or as an error, over whatever    *)
(* the screen has become; a component that was unmounted ignores them.     *)
(* The ghosts raced, mixed and late record that calls have overlapped: the *)
(* properties say what the screen shows when they have not.                *)
(***************************************************************************)
EXTENDS Integers, FiniteSets

CONSTANTS
    Courses, Quizzes,
    Slots,         \* bound on the calls in flight
    MaxAttempts,   \* bound on the attempts of a quiz
    MaxClicks,     \* bound on what the learner does
    NULL

ASSUME NullAssumption == NULL \notin Courses \cup Quizzes
ASSUME EntriesAssumption == Courses \cap Quizzes = {}
ASSUME BoundsAssumption == MaxAttempts \in Nat /\ MaxClicks \in Nat

Entries  == Courses \cup Quizzes
Statuses == {"none", "in_progress", "completed"}
Tabs     == {"courses", "quizzes"}
NoEntry  == [phase |-> "loading", of |-> NULL]

VARIABLES
    progress,     \* education_user_progress of the learner: entry -> status
    attempts,     \* quiz_attempts of the learner: quiz -> number of rows
    tab,          \* the library on the screen
    list,         \* its entries: loading, loaded or error
    selected,     \* the entry selected
    detail,       \* its lessons or questions: phase, and the entry they are of
    answers,      \* the quizzes all of whose questions have an answer
    submit,       \* the submit state, and the quiz of the attempt it shows
    myAttempts,   \* the attempts shown: phase, and how many of each quiz
    progressMap,  \* the progress shown
    loaded,       \* the progress list was answered
    calls,        \* slot -> the call in flight
    raced,        \* entries whose progress or attempts two calls were about at once
    mixed,        \* a selection was made while the detail of another was loading
    late,         \* a selection was made while a submit was pending
    clicks        \* how often the learner has acted

stored == <<progress, attempts>>
library == <<tab, list, selected, detail, answers, submit, myAttempts, mixed, late>>
vars == <<stored, library, progressMap, loaded, calls, raced, clicks>>

-------------------------------------------------------------------------------

\* A call goes through the SDK and the gateway, and any of them may fail on the way.
Idle          == [kind |-> "idle"]
ListCalls     == [kind : {"list"}]
DetailCalls   == [kind : {"detail"}, of : Entries]
AttemptsCalls ==
    [kind : {"attempts"}, served : {FALSE}]
    \cup [kind : {"attempts"}, served : {TRUE}, value : [Quizzes -> 0..MaxAttempts]]
ProgressCalls ==
    [kind : {"progress"}, served : {FALSE}]
    \cup [kind : {"progress"}, served : {TRUE}, value : [Entries -> Statuses]]
\* of: the quiz submitted to; questions: the quiz whose questions were answered;
\* mounted: the library that submitted is still on the screen.
SubmitCalls ==
    [kind : {"submit"}, served : BOOLEAN, of : Quizzes, questions : Quizzes, mounted : BOOLEAN]
\* auto: sent by an accepted attempt; blind: sent with no progress list.
MarkCalls ==
    [kind : {"mark"}, served : BOOLEAN, of : Entries, status : Statuses \ {"none"},
     auto : BOOLEAN, blind : BOOLEAN]
Call ==
    {Idle} \cup ListCalls \cup DetailCalls \cup AttemptsCalls \cup ProgressCalls
           \cup SubmitCalls \cup MarkCalls

TypeOK ==
    /\ progress \in [Entries -> Statuses] /\ progressMap \in [Entries -> Statuses]
    /\ attempts \in [Quizzes -> 0..MaxAttempts]
    /\ tab \in Tabs
    /\ list \in {"loading", "loaded", "error"}
    /\ selected \in Entries \cup {NULL}
    /\ detail \in [phase : {"loading", "loaded", "error"}, of : Entries \cup {NULL}]
    /\ answers \subseteq Quizzes
    /\ submit \in [phase : {"idle", "submitting", "submitted", "error"}, of : Quizzes \cup {NULL}]
    /\ myAttempts \in [phase : {"loading", "loaded", "error"}, count : [Quizzes -> Nat]]
    /\ loaded \in BOOLEAN /\ mixed \in BOOLEAN /\ late \in BOOLEAN
    /\ raced \subseteq Entries
    /\ clicks \in 0..MaxClicks
    /\ calls \in [Slots -> Call]

Pending(kind) == {s \in Slots : calls[s].kind = kind}
\* What a pending call is about, of an entry's progress and attempts.
About(call) ==
    CASE call.kind = "progress" -> Entries
      [] call.kind = "attempts" -> Quizzes
      [] call.kind \in {"submit", "mark"} -> {call.of}
      [] OTHER -> {}
Concerned == UNION {About(calls[s]) : s \in Slots}

Free == {s \in Slots : calls[s] = Idle}
Send(s, call) == calls' = [calls EXCEPT ![s] = call]
NoAttempts == [phase |-> "loading", count |-> [z \in Quizzes |-> 0]]

Init ==
    /\ progress \in [Entries -> Statuses]
    /\ attempts = [z \in Quizzes |-> 0]
    /\ tab = "courses" /\ list = "loading"
    /\ selected = NULL /\ detail = NoEntry /\ answers = {}
    /\ submit = [phase |-> "idle", of |-> NULL]
    /\ myAttempts = NoAttempts
    /\ progressMap = [e \in Entries |-> "none"] /\ loaded = FALSE
    /\ \E s, t \in Slots :
          /\ s # t
          /\ calls = [x \in Slots |-> CASE x = s -> [kind |-> "progress", served |-> FALSE]
                                        [] x = t -> [kind |-> "list"]
                                        [] OTHER -> Idle]
    /\ raced = {} /\ mixed = FALSE /\ late = FALSE /\ clicks = 0

-------------------------------------------------------------------------------
(* The learner picks a library, or a filter.                                   *)

\* Another tab: the library is unmounted, and its reads are of no consequence any more; the
\* new one asks for its lists.
Unmounted(call) ==
    CASE call.kind \in {"list", "detail", "attempts"} -> Idle
      [] call.kind = "submit" -> [call EXCEPT !.mounted = FALSE]
      [] OTHER -> call
SelectTab(t) ==
    /\ t # tab
    /\ tab' = t /\ list' = "loading"
    /\ selected' = NULL /\ detail' = NoEntry /\ answers' = {}
    /\ submit' = [phase |-> "idle", of |-> NULL]
    /\ myAttempts' = NoAttempts
    /\ mixed' = FALSE /\ late' = FALSE
    /\ LET kept == [s \in Slots |-> Unmounted(calls[s])]
       IN \E s, u \in {x \in Slots : kept[x] = Idle} :
             /\ s # u
             /\ calls' = [kept EXCEPT
                   ![s] = [kind |-> "list"],
                   ![u] = IF t = "quizzes" THEN [kind |-> "attempts", served |-> FALSE] ELSE Idle]
    /\ raced' = IF t = "quizzes"
                THEN raced \cup UNION {About(calls[s]) : s \in Pending("submit")}
                ELSE raced
    /\ UNCHANGED <<stored, progressMap, loaded>>

\* Another difficulty: asks for the list again and drops the selection.
SelectFilter ==
    /\ tab = "courses"
    /\ list' = "loading"
    /\ selected' = NULL
    /\ \E s \in Free : Send(s, [kind |-> "list"])
    /\ UNCHANGED <<stored, tab, detail, answers, submit, myAttempts, mixed, late, progressMap,
                   loaded, raced>>

-------------------------------------------------------------------------------
(* What is on the screen, and what the learner does with it.                   *)

Shown == IF tab = "courses" THEN Courses ELSE Quizzes

EntryShown(e) == list = "loaded" /\ e \in Shown
DetailShown == list = "loaded" /\ selected # NULL
QuestionsShown ==
    /\ tab = "quizzes" /\ DetailShown
    /\ detail.phase = "loaded" /\ detail.of \in Quizzes
    /\ submit.phase # "submitted"
SubmitEnabled ==
    QuestionsShown /\ submit.phase # "submitting" /\ detail.of \in answers
ResultShown == tab = "quizzes" /\ DetailShown /\ submit.phase = "submitted"
CourseShown == tab = "courses" /\ DetailShown

\* selectQuiz and its retake; the effect of a newly selected course.
Select(e) ==
    /\ EntryShown(e)
    /\ tab = "courses" => e # selected
    /\ selected' = e
    /\ detail' = NoEntry
    /\ answers' = {}
    /\ submit' = [phase |-> "idle", of |-> NULL]
    /\ mixed' = (mixed \/ Pending("detail") # {})
    /\ late' = (late \/ Pending("submit") # {})
    /\ \E s \in Free : Send(s, [kind |-> "detail", of |-> e])
    /\ UNCHANGED <<stored, tab, list, myAttempts, progressMap, loaded, raced>>

\* The questions on the screen are all answered; the answers are kept by question.
Answering ==
    /\ QuestionsShown
    /\ answers' = answers \cup {detail.of}
    /\ UNCHANGED <<stored, tab, list, selected, detail, submit, myAttempts, mixed, late,
                   progressMap, loaded, calls, raced>>

\* handleSubmit up to its await: the questions on the screen, the quiz selected.
Submit ==
    /\ SubmitEnabled
    /\ submit' = [phase |-> "submitting", of |-> NULL]
    /\ raced' = raced \cup ({selected} \cap Concerned)
    /\ \E s \in Free : Send(s, [kind |-> "submit", served |-> FALSE, of |-> selected,
                                questions |-> detail.of, mounted |-> TRUE])
    /\ UNCHANGED <<stored, tab, list, selected, detail, answers, myAttempts, mixed, late,
                   progressMap, loaded>>

\* A button of the progress control, which a quiz shows with the result of an attempt.
Mark_AnyButton(e, status) ==
    /\ CourseShown \/ ResultShown
    /\ e = selected
    /\ raced' = raced \cup ({e} \cap Concerned)
    /\ \E s \in Free : Send(s, [kind |-> "mark", served |-> FALSE, of |-> e, status |-> status,
                                auto |-> FALSE, blind |-> ~ loaded])
    /\ UNCHANGED <<stored, library, progressMap, loaded>>
Mark(e, status) ==
    /\ CourseShown \/ ResultShown
    /\ e = selected
    /\ progressMap[e] # "completed"
    /\ status = "in_progress" => progressMap[e] = "none"
    /\ raced' = raced \cup ({e} \cap Concerned)
    /\ \E s \in Free : Send(s, [kind |-> "mark", served |-> FALSE, of |-> e, status |-> status,
                                auto |-> FALSE, blind |-> ~ loaded])
    /\ UNCHANGED <<stored, library, progressMap, loaded>>

-------------------------------------------------------------------------------
(* The education service, one call at a time (Quizzes has its interleavings).  *)

ServeRead(s) ==
    /\ calls[s].kind \in {"attempts", "progress"} /\ ~ calls[s].served
    /\ Send(s, [kind |-> calls[s].kind, served |-> TRUE,
                value |-> IF calls[s].kind = "attempts" THEN attempts ELSE progress])
    /\ UNCHANGED <<stored, library, progressMap, loaded, raced>>

\* An attempt with answers to the questions of another quiz is rejected.
ServeSubmit(s) ==
    /\ calls[s].kind = "submit" /\ ~ calls[s].served
    /\ calls[s].questions = calls[s].of
    /\ attempts[calls[s].of] < MaxAttempts
    /\ attempts' = [attempts EXCEPT ![calls[s].of] = @ + 1]
    /\ Send(s, [calls[s] EXCEPT !.served = TRUE])
    /\ UNCHANGED <<progress, library, progressMap, loaded, raced>>

\* The last upsert wins.
ServeMark(s) ==
    /\ calls[s].kind = "mark" /\ ~ calls[s].served
    /\ progress' = [progress EXCEPT ![calls[s].of] = calls[s].status]
    /\ Send(s, [calls[s] EXCEPT !.served = TRUE])
    /\ UNCHANGED <<attempts, library, progressMap, loaded, raced>>

-------------------------------------------------------------------------------
(* Answers of lists and details.                                               *)

ListAnswered(s) ==
    /\ calls[s].kind = "list"
    /\ list' \in {"loaded", "error"}
    /\ Send(s, Idle)
    /\ UNCHANGED <<stored, tab, selected, detail, answers, submit, myAttempts, mixed, late,
                   progressMap, loaded, raced>>

DetailAnswered(s) ==
    /\ calls[s].kind = "detail"
    /\ detail' \in {[phase |-> "loaded", of |-> calls[s].of], [phase |-> "error", of |-> NULL]}
    /\ Send(s, Idle)
    /\ UNCHANGED <<stored, tab, list, selected, answers, submit, myAttempts, mixed, late,
                   progressMap, loaded, raced>>

AttemptsAnswered(s) ==
    /\ calls[s].kind = "attempts"
    /\ \/ /\ calls[s].served
          /\ myAttempts' = [phase |-> "loaded", count |-> calls[s].value]
       \/ myAttempts' = [NoAttempts EXCEPT !.phase = "error"]
    /\ Send(s, Idle)
    /\ UNCHANGED <<stored, tab, list, selected, detail, answers, submit, mixed, late,
                   progressMap, loaded, raced>>

\* The list replaces the map, marks answered before it included.
ProgressAnswered(s) ==
    /\ calls[s].kind = "progress"
    /\ \/ /\ calls[s].served
          /\ progressMap' = calls[s].value
          /\ loaded' = TRUE
       \/ UNCHANGED <<progressMap, loaded>>
    /\ Send(s, Idle)
    /\ UNCHANGED <<stored, library, raced>>

-------------------------------------------------------------------------------
(* handleSubmit and markProgress after their await.                            *)

\* An accepted attempt is shown, counted where a list is shown, and the quiz marked.
SubmitAnswered(s) ==
    /\ calls[s].kind = "submit" /\ calls[s].served
    /\ IF calls[s].mounted
       THEN /\ submit' = [phase |-> "submitted", of |-> calls[s].of]
            /\ myAttempts' = IF myAttempts.phase = "loaded"
                             THEN [myAttempts EXCEPT !.count[calls[s].of] = @ + 1]
                             ELSE myAttempts
       ELSE UNCHANGED <<submit, myAttempts>>
    /\ raced' = raced \cup ({calls[s].of} \cap UNION {About(calls[u]) : u \in Slots \ {s}})
    /\ Send(s, [kind |-> "mark", served |-> FALSE, of |-> calls[s].of, status |-> "completed",
                auto |-> TRUE, blind |-> ~ loaded])
    /\ UNCHANGED <<stored, tab, list, selected, detail, answers, mixed, late, progressMap,
                   loaded>>

\* Rejected, failed, or stored with the answer lost.
SubmitFails_MarksAnyway(s) ==
    /\ calls[s].kind = "submit"
    /\ submit' = IF calls[s].mounted THEN [phase |-> "error", of |-> NULL] ELSE submit
    /\ Send(s, [kind |-> "mark", served |-> FALSE, of |-> calls[s].of, status |-> "completed",
                auto |-> TRUE, blind |-> ~ loaded])
    /\ UNCHANGED <<stored, tab, list, selected, detail, answers, myAttempts, mixed, late,
                   progressMap, loaded, raced>>
SubmitFails(s) ==
    /\ calls[s].kind = "submit"
    /\ submit' = IF calls[s].mounted THEN [phase |-> "error", of |-> NULL] ELSE submit
    \* A stored attempt whose answer was lost is missing from the list shown.
    /\ raced' = IF calls[s].served THEN raced \cup {calls[s].of} ELSE raced
    /\ Send(s, Idle)
    /\ UNCHANGED <<stored, tab, list, selected, detail, answers, myAttempts, mixed, late,
                   progressMap, loaded>>

MarkAnswered_Ignored(s) ==
    /\ calls[s].kind = "mark" /\ calls[s].served
    /\ Send(s, Idle)
    /\ UNCHANGED <<stored, library, progressMap, loaded, raced>>
MarkAnswered(s) ==
    /\ calls[s].kind = "mark" /\ calls[s].served
    /\ progressMap' = [progressMap EXCEPT ![calls[s].of] = calls[s].status]
    /\ Send(s, Idle)
    /\ UNCHANGED <<stored, library, loaded, raced>>

MarkFails(s) ==
    /\ calls[s].kind = "mark"
    /\ raced' = IF calls[s].served THEN raced \cup {calls[s].of} ELSE raced
    /\ Send(s, Idle)
    /\ UNCHANGED <<stored, library, progressMap, loaded>>

-------------------------------------------------------------------------------

Learner ==
    /\ clicks < MaxClicks /\ clicks' = clicks + 1
    /\ \/ \E t \in Tabs : SelectTab(t)
       \/ SelectFilter
       \/ \E e \in Entries : Select(e)
       \/ Answering
       \/ Submit
       \/ \E e \in Entries, status \in {"in_progress", "completed"} : Mark(e, status)

Service(s) == ServeRead(s) \/ ServeSubmit(s) \/ ServeMark(s)

Answered(s) ==
    \/ ListAnswered(s) \/ DetailAnswered(s) \/ AttemptsAnswered(s) \/ ProgressAnswered(s)
    \/ SubmitAnswered(s) \/ SubmitFails(s) \/ MarkAnswered(s) \/ MarkFails(s)

Next ==
    \/ Learner
    \/ \E s \in Slots : (Service(s) \/ Answered(s)) /\ UNCHANGED clicks

Spec == Init /\ [][Next]_vars

-------------------------------------------------------------------------------
(* Correctness                                                                 *)

\* What the screen shows is right unless calls overlapped: the lessons or questions are of
\* the selected entry, the score is of the selected quiz, the progress and the previous
\* attempts of an entry are the stored ones.
ScreenTellsTruth ==
    /\ detail.phase = "loaded" /\ selected # NULL /\ ~ mixed => detail.of = selected
    /\ submit.phase = "submitted" /\ ~ late => submit.of = selected
    /\ \A e \in Entries \ raced :
          e \notin Concerned =>
             /\ loaded => progressMap[e] = progress[e]
             /\ tab = "quizzes" /\ e \in Quizzes /\ myAttempts.phase = "loaded" =>
                   myAttempts.count[e] = attempts[e]

\* Whatever is shown as loading or submitting waits for a call that will end it, whatever
\* was selected, filtered or unmounted meanwhile, so no error leaves the screen stuck.
WaitsForAnAnswer ==
    /\ list = "loading" => Pending("list") # {}
    /\ detail.phase = "loading" /\ selected # NULL => Pending("detail") # {}
    /\ tab = "quizzes" /\ myAttempts.phase = "loading" => Pending("attempts") # {}
    /\ submit.phase = "submitting" => \E s \in Pending("submit") : calls[s].mounted

\* A quiz is marked complete on its own only after an attempt of it was stored, one with
\* answers to its own questions, also when the screen had moved on to another quiz.
CompletionFollowsAttempt ==
    \A s \in Pending("mark") : calls[s].auto => calls[s].of \in Quizzes /\ attempts[calls[s].of] > 0

-------------------------------------------------------------------------------
(* What the screen's promises rest on: the calls in flight.                    *)

ReadsOrWritesProgress(call, e) ==
    call.kind = "progress" \/ (call.kind \in {"submit", "mark"} /\ call.of = e)
ReadsOrWritesAttempts(call, z) ==
    call.kind = "attempts" \/ (call.kind = "submit" /\ call.of = z)

\* Of an entry that is not in raced one call at a time reads or writes the progress.  What it
\* was served is what is stored, a mark of "in progress" sent with the list on the screen
\* finds no progress, and the map lags behind by no more than a served mark.
ProgressIsTracked ==
    \A e \in Entries \ raced :
        /\ \A s, t \in Slots :
              ReadsOrWritesProgress(calls[s], e) /\ ReadsOrWritesProgress(calls[t], e) => s = t
        /\ \A s \in Pending("progress") : calls[s].served => calls[s].value[e] = progress[e]
        /\ \A s \in Pending("mark") :
              calls[s].of = e =>
                 /\ calls[s].served => progress[e] = calls[s].status
                 /\ ~ calls[s].served /\ calls[s].status = "in_progress" /\ ~ calls[s].blind
                       => progress[e] = "none"
        /\ loaded /\ ~ (\E s \in Pending("mark") : calls[s].of = e /\ calls[s].served)
              => progressMap[e] = progress[e]

\* The same of the attempts of a quiz, where a library of quizzes is on the screen: the count
\* lags behind by no more than a served submit, which that library has sent.
AttemptsAreTracked ==
    \A z \in Quizzes \ raced :
        /\ \A s, t \in Slots :
              ReadsOrWritesAttempts(calls[s], z) /\ ReadsOrWritesAttempts(calls[t], z) => s = t
        /\ \A s \in Pending("attempts") : calls[s].served => calls[s].value[z] = attempts[z]
        /\ tab = "quizzes" => \A s \in Pending("submit") : calls[s].of = z => calls[s].mounted
        /\ tab = "quizzes" /\ myAttempts.phase = "loaded" =>
              \/ /\ \E s \in Pending("submit") : calls[s].of = z /\ calls[s].served
                 /\ attempts[z] = myAttempts.count[z] + 1
              \/ /\ ~ \E s \in Pending("submit") : calls[s].of = z /\ calls[s].served
                 /\ attempts[z] = myAttempts.count[z]

\* Details and submits in flight are of the selection, until it was changed under them.
SelectionIsTracked ==
    /\ selected # NULL => selected \in Shown
    /\ tab = "courses" => submit.phase = "idle"
    /\ \A s \in Pending("submit") : calls[s].mounted => tab = "quizzes"
    /\ ~ mixed /\ selected # NULL => \A s \in Pending("detail") : calls[s].of = selected
    /\ ~ late => \A s \in Pending("submit") : calls[s].mounted => calls[s].of = selected

\* An attempt that was accepted is stored.
ServedIsStored ==
    \A s \in Pending("submit") : calls[s].served => attempts[calls[s].of] > 0

\* What holds whatever overlaps: nothing is stuck, and nothing is completed that was not taken.
CenterInv ==
    /\ TypeOK
    /\ CompletionFollowsAttempt /\ ServedIsStored
    /\ WaitsForAnAnswer
    /\ SelectionIsTracked /\ ProgressIsTracked /\ AttemptsAreTracked

\* "There is no un-complete action" (progress-control.tsx): a completed entry goes back to
\* in_progress only by a mark that was sent before any progress list had been answered, or
\* that overlapped another call about that entry.
UncompletedOnlyBlind ==
    [][ \A e \in Entries :
           progress[e] = "completed" /\ progress'[e] # "completed" =>
              \/ e \in raced
              \/ \E s \in Pending("mark") : calls[s].of = e /\ calls[s].blind ]_vars

===============================================================================
