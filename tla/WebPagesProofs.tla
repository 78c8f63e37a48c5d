---------------------------- MODULE WebPagesProofs ----------------------------
(***************************************************************************)
(* What the pages of the web app promise, proved for every set of courses, *)
(* quizzes, orders and entries and any number of calls in flight: the      *)
(* education screen (LearningCenter), the order form with the journal page *)
(* (OrderForm, JournalList), and the session they all run in (WebSession). *)
(*                                                                         *)
(* The pages share no state, and each part cites only its own module.      *)
(***************************************************************************)
EXTENDS LearningCenter, OrderForm, WebSession, DataLemmas

-------------------------------------------------------------------------------
(*                           The education screen                              *)
-------------------------------------------------------------------------------

\* The inductive invariant: what is promised, with what it rests on (LearningCenter).
CenterIInv == CenterInv /\ ScreenTellsTruth

-------------------------------------------------------------------------------
(* Types.                                                                      *)

\* The kind of a call says of which set it is.
LEMMA CallKinds ==
    ASSUME NEW call \in Call
    PROVE  /\ call.kind \in {"idle", "list", "detail", "attempts", "progress", "submit", "mark"}
           /\ call.kind = "detail" => call \in DetailCalls
           /\ call.kind = "attempts" => call \in AttemptsCalls
           /\ call.kind = "progress" => call \in ProgressCalls
           /\ call.kind = "submit" => call \in SubmitCalls
           /\ call.kind = "mark" => call \in MarkCalls
<1>1. Idle.kind = "idle" /\ \A c \in ListCalls : c.kind = "list"
  BY DEF Idle, ListCalls
<1>2. \A c \in DetailCalls : c.kind = "detail"
  BY DEF DetailCalls
<1>3. \A c \in AttemptsCalls : c.kind = "attempts"
  BY DEF AttemptsCalls
<1>4. \A c \in ProgressCalls : c.kind = "progress"
  BY DEF ProgressCalls
<1>5. \A c \in SubmitCalls : c.kind = "submit"
  BY DEF SubmitCalls
<1>6. \A c \in MarkCalls : c.kind = "mark"
  BY DEF MarkCalls
<1>. QED  BY <1>1, <1>2, <1>3, <1>4, <1>5, <1>6 DEF Call

\* What the fields of a call are, by its kind.
LEMMA CallFields ==
    ASSUME NEW call \in Call
    PROVE  /\ call.kind = "detail" => call.of \in Entries
           /\ call.kind \in {"attempts", "progress", "submit", "mark"} => call.served \in BOOLEAN
           /\ call.kind = "attempts" /\ call.served => call.value \in [Quizzes -> 0..MaxAttempts]
           /\ call.kind = "progress" /\ call.served => call.value \in [Entries -> Statuses]
           /\ call.kind = "submit" => /\ call.of \in Quizzes /\ call.questions \in Quizzes
                                      /\ call.mounted \in BOOLEAN
           /\ call.kind = "mark" => /\ call.of \in Entries /\ call.status \in Statuses \ {"none"}
                                    /\ call.auto \in BOOLEAN /\ call.blind \in BOOLEAN
<1>1. call.kind = "detail" => call.of \in Entries
  BY CallKinds DEF DetailCalls
<1>2. call.kind = "attempts" =>
         call.served \in BOOLEAN /\ (call.served => call.value \in [Quizzes -> 0..MaxAttempts])
  BY CallKinds DEF AttemptsCalls
<1>3. call.kind = "progress" =>
         call.served \in BOOLEAN /\ (call.served => call.value \in [Entries -> Statuses])
  BY CallKinds DEF ProgressCalls
<1>4. call.kind = "submit" => /\ call.served \in BOOLEAN /\ call.of \in Quizzes
                              /\ call.questions \in Quizzes /\ call.mounted \in BOOLEAN
  BY CallKinds DEF SubmitCalls
<1>5. call.kind = "mark" => /\ call.served \in BOOLEAN /\ call.of \in Entries
                            /\ call.status \in Statuses \ {"none"}
                            /\ call.auto \in BOOLEAN /\ call.blind \in BOOLEAN
  BY CallKinds DEF MarkCalls
<1>. QED  BY <1>1, <1>2, <1>3, <1>4, <1>5

\* The calls that handlers send are calls.
LEMMA CallsSent ==
    /\ Idle \in Call
    /\ [kind |-> "list"] \in Call
    /\ \A e \in Entries : [kind |-> "detail", of |-> e] \in Call
    /\ [kind |-> "attempts", served |-> FALSE] \in Call
    /\ [kind |-> "progress", served |-> FALSE] \in Call
    /\ \A v \in [Quizzes -> 0..MaxAttempts] :
          [kind |-> "attempts", served |-> TRUE, value |-> v] \in Call
    /\ \A v \in [Entries -> Statuses] :
          [kind |-> "progress", served |-> TRUE, value |-> v] \in Call
    /\ \A z, y \in Quizzes :
          [kind |-> "submit", served |-> FALSE, of |-> z, questions |-> y, mounted |-> TRUE] \in Call
    /\ \A e \in Entries, mark \in Statuses \ {"none"}, a, b \in BOOLEAN :
          [kind |-> "mark", served |-> FALSE, of |-> e, status |-> mark,
           auto |-> a, blind |-> b] \in Call
  BY DEF Call, Idle, ListCalls, DetailCalls, AttemptsCalls, ProgressCalls, SubmitCalls, MarkCalls

\* Serving a call, or unmounting what sent it, leaves it a call.
LEMMA CallsKept ==
    ASSUME NEW call \in Call
    PROVE  /\ call.kind \in {"submit", "mark"} => [call EXCEPT !.served = TRUE] \in Call
           /\ Unmounted(call) \in Call
<1>1. CASE call.kind = "submit"
  <2>1. call \in SubmitCalls
    BY <1>1, CallKinds
  <2>2. /\ [call EXCEPT !.served = TRUE] \in SubmitCalls
        /\ [call EXCEPT !.mounted = FALSE] \in SubmitCalls
    BY <2>1 DEF SubmitCalls
  <2>. QED  BY <1>1, <2>2 DEF Unmounted, Call
<1>2. CASE call.kind = "mark"
  <2>1. call \in MarkCalls
    BY <1>2, CallKinds
  <2>2. [call EXCEPT !.served = TRUE] \in MarkCalls
    BY <2>1 DEF MarkCalls
  <2>. QED  BY <1>2, <2>2 DEF Unmounted, Call
<1>3. CASE call.kind \notin {"submit", "mark"}
  BY <1>3, CallsSent DEF Unmounted
<1>. QED  BY <1>1, <1>2, <1>3

\* The first screen: the list of courses and the progress are on their way.
LEMMA CenterInitially == Init => CenterIInv
<1>. SUFFICES ASSUME Init PROVE CenterIInv
  OBVIOUS
<1>1. PICK s \in Slots, t \in Slots :
          /\ s # t
          /\ calls = [x \in Slots |-> CASE x = s -> [kind |-> "progress", served |-> FALSE]
                                        [] x = t -> [kind |-> "list"]
                                        [] OTHER -> Idle]
  BY DEF Init
<1>2. /\ calls[s] = [kind |-> "progress", served |-> FALSE] /\ calls[t] = [kind |-> "list"]
      /\ \A x \in Slots \ {s, t} : calls[x] = Idle
  BY <1>1
<1>3. TypeOK
  <2>1. calls \in [Slots -> Call]
    BY <1>1, CallsSent
  <2>2. /\ detail \in [phase : {"loading", "loaded", "error"}, of : Entries \cup {NULL}]
        /\ submit \in [phase : {"idle", "submitting", "submitted", "error"}, of : Quizzes \cup {NULL}]
        /\ myAttempts \in [phase : {"loading", "loaded", "error"}, count : [Quizzes -> Nat]]
    BY DEF Init, NoEntry, NoAttempts
  <2>3. /\ attempts \in [Quizzes -> 0..MaxAttempts] /\ clicks \in 0..MaxClicks
    BY BoundsAssumption DEF Init
  <2>4. progress \in [Entries -> Statuses] /\ progressMap \in [Entries -> Statuses]
    BY DEF Init, Statuses
  <2>. QED  BY <2>1, <2>2, <2>3, <2>4 DEF Init, TypeOK, Tabs
<1>4. /\ Pending("submit") = {} /\ Pending("mark") = {} /\ Pending("detail") = {}
      /\ Pending("attempts") = {} /\ t \in Pending("list") /\ Pending("progress") = {s}
  BY <1>2 DEF Pending, Idle
<1>5. CompletionFollowsAttempt /\ ServedIsStored
  BY <1>4 DEF CompletionFollowsAttempt, ServedIsStored
<1>6. WaitsForAnAnswer
  BY <1>4 DEF WaitsForAnAnswer, Init
<1>7. SelectionIsTracked
  BY <1>4 DEF SelectionIsTracked, Init
<1>8. ProgressIsTracked
  BY <1>2, <1>4 DEF ProgressIsTracked, ReadsOrWritesProgress, Init, Idle
<1>9. AttemptsAreTracked
  BY <1>2, <1>4 DEF AttemptsAreTracked, ReadsOrWritesAttempts, Init, Idle
<1>10. ScreenTellsTruth
  BY DEF ScreenTellsTruth, Init, NoEntry
<1>. QED  BY <1>3, <1>5, <1>6, <1>7, <1>8, <1>9, <1>10 DEF CenterIInv, CenterInv

\* Another tab sends a list and a read of the attempts at most, and unmounts or keeps the rest.
LEMMA SelectTabCalls ==
    ASSUME TypeOK, NEW t \in Tabs, SelectTab(t)
    PROVE  /\ \A s \in Slots :
                 /\ calls'[s].kind \in {"idle", "list", "attempts", "submit", "progress", "mark"}
                 /\ calls'[s].kind = "attempts" => t = "quizzes" /\ ~ calls'[s].served
                 /\ calls'[s].kind = "submit" =>
                       /\ calls[s].kind = "submit" /\ calls'[s].of = calls[s].of
                       /\ calls'[s].served = calls[s].served /\ ~ calls'[s].mounted
                 /\ calls'[s].kind \in {"progress", "mark"} => calls'[s] = calls[s]
                 /\ calls[s].kind \in {"progress", "mark"} => calls'[s] = calls[s]
           /\ \A s, u \in Slots :
                 calls'[s].kind = "attempts" /\ calls'[u].kind = "attempts" => s = u
<1>. DEFINE kept == [s \in Slots |-> Unmounted(calls[s])]
<1>1. \A s \in Slots :
         /\ kept[s].kind \in {"idle", "submit", "progress", "mark"}
         /\ kept[s].kind = "submit" => /\ calls[s].kind = "submit" /\ kept[s].of = calls[s].of
                                       /\ kept[s].served = calls[s].served /\ ~ kept[s].mounted
         /\ kept[s].kind \in {"progress", "mark"} => kept[s] = calls[s]
         /\ calls[s].kind \in {"progress", "mark"} => kept[s] = calls[s]
  BY CallKinds DEF Unmounted, Idle, SubmitCalls, TypeOK
<1>2. PICK s, u \in {x \in Slots : kept[x] = Idle} :
         calls' = [kept EXCEPT
               ![s] = [kind |-> "list"],
               ![u] = IF t = "quizzes" THEN [kind |-> "attempts", served |-> FALSE] ELSE Idle]
  BY DEF SelectTab
<1>3. \A x \in Slots :
         \/ calls'[x] = kept[x]
         \/ /\ kept[x] = Idle
            /\ \/ calls'[x] = [kind |-> "list"]
               \/ x = u /\ t = "quizzes" /\ calls'[x] = [kind |-> "attempts", served |-> FALSE]
               \/ calls'[x] = Idle
  BY <1>2
<1>. HIDE DEF kept
<1>. QED  BY <1>1, <1>3 DEF Idle

\* Every step keeps the types.
LEMMA StepType ==
    ASSUME TypeOK, SelectionIsTracked, [Next]_vars
    PROVE  TypeOK'
<1>. USE DEF TypeOK, stored, library, Send
<1>1. ASSUME NEW t \in Tabs, SelectTab(t), clicks' \in 0..MaxClicks PROVE TypeOK'
  <2>. DEFINE kept == [s \in Slots |-> Unmounted(calls[s])]
  <2>1. kept \in [Slots -> Call]
    BY CallsKept
  <2>. HIDE DEF kept
  <2>2. calls' \in [Slots -> Call]
    BY <1>1, <2>1, CallsSent DEF SelectTab, kept
  <2>3. raced' \subseteq Entries
    BY <1>1, CallFields DEF SelectTab, Pending, About, Entries
  <2>. QED  BY <1>1, <2>2, <2>3 DEF SelectTab, NoEntry, NoAttempts
<1>2. ASSUME SelectFilter, clicks' \in 0..MaxClicks PROVE TypeOK'
  BY <1>2, CallsSent DEF SelectFilter, Free
<1>3. ASSUME NEW e \in Entries, Select(e), clicks' \in 0..MaxClicks PROVE TypeOK'
  BY <1>3, CallsSent DEF Select, Free, NoEntry
<1>4. ASSUME Answering, clicks' \in 0..MaxClicks PROVE TypeOK'
  BY <1>4 DEF Answering, QuestionsShown
<1>5. ASSUME Submit, clicks' \in 0..MaxClicks PROVE TypeOK'
  <2>1. selected \in Quizzes /\ detail.of \in Quizzes
    BY <1>5 DEF Submit, SubmitEnabled, QuestionsShown, DetailShown, SelectionIsTracked, Shown
  <2>. QED  BY <1>5, <2>1, CallsSent DEF Submit, Free, Entries
<1>6. ASSUME NEW e \in Entries, NEW mark \in {"in_progress", "completed"}, Mark(e, mark),
             clicks' \in 0..MaxClicks
      PROVE  TypeOK'
  <2>1. PICK s \in Slots : calls' = [calls EXCEPT ![s] =
            [kind |-> "mark", served |-> FALSE, of |-> e, status |-> mark,
             auto |-> FALSE, blind |-> ~ loaded]]
    BY <1>6 DEF Mark, Free
  <2>2. mark \in Statuses \ {"none"} /\ (~ loaded) \in BOOLEAN
    BY DEF Statuses
  <2>3. calls' \in [Slots -> Call]
    BY <2>1, <2>2, CallsSent
  <2>. QED  BY <1>6, <2>3 DEF Mark
<1>7. ASSUME NEW s \in Slots, Service(s), UNCHANGED clicks PROVE TypeOK'
  <2>1. CASE ServeRead(s)
    BY <1>7, <2>1, CallsSent DEF ServeRead
  <2>2. CASE ServeSubmit(s)
    <3>1. calls[s].of \in Quizzes /\ calls' \in [Slots -> Call]
      BY <2>2, CallFields, CallsKept DEF ServeSubmit
    <3>2. attempts' \in [Quizzes -> 0..MaxAttempts]
      BY <2>2, <3>1, BoundsAssumption DEF ServeSubmit
    <3>. QED  BY <1>7, <2>2, <3>1, <3>2 DEF ServeSubmit
  <2>3. CASE ServeMark(s)
    <3>1. /\ calls[s].of \in Entries /\ calls[s].status \in Statuses
          /\ calls' \in [Slots -> Call]
      BY <2>3, CallFields, CallsKept DEF ServeMark
    <3>. QED  BY <1>7, <2>3, <3>1 DEF ServeMark
  <2>. QED  BY <1>7, <2>1, <2>2, <2>3 DEF Service
<1>8. ASSUME NEW s \in Slots, Answered(s), UNCHANGED clicks PROVE TypeOK'
  <2>1. CASE ListAnswered(s)
    BY <1>8, <2>1, CallsSent DEF ListAnswered
  <2>2. CASE DetailAnswered(s)
    BY <1>8, <2>2, CallsSent, CallFields DEF DetailAnswered
  <2>3. CASE AttemptsAnswered(s)
    <3>1. myAttempts' \in [phase : {"loading", "loaded", "error"}, count : [Quizzes -> Nat]]
      BY <2>3, CallFields, BoundsAssumption DEF AttemptsAnswered, NoAttempts
    <3>. QED  BY <1>8, <2>3, <3>1, CallsSent DEF AttemptsAnswered
  <2>4. CASE ProgressAnswered(s)
    <3>1. progressMap' \in [Entries -> Statuses] /\ loaded' \in BOOLEAN
      BY <2>4, CallFields DEF ProgressAnswered
    <3>. QED  BY <1>8, <2>4, <3>1, CallsSent DEF ProgressAnswered
  <2>5. CASE SubmitAnswered(s)
    <3>1. calls[s].of \in Quizzes /\ calls[s].of \in Entries
      BY <2>5, CallFields DEF SubmitAnswered, Entries
    <3>2. calls' \in [Slots -> Call]
      BY <2>5, <3>1, CallsSent DEF SubmitAnswered, Statuses
    <3>3. myAttempts' \in [phase : {"loading", "loaded", "error"}, count : [Quizzes -> Nat]]
      BY <2>5, <3>1 DEF SubmitAnswered
    <3>. QED  BY <1>8, <2>5, <3>1, <3>2, <3>3 DEF SubmitAnswered
  <2>6. CASE SubmitFails(s)
    BY <1>8, <2>6, CallsSent, CallFields DEF SubmitFails, Entries
  <2>7. CASE MarkAnswered(s)
    BY <1>8, <2>7, CallsSent, CallFields DEF MarkAnswered
  <2>8. CASE MarkFails(s)
    BY <1>8, <2>8, CallsSent, CallFields DEF MarkFails
  <2>. QED  BY <1>8, <2>1, <2>2, <2>3, <2>4, <2>5, <2>6, <2>7, <2>8 DEF Answered
<1>9. CASE UNCHANGED vars
  BY <1>9 DEF vars
<1>10. CASE Learner
  <2>1. clicks' \in 0..MaxClicks
    BY <1>10, BoundsAssumption DEF Learner
  <2>. QED  BY <1>10, <2>1, <1>1, <1>2, <1>3, <1>4, <1>5, <1>6 DEF Learner
<1>. QED  BY <1>7, <1>8, <1>9, <1>10 DEF Next

-------------------------------------------------------------------------------
(* Nothing waits for ever.                                                     *)

\* Most steps put one call in the place of another, of which no property waited.
LEMMA StepWaits ==
    ASSUME TypeOK, WaitsForAnAnswer, SelectionIsTracked, [Next]_vars
    PROVE  WaitsForAnAnswer'
<1>. USE DEF TypeOK, stored, library, Send, WaitsForAnAnswer, Pending, Free
<1>1. ASSUME NEW t \in Tabs, SelectTab(t) PROVE WaitsForAnAnswer'
  BY <1>1 DEF SelectTab, NoEntry, NoAttempts
<1>2. CASE SelectFilter
  BY <1>2 DEF SelectFilter, Idle
<1>3. ASSUME NEW e \in Entries, Select(e) PROVE WaitsForAnAnswer'
  BY <1>3 DEF Select, NoEntry, Idle
<1>4. CASE Answering
  BY <1>4 DEF Answering
<1>5. CASE Submit
  BY <1>5 DEF Submit, Idle
<1>6. ASSUME NEW e \in Entries, NEW mark \in {"in_progress", "completed"}, Mark(e, mark)
      PROVE  WaitsForAnAnswer'
  BY <1>6 DEF Mark, Idle
<1>7. ASSUME NEW s \in Slots, ServeRead(s) \/ ServeSubmit(s) \/ ServeMark(s)
      PROVE  WaitsForAnAnswer'
  <2>1. CASE ServeRead(s)    BY <2>1 DEF ServeRead
  <2>2. CASE ServeSubmit(s)  BY <2>2 DEF ServeSubmit
  <2>3. CASE ServeMark(s)    BY <2>3 DEF ServeMark
  <2>. QED  BY <1>7, <2>1, <2>2, <2>3
<1>8. ASSUME NEW s \in Slots, Answered(s) PROVE WaitsForAnAnswer'
  <2>. USE DEF Idle
  <2>1. CASE ListAnswered(s)      BY <2>1 DEF ListAnswered
  <2>2. CASE DetailAnswered(s)    BY <2>2 DEF DetailAnswered
  <2>3. CASE AttemptsAnswered(s)  BY <2>3 DEF AttemptsAnswered, NoAttempts
  <2>4. CASE ProgressAnswered(s)  BY <2>4 DEF ProgressAnswered
  <2>5. CASE SubmitAnswered(s)    BY <2>5 DEF SubmitAnswered
  <2>6. CASE SubmitFails(s)       BY <2>6 DEF SubmitFails
  <2>7. CASE MarkAnswered(s)      BY <2>7 DEF MarkAnswered
  <2>8. CASE MarkFails(s)         BY <2>8 DEF MarkFails
  <2>. QED  BY <1>8, <2>1, <2>2, <2>3, <2>4, <2>5, <2>6, <2>7, <2>8 DEF Answered
<1>9. CASE UNCHANGED vars
  BY <1>9 DEF vars
<1>. QED  BY <1>1, <1>2, <1>3, <1>4, <1>5, <1>6, <1>7, <1>8, <1>9 DEF Next, Learner, Service

-------------------------------------------------------------------------------
(* Completions follow attempts.                                                *)

\* Marks are sent by the learner or follow a served submit, and attempts only grow.
LEMMA StepStored ==
    ASSUME TypeOK, CompletionFollowsAttempt, ServedIsStored, [Next]_vars
    PROVE  CompletionFollowsAttempt' /\ ServedIsStored'
<1>. USE DEF TypeOK, stored, library, Send, CompletionFollowsAttempt, ServedIsStored, Pending, Free
<1>f. \A s \in Slots : /\ calls[s].kind = "submit" => calls[s].of \in Quizzes
                       /\ calls[s].kind \in {"submit", "mark"} => calls[s].served \in BOOLEAN
                       /\ calls[s].kind = "mark" => calls[s].auto \in BOOLEAN
  BY CallFields
<1>g. \A z \in Quizzes : attempts[z] \in Nat
  BY BoundsAssumption
<1>1. ASSUME NEW t \in Tabs, SelectTab(t) PROVE CompletionFollowsAttempt' /\ ServedIsStored'
  <2>2. \A s \in Slots :
           /\ calls'[s].kind = "submit" => /\ calls[s].kind = "submit" /\ calls'[s].of = calls[s].of
                                           /\ calls'[s].served = calls[s].served
           /\ calls'[s].kind = "mark" => calls'[s] = calls[s]
    BY <1>1, SelectTabCalls
  <2>. QED  BY <1>1, <2>2, ZenonT(60) DEF SelectTab
<1>2. CASE SelectFilter
  BY <1>2 DEF SelectFilter
<1>3. ASSUME NEW e \in Entries, Select(e) PROVE CompletionFollowsAttempt' /\ ServedIsStored'
  BY <1>3 DEF Select
<1>4. CASE Answering
  BY <1>4 DEF Answering
<1>5. CASE Submit
  BY <1>5 DEF Submit
<1>6. ASSUME NEW e \in Entries, NEW mark \in {"in_progress", "completed"}, Mark(e, mark)
      PROVE  CompletionFollowsAttempt' /\ ServedIsStored'
  BY <1>6 DEF Mark
<1>7. ASSUME NEW s \in Slots, ServeRead(s) \/ ServeSubmit(s) \/ ServeMark(s)
      PROVE  CompletionFollowsAttempt' /\ ServedIsStored'
  <2>1. CASE ServeRead(s)
    BY <2>1 DEF ServeRead
  <2>2. CASE ServeSubmit(s)
    BY <1>f, <1>g, <2>2 DEF ServeSubmit
  <2>3. CASE ServeMark(s)
    BY <2>3 DEF ServeMark
  <2>. QED  BY <1>7, <2>1, <2>2, <2>3
<1>8. ASSUME NEW s \in Slots, Answered(s) PROVE CompletionFollowsAttempt' /\ ServedIsStored'
  <2>. USE DEF Idle
  <2>1. CASE ListAnswered(s)      BY <2>1 DEF ListAnswered
  <2>2. CASE DetailAnswered(s)    BY <2>2 DEF DetailAnswered
  <2>3. CASE AttemptsAnswered(s)  BY <2>3 DEF AttemptsAnswered
  <2>4. CASE ProgressAnswered(s)  BY <2>4 DEF ProgressAnswered
  <2>5. CASE SubmitAnswered(s)    BY <1>f, <2>5 DEF SubmitAnswered
  <2>6. CASE SubmitFails(s)       BY <2>6 DEF SubmitFails
  <2>7. CASE MarkAnswered(s)      BY <2>7 DEF MarkAnswered
  <2>8. CASE MarkFails(s)         BY <2>8 DEF MarkFails
  <2>. QED  BY <1>8, <2>1, <2>2, <2>3, <2>4, <2>5, <2>6, <2>7, <2>8 DEF Answered
<1>9. CASE UNCHANGED vars
  BY <1>9 DEF vars
<1>. QED  BY <1>1, <1>2, <1>3, <1>4, <1>5, <1>6, <1>7, <1>8, <1>9 DEF Next, Learner, Service

-------------------------------------------------------------------------------
(* The selection.                                                              *)

\* What is shown of the selection is of it, until it was changed under a call.
SelectionShown ==
    /\ detail.phase = "loaded" /\ selected # NULL /\ ~ mixed => detail.of = selected
    /\ submit.phase = "submitted" /\ ~ late => submit.of = selected

\* Select starts the detail and the submit over, and notices the calls it leaves in flight.
LEMMA StepSelection ==
    ASSUME TypeOK, SelectionIsTracked, SelectionShown, [Next]_vars
    PROVE  SelectionIsTracked' /\ SelectionShown'
<1>. USE DEF TypeOK, stored, library, Send, SelectionIsTracked, SelectionShown, Pending, Free, Shown
<1>f. \A s \in Slots : calls[s].kind = "submit" => calls[s].mounted \in BOOLEAN
  BY CallFields
<1>1. ASSUME NEW t \in Tabs, SelectTab(t) PROVE SelectionIsTracked' /\ SelectionShown'
  BY <1>1, SelectTabCalls DEF SelectTab, NoEntry
<1>2. CASE SelectFilter
  BY <1>2 DEF SelectFilter
<1>3. ASSUME NEW e \in Entries, Select(e) PROVE SelectionIsTracked' /\ SelectionShown'
  <2>1. PICK s \in Free : calls' = [calls EXCEPT ![s] = [kind |-> "detail", of |-> e]]
    BY <1>3 DEF Select
  <2>2. \A u \in Slots : \/ u = s /\ calls'[u] = [kind |-> "detail", of |-> e]
                         \/ u # s /\ calls'[u] = calls[u]
    BY <2>1
  <2>3. /\ selected' = e /\ tab' = tab /\ e \in Shown
        /\ detail' = NoEntry /\ submit' = [phase |-> "idle", of |-> NULL]
        /\ ~ mixed' => \A u \in Slots : calls[u].kind # "detail"
        /\ ~ late' => \A u \in Slots : calls[u].kind # "submit"
    BY <1>3 DEF Select, EntryShown
  <2>4. \A u \in Slots : calls'[u].kind = "submit" => calls'[u] = calls[u]
    BY <2>2
  <2>5. \A u \in Slots : calls'[u].kind = "detail" => calls'[u].of = e \/ calls'[u] = calls[u]
    BY <2>2
  <2>. QED  BY <2>3, <2>4, <2>5 DEF NoEntry
<1>4. CASE Answering
  BY <1>4 DEF Answering
<1>5. CASE Submit
  BY <1>5 DEF Submit, SubmitEnabled, QuestionsShown, Idle
<1>6. ASSUME NEW e \in Entries, NEW mark \in {"in_progress", "completed"}, Mark(e, mark)
      PROVE  SelectionIsTracked' /\ SelectionShown'
  BY <1>6 DEF Mark, Idle
<1>7. ASSUME NEW s \in Slots, ServeRead(s) \/ ServeSubmit(s) \/ ServeMark(s)
      PROVE  SelectionIsTracked' /\ SelectionShown'
  <2>1. CASE ServeRead(s)
    BY <2>1 DEF ServeRead
  <2>2. CASE ServeSubmit(s)
    BY <1>f, <2>2 DEF ServeSubmit
  <2>3. CASE ServeMark(s)
    BY <2>3 DEF ServeMark
  <2>. QED  BY <1>7, <2>1, <2>2, <2>3
<1>8. ASSUME NEW s \in Slots, Answered(s) PROVE SelectionIsTracked' /\ SelectionShown'
  <2>. USE DEF Idle
  <2>1. CASE ListAnswered(s)      BY <2>1 DEF ListAnswered
  <2>2. CASE DetailAnswered(s)    BY <2>2 DEF DetailAnswered
  <2>3. CASE AttemptsAnswered(s)  BY <2>3 DEF AttemptsAnswered
  <2>4. CASE ProgressAnswered(s)  BY <2>4 DEF ProgressAnswered
  <2>5. CASE SubmitAnswered(s)    BY <1>f, <2>5 DEF SubmitAnswered
  <2>6. CASE SubmitFails(s)       BY <1>f, <2>6 DEF SubmitFails
  <2>7. CASE MarkAnswered(s)      BY <2>7 DEF MarkAnswered
  <2>8. CASE MarkFails(s)         BY <2>8 DEF MarkFails
  <2>. QED  BY <1>8, <2>1, <2>2, <2>3, <2>4, <2>5, <2>6, <2>7, <2>8 DEF Answered
<1>9. CASE UNCHANGED vars
  BY <1>9 DEF vars
<1>. QED  BY <1>1, <1>2, <1>3, <1>4, <1>5, <1>6, <1>7, <1>8, <1>9 DEF Next, Learner, Service

-------------------------------------------------------------------------------
(* The progress of entries.                                                    *)

\* A step that neither sends, serves nor answers a call about progress leaves it tracked.
LEMMA ProgressUntouched ==
    ASSUME TypeOK, ProgressIsTracked, UNCHANGED <<progress, progressMap, loaded>>, raced \subseteq raced',
           \A s \in Slots : calls'[s].kind \in {"progress", "mark"} => calls'[s] = calls[s],
           \A s \in Slots : calls'[s].kind = "submit" =>
                               calls[s].kind = "submit" /\ calls'[s].of = calls[s].of,
           \A s \in Slots : calls[s].kind = "mark" => calls'[s] = calls[s]
    PROVE  ProgressIsTracked'
  BY DEF ProgressIsTracked, ReadsOrWritesProgress, Pending

\* No call is about an entry that is not concerned.
LEMMA Unconcerned ==
    ASSUME TypeOK, NEW e \in Entries, e \notin Concerned, NEW s \in Slots
    PROVE  ~ ReadsOrWritesProgress(calls[s], e) /\ ~ (e \in Quizzes /\ ReadsOrWritesAttempts(calls[s], e))
  BY DEF Concerned, About, ReadsOrWritesProgress, ReadsOrWritesAttempts

\* A call about an entry that another is about makes it raced; alone it reads or writes the truth.
LEMMA StepProgress ==
    ASSUME TypeOK, ProgressIsTracked, [Next]_vars
    PROVE  ProgressIsTracked'
<1>. USE DEF TypeOK, stored, library, Send, Free
<1>f. \A s \in Slots : /\ calls[s].kind \in {"submit", "mark"} =>
                             calls[s].of \in Entries /\ calls[s].served \in BOOLEAN
                       /\ calls[s].kind = "mark" => calls[s].status \in Statuses /\ calls[s].blind \in BOOLEAN
                       /\ calls[s].kind = "progress" => calls[s].served \in BOOLEAN
  BY CallFields DEF Entries
<1>1. ASSUME NEW t \in Tabs, SelectTab(t) PROVE ProgressIsTracked'
  <2>1. \A s \in Slots : calls[s].kind = "mark" => calls'[s] = calls[s]
    BY <1>1, SelectTabCalls
  <2>2. raced \subseteq raced' /\ UNCHANGED <<progress, progressMap, loaded>>
    BY <1>1 DEF SelectTab
  <2>. QED  BY <1>1, <2>1, <2>2, SelectTabCalls, ProgressUntouched
<1>2. CASE SelectFilter
  BY <1>2, ProgressUntouched DEF SelectFilter, Idle
<1>3. ASSUME NEW e \in Entries, Select(e) PROVE ProgressIsTracked'
  BY <1>3, ProgressUntouched DEF Select, Idle
<1>4. CASE Answering
  BY <1>4, ProgressUntouched DEF Answering
<1>5. CASE Submit
  <2>1. PICK s \in Slots : calls[s] = Idle /\ calls' = [calls EXCEPT ![s] =
           [kind |-> "submit", served |-> FALSE, of |-> selected, questions |-> detail.of, mounted |-> TRUE]]
    BY <1>5 DEF Submit
  <2>2. raced' = raced \cup ({selected} \cap Concerned) /\ UNCHANGED <<progress, progressMap, loaded>>
    BY <1>5 DEF Submit
  <2>. QED  BY <2>1, <2>2, Unconcerned DEF ProgressIsTracked, ReadsOrWritesProgress, Pending, Idle
<1>6. ASSUME NEW e \in Entries, NEW mark \in {"in_progress", "completed"}, Mark(e, mark)
      PROVE  ProgressIsTracked'
  <2>1. PICK s \in Slots : calls[s] = Idle /\ calls' = [calls EXCEPT ![s] =
           [kind |-> "mark", served |-> FALSE, of |-> e, status |-> mark, auto |-> FALSE,
            blind |-> ~ loaded]]
    BY <1>6 DEF Mark
  <2>2. /\ raced' = raced \cup ({e} \cap Concerned) /\ UNCHANGED <<progress, progressMap, loaded>>
        /\ mark = "in_progress" => progressMap[e] = "none"
    BY <1>6 DEF Mark
  <2>3. /\ calls'[s].kind = "mark" /\ calls'[s].of = e /\ calls'[s].served = FALSE
        /\ calls'[s].status = mark /\ calls'[s].blind = ~ loaded
        /\ \A u \in Slots \ {s} : calls'[u] = calls[u]
    BY <2>1
  <2>4. e \in raced' \/ \A u \in Slots : ~ ReadsOrWritesProgress(calls[u], e)
    BY <2>2, Unconcerned
  <2>5. calls[s].kind = "idle"
    BY <2>1 DEF Idle
  <2>6. ASSUME NEW x \in Entries \ raced', x # e
        PROVE  /\ \A u \in Slots : ReadsOrWritesProgress(calls[u], x)' <=> ReadsOrWritesProgress(calls[u], x)
               /\ \A u \in Slots : calls'[u].kind = "mark" /\ calls'[u].of = x =>
                                     calls'[u] = calls[u]
               /\ x \notin raced
    BY <2>2, <2>3, <2>5, <2>6 DEF ReadsOrWritesProgress
  <2>7. ASSUME NEW x \in Entries \ raced', x = e
        PROVE  /\ \A u \in Slots : ReadsOrWritesProgress(calls[u], x)' => u = s
               /\ \A u \in Slots \ {s} : ~ ReadsOrWritesProgress(calls[u], x)
               /\ x \notin raced
    BY <2>2, <2>3, <2>4, <2>7 DEF ReadsOrWritesProgress
  <2>8. SUFFICES ASSUME NEW x \in Entries \ raced'
                 PROVE  /\ \A u, v \in Slots :
                              ReadsOrWritesProgress(calls[u], x)' /\ ReadsOrWritesProgress(calls[v], x)'
                                 => u = v
                        /\ \A u \in Slots :
                              calls'[u].kind = "progress" /\ calls'[u].served =>
                                 calls'[u].value[x] = progress[x]
                        /\ \A u \in Slots :
                              calls'[u].kind = "mark" /\ calls'[u].of = x =>
                                 /\ calls'[u].served => progress[x] = calls'[u].status
                                 /\ ~ calls'[u].served /\ calls'[u].status = "in_progress"
                                       => calls'[u].blind \/ progress[x] = "none"
                        /\ loaded => \/ progressMap[x] = progress[x]
                                     \/ \E u \in Slots : /\ calls'[u].kind = "mark"
                                                         /\ calls'[u].of = x /\ calls'[u].served
    BY <2>2, <2>8 DEF ProgressIsTracked, Pending
  <2>9. CASE x # e
    <3>1. x \in Entries \ raced
      BY <2>6, <2>9
    <3>2. \A u \in Slots : calls[u].kind = "mark" /\ calls[u].of = x => calls'[u] = calls[u]
      BY <2>3, <2>5
    <3>. QED  BY <2>3, <2>6, <2>9, <3>1, <3>2 DEF ProgressIsTracked, Pending
  <2>10. CASE x = e
    <3>1. x \in Entries \ raced
      BY <2>7, <2>10
    <3>2. ~ \E u \in Slots : calls[u].kind = "mark" /\ calls[u].of = x
      BY <2>5, <2>7, <2>10 DEF ReadsOrWritesProgress
    <3>3. loaded => progressMap[x] = progress[x]
      BY <3>1, <3>2 DEF ProgressIsTracked, Pending
    <3>4. \A u \in Slots : ReadsOrWritesProgress(calls[u], x)' => u = s
      BY <2>7, <2>10
    <3>5. \A u \in Slots : calls'[u].kind = "progress" => u = s
      BY <3>4 DEF ReadsOrWritesProgress
    <3>6. \A u \in Slots : calls'[u].kind = "mark" /\ calls'[u].of = x => u = s
      BY <3>4 DEF ReadsOrWritesProgress
    <3>. QED  BY <2>2, <2>3, <2>10, <3>3, <3>4, <3>5, <3>6
  <2>. QED  BY <2>9, <2>10
<1>7. ASSUME NEW s \in Slots, ServeRead(s) \/ ServeSubmit(s) \/ ServeMark(s)
      PROVE  ProgressIsTracked'
  <2>1. CASE ServeRead(s)
    BY <2>1 DEF ServeRead, ProgressIsTracked, ReadsOrWritesProgress, Pending
  <2>2. CASE ServeSubmit(s)
    BY <1>f, <2>2, ProgressUntouched DEF ServeSubmit
  <2>3. CASE ServeMark(s)
    BY <1>f, <2>3 DEF ServeMark, ProgressIsTracked, ReadsOrWritesProgress, Pending
  <2>. QED  BY <1>7, <2>1, <2>2, <2>3
<1>8. ASSUME NEW s \in Slots, Answered(s) PROVE ProgressIsTracked'
  <2>. USE DEF Idle
  <2>1. CASE ListAnswered(s)      BY <2>1, ProgressUntouched DEF ListAnswered
  <2>2. CASE DetailAnswered(s)    BY <2>2, ProgressUntouched DEF DetailAnswered
  <2>3. CASE AttemptsAnswered(s)  BY <2>3, ProgressUntouched DEF AttemptsAnswered
  <2>4. CASE ProgressAnswered(s)
    BY <2>4 DEF ProgressAnswered, ProgressIsTracked, ReadsOrWritesProgress, Pending
  <2>5. CASE SubmitAnswered(s)
    BY <1>f, <2>5 DEF SubmitAnswered, ProgressIsTracked, ReadsOrWritesProgress, Pending
  <2>6. CASE SubmitFails(s)       BY <1>f, <2>6, ProgressUntouched DEF SubmitFails
  <2>7. CASE MarkAnswered(s)
    BY <1>f, <2>7 DEF MarkAnswered, ProgressIsTracked, ReadsOrWritesProgress, Pending
  <2>8. CASE MarkFails(s)
    BY <1>f, <2>8 DEF MarkFails, ProgressIsTracked, ReadsOrWritesProgress, Pending
  <2>. QED  BY <1>8, <2>1, <2>2, <2>3, <2>4, <2>5, <2>6, <2>7, <2>8 DEF Answered
<1>9. CASE UNCHANGED vars
  BY <1>9, ProgressUntouched DEF vars
<1>. QED  BY <1>1, <1>2, <1>3, <1>4, <1>5, <1>6, <1>7, <1>8, <1>9 DEF Next, Learner, Service

-------------------------------------------------------------------------------
(* The attempts of quizzes.                                                    *)

\* A step that neither sends, serves nor answers a call about attempts leaves them tracked.
LEMMA AttemptsUntouched ==
    ASSUME TypeOK, AttemptsAreTracked, UNCHANGED <<attempts, myAttempts, tab>>, raced \subseteq raced',
           \A s \in Slots :
              calls[s].kind \in {"attempts", "submit"} \/ calls'[s].kind \in {"attempts", "submit"}
                 => calls'[s] = calls[s]
    PROVE  AttemptsAreTracked'
  BY DEF AttemptsAreTracked, ReadsOrWritesAttempts, Pending

\* A quiz tab starts with one read of the attempts, and any submit under way races with it.
LEMMA StepAttempts ==
    ASSUME TypeOK, SelectionIsTracked, AttemptsAreTracked, [Next]_vars
    PROVE  AttemptsAreTracked'
<1>. USE DEF TypeOK, stored, library, Send, Free
<1>f. \A s \in Slots : /\ calls[s].kind = "submit" => calls[s].of \in Quizzes /\ calls[s].mounted \in BOOLEAN
                       /\ calls[s].kind \in {"submit", "attempts"} => calls[s].served \in BOOLEAN
  BY CallFields
<1>g. \A z \in Quizzes : attempts[z] \in Nat /\ myAttempts.count[z] \in Nat
  BY BoundsAssumption
<1>1. ASSUME NEW t \in Tabs, SelectTab(t) PROVE AttemptsAreTracked'
  <2>1. raced \subseteq raced' /\ attempts' = attempts /\ tab' = t /\ myAttempts'.phase = "loading"
    BY <1>1 DEF SelectTab, NoAttempts
  <2>2. CASE t = "quizzes"
    <3>1. \A s \in Pending("submit") : calls[s].of \in raced'
      BY <1>1, <2>2 DEF SelectTab, Pending, About
    <3>2. ASSUME NEW z \in Quizzes \ raced', NEW s \in Slots
          PROVE  ~ (calls'[s].kind = "submit" /\ calls'[s].of = z)
      BY <1>1, <3>1, <3>2, SelectTabCalls DEF Pending
    <3>3. \A s, u \in Slots : calls'[s].kind = "attempts" /\ calls'[u].kind = "attempts" => s = u
      BY <1>1, SelectTabCalls
    <3>4. \A s \in Slots : calls'[s].kind = "attempts" => ~ calls'[s].served
      BY <1>1, SelectTabCalls
    <3>. QED  BY <2>1, <3>2, <3>3, <3>4 DEF AttemptsAreTracked, ReadsOrWritesAttempts, Pending
  <2>3. CASE t # "quizzes"
    <3>1. \A s \in Slots : /\ calls'[s].kind # "attempts"
                           /\ calls'[s].kind = "submit" =>
                                 calls[s].kind = "submit" /\ calls'[s].of = calls[s].of
      BY <1>1, <2>3, SelectTabCalls
    <3>. QED  BY <2>1, <2>3, <3>1 DEF AttemptsAreTracked, ReadsOrWritesAttempts, Pending
  <2>. QED  BY <2>2, <2>3
<1>2. CASE SelectFilter
  BY <1>2, AttemptsUntouched DEF SelectFilter, Idle
<1>3. ASSUME NEW e \in Entries, Select(e) PROVE AttemptsAreTracked'
  BY <1>3, AttemptsUntouched DEF Select, Idle
<1>4. CASE Answering
  BY <1>4, AttemptsUntouched DEF Answering
<1>5. CASE Submit
  <2>1. PICK s \in Slots : calls[s] = Idle /\ calls' = [calls EXCEPT ![s] =
           [kind |-> "submit", served |-> FALSE, of |-> selected, questions |-> detail.of, mounted |-> TRUE]]
    BY <1>5 DEF Submit
  <2>2. raced' = raced \cup ({selected} \cap Concerned) /\ UNCHANGED <<attempts, myAttempts, tab>>
    BY <1>5 DEF Submit
  <2>3. /\ calls'[s].kind = "submit" /\ calls'[s].of = selected
        /\ calls'[s].served = FALSE /\ calls'[s].mounted = TRUE
        /\ \A u \in Slots \ {s} : calls'[u] = calls[u]
    BY <2>1
  <2>4. calls[s].kind = "idle"
    BY <2>1 DEF Idle
  <2>5. ASSUME NEW z \in Quizzes \ raced', z = selected, NEW u \in Slots
        PROVE  ~ ReadsOrWritesAttempts(calls[u], z)
    BY <2>2, <2>5, Unconcerned DEF Entries
  <2>. QED  BY <2>2, <2>3, <2>4, <2>5, SMTT(30) DEF AttemptsAreTracked, ReadsOrWritesAttempts, Pending
<1>6. ASSUME NEW e \in Entries, NEW mark \in {"in_progress", "completed"}, Mark(e, mark)
      PROVE  AttemptsAreTracked'
  <2>1. raced \subseteq raced' /\ UNCHANGED <<attempts, myAttempts, tab>>
    BY <1>6 DEF Mark
  <2>2. PICK s \in Slots : calls[s] = Idle /\ calls' = [calls EXCEPT ![s] =
           [kind |-> "mark", served |-> FALSE, of |-> e, status |-> mark, auto |-> FALSE,
            blind |-> ~ loaded]]
    BY <1>6 DEF Mark
  <2>3. \A u \in Slots :
           calls[u].kind \in {"attempts", "submit"} \/ calls'[u].kind \in {"attempts", "submit"}
              => calls'[u] = calls[u]
    BY <2>2 DEF Idle
  <2>. QED  BY <2>1, <2>3, AttemptsUntouched
<1>7. ASSUME NEW s \in Slots, ServeRead(s) \/ ServeSubmit(s) \/ ServeMark(s)
      PROVE  AttemptsAreTracked'
  <2>1. CASE ServeRead(s)
    BY <2>1 DEF ServeRead, AttemptsAreTracked, ReadsOrWritesAttempts, Pending
  <2>2. CASE ServeSubmit(s)
    BY <1>f, <1>g, <2>2 DEF ServeSubmit, AttemptsAreTracked, ReadsOrWritesAttempts, Pending
  <2>3. CASE ServeMark(s)
    BY <2>3, AttemptsUntouched DEF ServeMark
  <2>. QED  BY <1>7, <2>1, <2>2, <2>3
<1>8. ASSUME NEW s \in Slots, Answered(s) PROVE AttemptsAreTracked'
  <2>. USE DEF Idle
  <2>1. CASE ListAnswered(s)      BY <2>1, AttemptsUntouched DEF ListAnswered
  <2>2. CASE DetailAnswered(s)    BY <2>2, AttemptsUntouched DEF DetailAnswered
  <2>3. CASE AttemptsAnswered(s)
    BY <1>f, <2>3 DEF AttemptsAnswered, AttemptsAreTracked, ReadsOrWritesAttempts, Pending, NoAttempts
  <2>4. CASE ProgressAnswered(s)  BY <2>4, AttemptsUntouched DEF ProgressAnswered
  <2>5. CASE SubmitAnswered(s)
    BY <1>f, <1>g, <2>5 DEF SubmitAnswered, AttemptsAreTracked, ReadsOrWritesAttempts, Pending
  <2>6. CASE SubmitFails(s)
    BY <1>f, <2>6 DEF SubmitFails, AttemptsAreTracked, ReadsOrWritesAttempts, Pending
  <2>7. CASE MarkAnswered(s)      BY <2>7, AttemptsUntouched DEF MarkAnswered
  <2>8. CASE MarkFails(s)         BY <2>8, AttemptsUntouched DEF MarkFails
  <2>. QED  BY <1>8, <2>1, <2>2, <2>3, <2>4, <2>5, <2>6, <2>7, <2>8 DEF Answered
<1>9. CASE UNCHANGED vars
  BY <1>9, AttemptsUntouched DEF vars
<1>. QED  BY <1>1, <1>2, <1>3, <1>4, <1>5, <1>6, <1>7, <1>8, <1>9 DEF Next, Learner, Service

-------------------------------------------------------------------------------
(* Results.                                                                    *)

\* Where no call is about an entry, what is tracked of it is what the screen shows.
LEMMA TrackedIsTruth ==
    ASSUME TypeOK, SelectionShown, ProgressIsTracked, AttemptsAreTracked
    PROVE  ScreenTellsTruth
<1>1. ASSUME NEW e \in Entries \ raced, e \notin Concerned, loaded
      PROVE  progressMap[e] = progress[e]
  <2>1. ~ \E s \in Pending("mark") : calls[s].of = e /\ calls[s].served
    BY <1>1, Unconcerned DEF ReadsOrWritesProgress, Pending
  <2>. QED  BY <1>1, <2>1 DEF ProgressIsTracked
<1>2. ASSUME NEW e \in Entries \ raced, e \notin Concerned, tab = "quizzes", e \in Quizzes,
             myAttempts.phase = "loaded"
      PROVE  myAttempts.count[e] = attempts[e]
  <2>1. ~ \E s \in Pending("submit") : calls[s].of = e /\ calls[s].served
    BY <1>2, Unconcerned DEF ReadsOrWritesAttempts, Pending
  <2>. QED  BY <1>2, <2>1 DEF AttemptsAreTracked
<1>. QED  BY <1>1, <1>2 DEF ScreenTellsTruth, SelectionShown

\* Every step keeps the invariant.
LEMMA StepCenter == CenterIInv /\ [Next]_vars => CenterIInv'
<1>1. TypeOK /\ SelectionShown /\ ProgressIsTracked /\ AttemptsAreTracked => ScreenTellsTruth
  BY TrackedIsTruth
<1>2. ASSUME CenterIInv, [Next]_vars
      PROVE  /\ TypeOK' /\ CompletionFollowsAttempt' /\ ServedIsStored' /\ WaitsForAnAnswer'
             /\ SelectionIsTracked' /\ SelectionShown' /\ ProgressIsTracked' /\ AttemptsAreTracked'
  <2>1. /\ TypeOK /\ CompletionFollowsAttempt /\ ServedIsStored /\ WaitsForAnAnswer
        /\ SelectionIsTracked /\ ProgressIsTracked /\ AttemptsAreTracked /\ SelectionShown
    BY <1>2 DEF CenterIInv, CenterInv, ScreenTellsTruth, SelectionShown
  <2>2. TypeOK' /\ CompletionFollowsAttempt' /\ ServedIsStored' /\ WaitsForAnAnswer'
    BY <1>2, <2>1, StepType, StepStored, StepWaits
  <2>3. SelectionIsTracked' /\ SelectionShown'
    BY <1>2, <2>1, StepSelection
  <2>4. ProgressIsTracked' /\ AttemptsAreTracked'
    BY <1>2, <2>1, StepProgress, StepAttempts
  <2>. QED  BY <2>2, <2>3, <2>4
<1>3. CenterIInv /\ [Next]_vars => ScreenTellsTruth'
  BY <1>1, <1>2, PTL
<1>. QED  BY <1>2, <1>3 DEF CenterIInv, CenterInv

\* The inductive invariant holds of every state.
THEOREM CenterIInvariance == Spec => []CenterIInv
  BY CenterInitially, StepCenter, PTL DEF Spec

\* Whatever overlaps and fails, nothing on the screen waits for a call that is not there, and
\* no quiz is marked complete on its own that no attempt was stored of.
THEOREM CenterInvariance == Spec => []CenterInv
<1>1. CenterIInv => CenterInv
  BY DEF CenterIInv
<1>. QED  BY <1>1, CenterIInvariance, PTL

\* Detail, score, progress and attempts on the screen are those of the selection and those
\* stored, of every entry that no two calls were about at once.
THEOREM ScreenIsTrue == Spec => []ScreenTellsTruth
<1>1. CenterIInv => ScreenTellsTruth
  BY DEF CenterIInv
<1>. QED  BY <1>1, CenterIInvariance, PTL

\* A completed entry is taken back only by a mark sent with no list of progress on the screen,
\* or one that overlapped another call about the entry.
THEOREM CompletedStaysComplete == Spec => UncompletedOnlyBlind
<1>1. ASSUME CenterIInv, [Next]_vars, NEW e \in Entries, progress[e] = "completed",
             progress'[e] # "completed", e \notin raced
      PROVE  \E s \in Pending("mark") : calls[s].of = e /\ calls[s].blind
  <2>1. PICK s \in Slots : ServeMark(s)
    BY <1>1 DEF Next, Learner, Service, Answered, vars, stored, SelectTab, SelectFilter, Select,
                Answering, Submit, Mark, ServeRead, ServeSubmit, ListAnswered, DetailAnswered,
                AttemptsAnswered, ProgressAnswered, SubmitAnswered, SubmitFails, MarkAnswered,
                MarkFails
  <2>2. TypeOK /\ ProgressIsTracked
    BY <1>1 DEF CenterIInv, CenterInv
  <2>3. s \in Pending("mark") /\ ~ calls[s].served /\ calls[s].of = e /\ calls[s].status # "completed"
    BY <1>1, <2>1, <2>2 DEF ServeMark, Pending, TypeOK
  <2>4. calls[s].status \in Statuses \ {"none"} /\ calls[s].blind \in BOOLEAN
    BY <2>2, <2>3, CallFields DEF TypeOK, Pending
  <2>5. calls[s].status = "in_progress"
    BY <2>3, <2>4 DEF Statuses
  <2>6. calls[s].blind
    BY <1>1, <2>2, <2>3, <2>4, <2>5 DEF ProgressIsTracked
  <2>. QED  BY <2>3, <2>6
<1>. DEFINE Blind == \A e \in Entries :
                        progress[e] = "completed" /\ progress'[e] # "completed" =>
                           \/ e \in raced
                           \/ \E s \in Pending("mark") : calls[s].of = e /\ calls[s].blind
<1>2. CenterIInv /\ [Next]_vars => Blind
  <2>. SUFFICES ASSUME CenterIInv, [Next]_vars PROVE Blind
    OBVIOUS
  <2>. QED  BY <1>1
<1>3. CenterIInv /\ [Next]_vars => [Blind]_vars
  <2>. HIDE DEF Blind
  <2>. QED  BY <1>2
<1>. QED  BY <1>3, CenterIInvariance, PTL DEF Spec, UncompletedOnlyBlind

-------------------------------------------------------------------------------
(*                     The order form and the journal page                     *)
-------------------------------------------------------------------------------

(* Shares and positions.                                                       *)

\* A share is one of those of a fill of the side.
LEMMA ShareMembers ==
    ASSUME NEW of, NEW side, NEW p
    PROVE  p \in Shares(of, side) <=>
              \E x \in DOMAIN of : /\ fills[of[x]].side = side
                                   /\ \E n \in 1..fills[of[x]].quantity : p = <<x, n>>
<1>1. p \in Shares(of, side) <=>
         \E x \in {y \in DOMAIN of : fills[of[y]].side = side} : p \in {x} \X (1..fills[of[x]].quantity)
  BY Zenon DEF Shares
<1>2. \A x : p \in {x} \X (1..fills[of[x]].quantity) <=> \E n \in 1..fills[of[x]].quantity : p = <<x, n>>
  OBVIOUS
<1>. QED  BY <1>1, <1>2, Zenon

\* The first n numbers are finitely many.
LEMMA CountIsFinite == \A n \in Nat : IsFiniteSet(1..n)
  BY FS_Interval

\* The shares of finitely many fills can be counted.
LEMMA BalanceType ==
    ASSUME NEW of, IsFiniteSet(DOMAIN of), \A x \in DOMAIN of : fills[of[x]].quantity \in Nat
    PROVE  /\ \A side \in Sides : IsFiniteSet(Shares(of, side))
           /\ Balance(of) \in Int
<1>1. ASSUME NEW side \in Sides PROVE IsFiniteSet(Shares(of, side))
  <2>. DEFINE ours == {y \in DOMAIN of : fills[of[y]].side = side}
              lots == {{x} \X (1..fills[of[x]].quantity) : x \in ours}
              lot  == [x \in ours |-> {x} \X (1..fills[of[x]].quantity)]
  <2>1. IsFiniteSet(ours)
    BY FS_Subset
  <2>2. lot \in Surjection(ours, lots)
    BY DEF Surjection
  <2>3. IsFiniteSet(lots)
    BY <2>1, <2>2, FS_Surjection
  <2>4. ASSUME NEW x \in ours PROVE IsFiniteSet({x} \X (1..fills[of[x]].quantity))
    <3>1. IsFiniteSet({x})
      BY FS_Singleton, Zenon
    <3>2. fills[of[x]].quantity \in Nat
      OBVIOUS
    <3>3. IsFiniteSet(1..fills[of[x]].quantity)
      BY <3>2, CountIsFinite, Zenon
    <3>. QED  BY <3>1, <3>3, FS_Product
  <2>5. \A lot_ \in lots : IsFiniteSet(lot_)
    BY <2>4
  <2>6. IsFiniteSet(UNION lots)
    BY <2>3, <2>5, FS_UNION
  <2>. QED  BY <2>6 DEF Shares
<1>2. Cardinality(Shares(of, "buy")) \in Nat /\ Cardinality(Shares(of, "sell")) \in Nat
  BY <1>1, FS_CardinalityType DEF Sides
<1>. QED  BY <1>1, <1>2 DEF Balance

\* A balance does not depend on what its fills are listed by.
LEMMA BalanceRenamed ==
    ASSUME NEW f, NEW g, NEW h \in Bijection(DOMAIN f, DOMAIN g), \A x \in DOMAIN f : g[h[x]] = f[x],
           IsFiniteSet(DOMAIN f), \A x \in DOMAIN f : fills[f[x]].quantity \in Nat
    PROVE  Balance(f) = Balance(g)
<1>1. ASSUME NEW side \in Sides
      PROVE  Cardinality(Shares(f, side)) = Cardinality(Shares(g, side))
  <2>. DEFINE m == [p \in Shares(f, side) |-> <<h[p[1]], p[2]>>]
  <2>1. \A p : p \in Shares(f, side) <=>
           \E x \in DOMAIN f : /\ fills[f[x]].side = side
                               /\ \E n \in 1..fills[f[x]].quantity : p = <<x, n>>
    BY ShareMembers
  <2>2. \A p : p \in Shares(g, side) <=>
           \E x \in DOMAIN g : /\ fills[g[x]].side = side
                               /\ \E n \in 1..fills[g[x]].quantity : p = <<x, n>>
    BY ShareMembers
  <2>3. /\ \A x \in DOMAIN f : h[x] \in DOMAIN g
        /\ \A x, y \in DOMAIN f : h[x] = h[y] => x = y
        /\ \A y \in DOMAIN g : \E x \in DOMAIN f : h[x] = y
    BY DEF Bijection, Injection, Surjection, IsInjective
  <2>4. ASSUME NEW p \in Shares(f, side) PROVE <<h[p[1]], p[2]>> \in Shares(g, side)
    <3>1. PICK x \in DOMAIN f : /\ fills[f[x]].side = side
                                /\ \E n \in 1..fills[f[x]].quantity : p = <<x, n>>
      BY <2>1
    <3>2. PICK n \in 1..fills[f[x]].quantity : p = <<x, n>>
      BY <3>1
    <3>3. g[h[x]] = f[x] /\ h[x] \in DOMAIN g /\ <<h[p[1]], p[2]>> = <<h[x], n>>
      BY <2>3, <3>2
    <3>. QED  BY <2>2, <3>1, <3>2, <3>3
  <2>5. \A p, q \in Shares(f, side) : m[p] = m[q] => p = q
    BY <2>1, <2>3
  <2>6. ASSUME NEW q \in Shares(g, side) PROVE \E p \in Shares(f, side) : m[p] = q
    <3>1. PICK y \in DOMAIN g : /\ fills[g[y]].side = side
                                /\ \E n \in 1..fills[g[y]].quantity : q = <<y, n>>
      BY <2>2
    <3>2. PICK n \in 1..fills[g[y]].quantity : q = <<y, n>>
      BY <3>1
    <3>3. PICK x \in DOMAIN f : h[x] = y
      BY <2>3
    <3>4. f[x] = g[y]
      BY <3>3
    <3>5. <<x, n>> \in Shares(f, side)
      BY <2>1, <3>1, <3>2, <3>4
    <3>. QED  BY <3>2, <3>3, <3>5
  <2>7. ExistsBijection(Shares(f, side), Shares(g, side))
    <3>1. m \in [Shares(f, side) -> Shares(g, side)]
      BY <2>4
    <3>. HIDE DEF m
    <3>2. m \in Bijection(Shares(f, side), Shares(g, side))
      BY <2>5, <2>6, <3>1 DEF Bijection, Injection, Surjection, IsInjective
    <3>. QED  BY <3>2 DEF ExistsBijection
  <2>8. IsFiniteSet(Shares(f, side))
    BY BalanceType
  <2>. QED  BY <2>7, <2>8, FS_Bijection
<1>. QED  BY <1>1 DEF Balance, Sides

\* Every reachable table has finitely many rows.
TablesAreFinite == IsFiniteSet(DOMAIN entries) /\ IsFiniteSet(DOMAIN fills)

\* The position is a number of shares.
LEMMA PositionType ==
    ASSUME FormTypeOK, SavesFollowFills, TablesAreFinite
    PROVE  Net \in Int /\ PositionQuantity \in Nat
<1>. DEFINE of == [id \in OpenEntries |-> entries[id].order]
<1>1. IsFiniteSet(OpenEntries)
  BY FS_Subset DEF TablesAreFinite, OpenEntries
<1>2. ASSUME NEW id \in OpenEntries PROVE fills[of[id]].quantity \in Nat
  <2>1. entries[id].order \in DOMAIN fills
    BY DEF SavesFollowFills, FormTypeOK, OpenEntries, IsTable
  <2>. QED  BY <2>1, QuantitiesAssumption DEF FormTypeOK, IsTable
<1>. HIDE DEF of
<1>3. Balance(of) \in Int
  BY <1>1, <1>2, BalanceType DEF of
<1>. QED  BY <1>3 DEF Net, PositionQuantity, of

-------------------------------------------------------------------------------
(* Types.                                                                      *)

\* The calls of handleSubmit that were made, and all of them.
Made == [pc : {"check", "answer", "place", "done"}, side : Sides, quantity : Quantities, owned : Nat]
Placings == [Orders -> {NoSubmit} \cup Made]

\* What a call of handleSubmit holds once it was made.
LEMMA PlacingFields ==
    ASSUME FormTypeOK, NEW o \in Orders, placing[o].pc # "idle"
    PROVE  /\ placing[o] \in Made
           /\ placing[o].side \in Sides /\ placing[o].quantity \in Quantities
           /\ placing[o].quantity \in Nat /\ placing[o].owned \in Nat
<1>1. placing[o] \in {NoSubmit} \cup Made
  BY DEF FormTypeOK, Made
<1>2. placing[o] \in Made
  BY <1>1 DEF NoSubmit
<1>. QED  BY <1>2, QuantitiesAssumption DEF Made

\* What a step of the journal page does to the entries: outcomes of open ones are recorded.
LEMMA PageKeepsEntries ==
    ASSUME FormTypeOK, PageStep \/ \E id \in EntryIds : CloseTrade(id)
    PROVE  /\ IsTable(entries', EntryIds, [order : Orders, status : {"open", "closed"}])
           /\ DOMAIN entries' = DOMAIN entries
           /\ \A id \in DOMAIN entries :
                 /\ entries'[id].order = entries[id].order
                 /\ entries[id].status = "closed" => entries'[id].status = "closed"
<1>. USE DEF FormTypeOK, IsTable
<1>1. ASSUME NEW id \in EntryIds, entries' = [entries EXCEPT ![id].status = "closed"]
      PROVE  /\ IsTable(entries', EntryIds, [order : Orders, status : {"open", "closed"}])
             /\ DOMAIN entries' = DOMAIN entries
             /\ \A i \in DOMAIN entries :
                   /\ entries'[i].order = entries[i].order
                   /\ entries[i].status = "closed" => entries'[i].status = "closed"
  <2>1. \A i \in DOMAIN entries : entries[i] \in [order : Orders, status : {"open", "closed"}]
    OBVIOUS
  <2>2. /\ DOMAIN entries' = DOMAIN entries
        /\ \A i \in DOMAIN entries :
              entries'[i] = IF i = id THEN [entries[i] EXCEPT !.status = "closed"] ELSE entries[i]
        /\ entries' = [i \in DOMAIN entries |-> entries'[i]]
    BY <1>1
  <2>3. \A i \in DOMAIN entries : entries'[i] \in [order : Orders, status : {"open", "closed"}]
    BY <2>1, <2>2
  <2>4. entries' \in [DOMAIN entries -> [order : Orders, status : {"open", "closed"}]]
    BY <2>2, <2>3
  <2>. QED  BY <2>1, <2>2, <2>4
<1>2. ASSUME NEW id \in EntryIds, CloseTrade(id)
      PROVE  entries' = [entries EXCEPT ![id].status = "closed"]
  BY <1>2 DEF CloseTrade
<1>3. ASSUME NEW id \in EntryIds, ServeOutcome(id)
      PROVE  entries' = entries \/ entries' = [entries EXCEPT ![id].status = "closed"]
  BY <1>3 DEF ServeOutcome
<1>4. ASSUME PageStep, ~ \E id \in EntryIds : ServeOutcome(id) PROVE entries' = entries
  BY <1>4 DEF PageStep, Mount, ServeLoad, LoadAnswered, ToggleOutcomeForm, SubmitOutcome,
              OutcomeRecorded, OutcomeFails
<1>. QED  BY <1>1, <1>2, <1>3, <1>4

\* A call of handleSubmit goes on, with the position it was answered.
LEMMA PlacingGoesOn ==
    ASSUME FormTypeOK, NEW o \in Orders, placing[o].pc # "idle"
    PROVE  /\ [placing EXCEPT ![o].pc = "done"] \in Placings
           /\ [placing EXCEPT ![o].pc = "place"] \in Placings
           /\ \A owned \in Nat : [placing EXCEPT ![o].pc = "answer", ![o].owned = owned] \in Placings
<1>1. placing \in Placings /\ placing[o] \in Made
  BY PlacingFields DEF FormTypeOK, Placings, Made
<1>2. /\ [placing[o] EXCEPT !.pc = "done"] \in Made
      /\ [placing[o] EXCEPT !.pc = "place"] \in Made
      /\ [placing[o] EXCEPT !.pc = "answer"] \in Made
  BY <1>1 DEF Made
<1>3. \A owned \in Nat : [[placing[o] EXCEPT !.pc = "answer"] EXCEPT !.owned = owned] \in Made
  BY <1>2 DEF Made
<1>. QED  BY <1>1, <1>2, <1>3 DEF Placings

\* What the page keeps has its type.
LEMMA StepPageType ==
    ASSUME FormTypeOK, PageStep
    PROVE  PageTypeOK'
<1>. USE DEF FormTypeOK, PageTypeOK, EntryStatuses
<1>1. ASSUME NEW known \in SUBSET EntryIds, Load(known)
      PROVE  /\ page'.phase = "loading" /\ IsTable(page'.rows, EntryIds, EntryStatuses)
             /\ DOMAIN loads' = Loads /\ doubtful' \subseteq EntryIds
             /\ \A l \in Loads : /\ loads'[l].at \in {"none", "sent", "served"}
                                 /\ loads'[l].at = "served" =>
                                       IsTable(loads'[l].rows, EntryIds, EntryStatuses)
  BY <1>1, EmptyTableType DEF Load
<1>2. CASE Mount
  BY <1>1, <1>2 DEF Mount
<1>3. ASSUME NEW l \in Loads, ServeLoad(l) PROVE PageTypeOK'
  <2>1. IsTable(StatusOf(entries), EntryIds, EntryStatuses)
    BY DEF IsTable, StatusOf
  <2>. QED  BY <1>3, <2>1 DEF ServeLoad
<1>4. ASSUME NEW l \in Loads, LoadAnswered(l) PROVE PageTypeOK'
  <2>1. page'.phase \in {"loaded", "error"} /\ IsTable(page'.rows, EntryIds, EntryStatuses)
    BY <1>4, EmptyTableType DEF LoadAnswered
  <2>. QED  BY <1>4, <2>1 DEF LoadAnswered, NoLoad
<1>5. ASSUME NEW id \in EntryIds, ToggleOutcomeForm(id) PROVE PageTypeOK'
  BY <1>5 DEF ToggleOutcomeForm
<1>6. ASSUME NEW id \in EntryIds, SubmitOutcome(id) PROVE PageTypeOK'
  BY <1>6, MaxSubmitsAssumption DEF SubmitOutcome
<1>7. ASSUME NEW id \in EntryIds, ServeOutcome(id) PROVE PageTypeOK'
  BY <1>7 DEF ServeOutcome
<1>8. ASSUME NEW id \in EntryIds, OutcomeRecorded(id) PROVE PageTypeOK'
  <2>1. Load(doubtful)
    BY <1>8 DEF OutcomeRecorded
  <2>. QED  BY <1>1, <1>8, <2>1 DEF OutcomeRecorded
<1>9. ASSUME NEW id \in EntryIds, OutcomeFails(id) PROVE PageTypeOK'
  BY <1>9 DEF OutcomeFails
<1>. QED  BY <1>2, <1>3, <1>4, <1>5, <1>6, <1>7, <1>8, <1>9 DEF PageStep

\* Every step keeps the types.
LEMMA StepFormType ==
    ASSUME FormTypeOK, SavesFollowFills, TablesAreFinite, [FormNext]_formVars
    PROVE  FormTypeOK'
<1>. USE DEF Show
<1>0. UNCHANGED pageVars => PageTypeOK'
  BY DEF FormTypeOK, PageTypeOK, pageVars
<1>1. ASSUME NEW o \in Orders, HandleSubmit(o) PROVE FormTypeOK'
  <2>1. placing' \in Placings
    BY <1>1 DEF HandleSubmit, FormTypeOK, Placings, Made
  <2>. QED  BY <1>0, <1>1, <2>1 DEF HandleSubmit, FormTypeOK, Placings, Made, Submitting, Saving
<1>2. ASSUME NEW o \in Orders, ReadPosition(o) PROVE FormTypeOK'
  <2>1. placing' \in Placings
    <3>1. placing[o].pc # "idle" /\ PositionQuantity \in Nat
      BY <1>2, PositionType DEF ReadPosition
    <3>. QED  BY <1>2, <3>1, PlacingGoesOn DEF ReadPosition, Refuse
  <2>. QED  BY <1>0, <1>2, <2>1 DEF ReadPosition, Refuse, FormTypeOK, Placings, Made
<1>3. ASSUME NEW o \in Orders, CheckPosition(o) PROVE FormTypeOK'
  <2>1. placing' \in Placings
    <3>1. placing[o].pc # "idle"
      BY <1>3 DEF CheckPosition
    <3>. QED  BY <1>3, <3>1, PlacingGoesOn DEF CheckPosition, Refuse
  <2>. QED  BY <1>0, <1>3, <2>1 DEF CheckPosition, Refuse, FormTypeOK, Placings, Made
<1>4. ASSUME NEW o \in Orders, PlaceOrder(o) PROVE FormTypeOK'
  <2>1. placing' \in Placings
    <3>1. placing[o].pc # "idle"
      BY <1>4 DEF PlaceOrder
    <3>. QED  BY <1>4, <3>1, PlacingGoesOn DEF PlaceOrder, Refuse
  <2>2. CASE fills' = fills /\ Refuse(o)
    BY <1>0, <1>4, <2>1, <2>2 DEF PlaceOrder, Refuse, FormTypeOK, Placings, Made
  <2>3. CASE /\ fills' = Put(fills, o, [side |-> placing[o].side, quantity |-> placing[o].quantity])
             /\ Show("result", o)
    <3>1. [side |-> placing[o].side, quantity |-> placing[o].quantity]
             \in [side : Sides, quantity : Quantities]
      BY <1>4, PlacingFields DEF PlaceOrder
    <3>2. IsTable(fills', Orders, [side : Sides, quantity : Quantities])
      BY <2>3, <3>1, PutType DEF FormTypeOK
    <3>3. shown'.fill \in DOMAIN fills'
      <4>1. shown'.fill = o
        BY <2>3
      <4>2. DOMAIN fills' = DOMAIN fills \cup {o}
        BY <2>3, PutRows, Zenon
      <4>. QED  BY <4>1, <4>2
    <3>. QED  BY <1>0, <1>4, <2>1, <2>3, <3>2, <3>3 DEF PlaceOrder, FormTypeOK, Placings, Made
  <2>. QED  BY <1>4, <2>2, <2>3 DEF PlaceOrder
<1>5. CASE ClickSave
  BY <1>0, <1>5 DEF ClickSave, FormTypeOK, Submitting, Saving
<1>6. ASSUME NEW o \in Orders, CreateEntry(o) PROVE FormTypeOK'
  <2>1. CASE UNCHANGED <<entries, pageVars>>
    BY <1>0, <1>6, <2>1 DEF CreateEntry, FormTypeOK
  <2>2. CASE \E id \in EntryIds \ DOMAIN entries :
                /\ entries' = Put(entries, id, [order |-> o, status |-> "open"])
                /\ Elsewhere(id)
    <3>1. PICK id \in EntryIds \ DOMAIN entries :
             /\ entries' = Put(entries, id, [order |-> o, status |-> "open"])
             /\ Elsewhere(id)
      BY <2>2
    <3>2. IsTable(entries', EntryIds, [order : Orders, status : {"open", "closed"}])
      BY <3>1, PutType DEF FormTypeOK
    <3>3. PageTypeOK'
      BY <3>1 DEF Elsewhere, FormTypeOK, PageTypeOK
    <3>. QED  BY <1>6, <3>2, <3>3 DEF CreateEntry, FormTypeOK
  <2>. QED  BY <1>6, <2>1, <2>2 DEF CreateEntry
<1>7. ASSUME NEW o \in Orders, SaveAnswered(o) PROVE FormTypeOK'
  BY <1>0, <1>7 DEF SaveAnswered, FormTypeOK
<1>8. CASE JournalPage
  <2>1. PageTypeOK'
    BY <1>8, StepPageType DEF JournalPage
  <2>2. IsTable(entries', EntryIds, [order : Orders, status : {"open", "closed"}])
    BY <1>8, PageKeepsEntries DEF JournalPage
  <2>3. overlap' \in BOOLEAN
    BY <1>8 DEF JournalPage, FormTypeOK
  <2>. QED  BY <1>8, <2>1, <2>2, <2>3 DEF JournalPage, FormTypeOK
<1>9. ASSUME NEW id \in EntryIds, CloseTrade(id) PROVE FormTypeOK'
  <2>1. PageTypeOK'
    BY <1>9 DEF CloseTrade, Elsewhere, FormTypeOK, PageTypeOK
  <2>2. IsTable(entries', EntryIds, [order : Orders, status : {"open", "closed"}])
    BY <1>9, PageKeepsEntries
  <2>3. overlap' \in BOOLEAN
    BY <1>9 DEF CloseTrade, FormTypeOK
  <2>. QED  BY <1>9, <2>1, <2>2, <2>3 DEF CloseTrade, FormTypeOK
<1>10. CASE UNCHANGED formVars
  BY <1>0, <1>10 DEF formVars, handlerVars, FormTypeOK
<1>. QED  BY <1>1, <1>2, <1>3, <1>4, <1>5, <1>6, <1>7, <1>8, <1>9, <1>10 DEF FormNext, Proceed

-------------------------------------------------------------------------------
(* The journal page.                                                           *)

\* The list shown, and those on their way, are of entries as they were.
PageTellsTruth ==
    /\ PageWaits /\ ListsLagBehind
    /\ page.phase = "loaded" => Lists(page.rows)

\* Entries are never removed, and closed for good.
LEMMA ListsStay ==
    ASSUME NEW rows, Lists(rows), DOMAIN entries \subseteq DOMAIN entries',
           \A id \in DOMAIN entries : entries[id].status = "closed" => entries'[id].status = "closed"
    PROVE  Lists(rows)'
  BY DEF Lists

\* A list that is asked for starts over, over one that is on its way.
LEMMA PageLoads ==
    ASSUME FormTypeOK, PageTellsTruth, NEW known \in SUBSET EntryIds, Load(known), UNCHANGED entries,
           \A id \in EntryIds : posts'[id] # posts[id] => posts[id] = "ok",
           known = doubtful \/ (InFlight = {} /\ known = {})
    PROVE  /\ page'.phase = "loading" /\ InFlight' # {}
           /\ \A l \in Loads :
                 loads'[l].at = "served" => doubtful' = EntryIds /\ Lists(loads'[l].rows)
<1>1. PICK l \in Loads \ InFlight : loads' = [loads EXCEPT ![l] = [at |-> "sent"]]
  BY DEF Load
<1>2. loads'[l].at = "sent" /\ \A m \in Loads \ {l} : loads'[m] = loads[m]
  BY <1>1 DEF FormTypeOK, PageTypeOK
<1>3. ASSUME NEW m \in Loads, loads'[m].at = "served"
      PROVE  doubtful' = EntryIds /\ Lists(loads'[m].rows)
  <2>1. m # l /\ loads[m].at = "served" /\ loads'[m] = loads[m]
    BY <1>2, <1>3
  <2>2. m \in InFlight
    BY <2>1 DEF InFlight
  <2>. QED  BY <2>1, <2>2 DEF Load, PageTellsTruth, ListsLagBehind, Lists
<1>. QED  BY <1>2, <1>3 DEF Load, InFlight

\* A step of the page leaves it telling the truth.
LEMMA StepPage ==
    ASSUME FormTypeOK, PageTellsTruth, PageStep
    PROVE  PageTellsTruth'
<1>. USE DEF PageTellsTruth, PageWaits, ListsLagBehind
<1>t. /\ DOMAIN entries \subseteq EntryIds /\ doubtful \subseteq EntryIds /\ DOMAIN loads = Loads
      /\ posts \in [EntryIds -> {"none", "sent", "ok", "conflict"}]
      /\ outcome \in [EntryIds -> {"idle", "saving", "error"}]
      /\ page.phase \in {"unmounted", "loading", "loaded", "error"}
      /\ \A l \in Loads : loads[l].at \in {"none", "sent", "served"}
  BY DEF FormTypeOK, PageTypeOK, IsTable
<1>k. /\ DOMAIN entries' = DOMAIN entries
      /\ \A id \in DOMAIN entries : entries[id].status = "closed" => entries'[id].status = "closed"
  BY PageKeepsEntries
<1>2. CASE Mount
  <2>1. Load({}) /\ UNCHANGED <<entries, posts, outcome>> /\ InFlight = {}
    BY <1>2 DEF Mount
  <2>2. /\ page'.phase = "loading" /\ InFlight' # {}
        /\ \A l \in Loads : loads'[l].at = "served" => doubtful' = EntryIds /\ Lists(loads'[l].rows)
    BY <2>1, PageLoads
  <2>. QED  BY <1>t, <2>1, <2>2 DEF Lists
<1>3. ASSUME NEW l \in Loads, ServeLoad(l) PROVE PageTellsTruth'
  <2>1. /\ UNCHANGED <<entries, page, posts, outcome, doubtful>>
        /\ loads'[l].at = "served" /\ loads'[l].rows = StatusOf(entries) /\ loads[l].at = "sent"
        /\ \A m \in Loads \ {l} : loads'[m] = loads[m]
    BY <1>3, <1>t DEF ServeLoad
  <2>2. /\ DOMAIN StatusOf(entries) = DOMAIN entries
        /\ \A id \in DOMAIN entries : StatusOf(entries)[id] = entries[id].status
    BY DEF StatusOf
  <2>3. InFlight' = InFlight
    BY <2>1 DEF InFlight
  <2>. QED  BY <2>1, <2>2, <2>3 DEF Lists
<1>4. ASSUME NEW l \in Loads, LoadAnswered(l) PROVE PageTellsTruth'
  <2>1. /\ UNCHANGED <<entries, posts, outcome, doubtful>>
        /\ loads'[l].at = "none" /\ l \in InFlight
        /\ \A m \in Loads \ {l} : loads'[m] = loads[m]
        /\ page'.phase = "loaded" => loads[l].at = "served" /\ page'.rows = loads[l].rows
        /\ page'.phase \in {"loaded", "error"}
    BY <1>4, <1>t DEF LoadAnswered, NoLoad, InFlight
  <2>. QED  BY <2>1 DEF Lists
<1>5. ASSUME NEW id \in EntryIds, ToggleOutcomeForm(id) PROVE PageTellsTruth'
  BY <1>5 DEF ToggleOutcomeForm, Lists, InFlight
<1>6. ASSUME NEW id \in EntryIds, SubmitOutcome(id) PROVE PageTellsTruth'
  <2>1. posts[id] = "none"
    BY <1>6, <1>t DEF SubmitOutcome
  <2>. QED  BY <1>6, <1>t, <2>1 DEF SubmitOutcome, Lists, InFlight
<1>7. ASSUME NEW id \in EntryIds, ServeOutcome(id) PROVE PageTellsTruth'
  <2>1. UNCHANGED <<page, outcome, loads, doubtful>> /\ posts[id] = "sent"
    BY <1>7 DEF ServeOutcome
  <2>2. /\ posts'[id] \in {"ok", "conflict"} /\ \A i \in EntryIds \ {id} : posts'[i] = posts[i]
        /\ \A i \in DOMAIN entries : i # id \/ posts'[i] # "ok" => entries'[i].status = entries[i].status
    BY <1>7, <1>t DEF ServeOutcome
  <2>3. \A rows : Lists(rows) => Lists(rows)'
    BY <1>k, ListsStay
  <2>4. PageWaits'
    BY <1>t, <2>1, <2>2 DEF InFlight
  <2>5. \A i \in DOMAIN entries' \ doubtful' : posts'[i] # "ok" =>
           /\ i \in DOMAIN entries \ doubtful /\ posts[i] # "ok"
           /\ entries'[i].status = entries[i].status
    BY <1>k, <1>t, <2>1, <2>2
  <2>. QED  BY <2>1, <2>3, <2>4, <2>5 DEF InFlight
<1>8. ASSUME NEW id \in EntryIds, OutcomeRecorded(id) PROVE PageTellsTruth'
  <2>1. /\ Load(doubtful) /\ UNCHANGED entries /\ posts[id] = "ok"
        /\ posts' = [posts EXCEPT ![id] = "none"] /\ outcome' = [outcome EXCEPT ![id] = "idle"]
    BY <1>8 DEF OutcomeRecorded
  <2>2. /\ page'.phase = "loading" /\ InFlight' # {}
        /\ \A l \in Loads : loads'[l].at = "served" => doubtful' = EntryIds /\ Lists(loads'[l].rows)
    BY <1>t, <2>1, PageLoads
  <2>. QED  BY <1>t, <2>1, <2>2 DEF Lists
<1>9. ASSUME NEW id \in EntryIds, OutcomeFails(id) PROVE PageTellsTruth'
  <2>1. /\ UNCHANGED <<entries, page, loads>>
        /\ posts' = [posts EXCEPT ![id] = "none"] /\ outcome' = [outcome EXCEPT ![id] = "error"]
        /\ doubtful' = IF posts[id] = "ok" THEN doubtful \cup {id} ELSE doubtful
    BY <1>9 DEF OutcomeFails
  <2>2. \A i \in DOMAIN entries \ doubtful' :
           i \in DOMAIN entries \ doubtful /\ (posts[i] = "ok" => posts'[i] = "ok")
    BY <1>t, <2>1
  <2>. QED  BY <1>t, <2>1, <2>2 DEF Lists, InFlight
<1>. QED  BY <1>2, <1>3, <1>4, <1>5, <1>6, <1>7, <1>8, <1>9 DEF PageStep

\* So does somebody else who creates or closes an entry.
LEMMA StepElsewhere ==
    ASSUME FormTypeOK, PageTellsTruth, NEW id \in EntryIds, Elsewhere(id),
           DOMAIN entries \subseteq DOMAIN entries', DOMAIN entries' \subseteq DOMAIN entries \cup {id},
           \A i \in DOMAIN entries : /\ i # id => entries'[i].status = entries[i].status
                                     /\ entries[i].status = "closed" => entries'[i].status = "closed"
    PROVE  PageTellsTruth'
<1>1. /\ UNCHANGED <<page, outcome, posts, loads>>
      /\ doubtful' = IF page.phase = "unmounted" THEN doubtful ELSE doubtful \cup {id}
  BY DEF Elsewhere
<1>2. \A rows : Lists(rows) => Lists(rows)'
  BY ListsStay
<1>3. page.phase # "unmounted" =>
         \A i \in DOMAIN entries' \ doubtful' :
            i \in DOMAIN entries \ doubtful /\ entries'[i].status = entries[i].status
  BY <1>1
<1>4. page.phase = "unmounted" => InFlight = {}
  BY DEF PageTellsTruth, ListsLagBehind
<1>5. page.phase = "unmounted" => \A l \in Loads : loads[l].at # "served"
  BY <1>4 DEF InFlight
<1>. QED  BY <1>1, <1>2, <1>3, <1>5 DEF PageTellsTruth, PageWaits, ListsLagBehind, InFlight

-------------------------------------------------------------------------------
(* Fills and the journal.                                                      *)

\* The position depends on entries and fills alone.
LEMMA PositionStays ==
    ASSUME UNCHANGED <<entries, fills>>
    PROVE  PositionQuantity' = PositionQuantity
  BY DEF PositionQuantity, Net, Balance, Shares, OpenEntries

\* What the form keeps, spelled out.
LEMMA FormFacts ==
    ASSUME FormTypeOK, FillsAreKept
    PROVE  /\ DOMAIN fills \subseteq Orders
           /\ \A id \in DOMAIN entries : entries[id].order \in Orders
           /\ placing \in Placings /\ save \in [Orders -> {"idle", "post", "answer", "done"}]
           /\ \A o \in Orders : placing[o].pc # "done" => save[o] = "idle" /\ o \notin DOMAIN fills
           /\ \A o \in Saving : placing[o].pc = "done" /\ o \notin Submitting
  BY DEF FormTypeOK, Placings, Made, IsTable, FillsAreKept, SavesFollowFills, Saving, Submitting

\* Closing entries changes neither what is journaled nor what the form does about it.
LEMMA StepClosing ==
    ASSUME FormTypeOK, FillsAreKept, PageStep \/ \E id \in EntryIds : CloseTrade(id),
           ~ overlap' => ~ overlap /\ (Submitting = {} \/ entries' = entries),
           UNCHANGED <<shown, saveShown, placing, save, fills>>
    PROVE  FillsAreKept'
<1>1. /\ DOMAIN entries' = DOMAIN entries
      /\ \A id \in DOMAIN entries : entries'[id].order = entries[id].order
  BY PageKeepsEntries
<1>2. \A o : Journaled(o)' <=> Journaled(o)
  BY <1>1 DEF Journaled
<1>3. JournaledOnce' /\ SavedIsSaved' /\ SavesFollowFills'
  BY <1>1, <1>2 DEF FillsAreKept, JournaledOnce, SavedIsSaved, SavesFollowFills
<1>4. Submitting' = Submitting /\ Saving' = Saving
  BY DEF Submitting, Saving
<1>5. entries' = entries => PositionQuantity' = PositionQuantity
  BY PositionStays
<1>6. HandlersAreAlone'
  BY <1>4, <1>5 DEF FillsAreKept, HandlersAreAlone
<1>. QED  BY <1>3, <1>6 DEF FillsAreKept

\* Every step keeps what the form promises of fills.
LEMMA StepFills ==
    ASSUME FormTypeOK, FillsAreKept, [FormNext]_formVars
    PROVE  FillsAreKept'
<1>. USE DEF Show
<1>f. /\ DOMAIN fills \subseteq Orders
      /\ \A id \in DOMAIN entries : entries[id].order \in Orders
      /\ placing \in Placings /\ save \in [Orders -> {"idle", "post", "answer", "done"}]
      /\ \A o \in Orders : placing[o].pc # "done" => save[o] = "idle" /\ o \notin DOMAIN fills
      /\ \A o \in Saving : placing[o].pc = "done" /\ o \notin Submitting
  BY FormFacts
<1>i. JournaledOnce /\ SavedIsSaved /\ SavesFollowFills /\ HandlersAreAlone
  BY DEF FillsAreKept
<1>u. UNCHANGED entries => JournaledOnce' /\ \A o : Journaled(o)' <=> Journaled(o)
  BY <1>i DEF JournaledOnce, Journaled
<1>p. UNCHANGED <<entries, fills>> => PositionQuantity' = PositionQuantity
  BY PositionStays
<1>1. ASSUME NEW o \in Orders, HandleSubmit(o) PROVE FillsAreKept'
  <2>1. /\ placing[o].pc = "idle" /\ placing'[o].pc \in {"place", "check"}
        /\ placing'[o].side = "sell" => placing'[o].pc = "check"
        /\ \A p \in Orders \ {o} : placing'[p] = placing[p]
        /\ UNCHANGED <<save, fills, entries>>
        /\ overlap' = (overlap \/ Submitting \cup Saving # {})
        /\ \/ shown'.phase = "loading" /\ saveShown' = "idle"
           \/ UNCHANGED <<shown, saveShown>> /\ placing'[o].pc = "check"
    BY <1>1, <1>f DEF HandleSubmit, Placings, Sides
  <2>2. save[o] = "idle" /\ o \notin DOMAIN fills
    BY <1>f, <2>1
  <2>3. SavesFollowFills'
    BY <1>f, <1>i, <1>u, <2>1, <2>2 DEF SavesFollowFills
  <2>4. SavedIsSaved'
    BY <1>i, <1>u, <2>1 DEF SavedIsSaved
  <2>5. ~ overlap' => Submitting' = {o} /\ Saving' = {}
    BY <2>1 DEF Submitting, Saving
  <2>6. HandlersAreAlone'
    BY <2>1, <2>5 DEF HandlersAreAlone
  <2>. QED  BY <1>u, <2>1, <2>3, <2>4, <2>6 DEF FillsAreKept
<1>2. ASSUME NEW o \in Orders, ReadPosition(o) \/ CheckPosition(o) PROVE FillsAreKept'
  <2>1. /\ placing[o].pc \in {"check", "answer"} /\ placing'[o].pc \in {"answer", "place", "done"}
        /\ placing'[o].pc = "answer" => placing'[o].owned = PositionQuantity
        /\ placing'[o].pc = "place" => /\ placing[o].pc = "answer"
                                       /\ placing'[o].owned = placing[o].owned
                                       /\ placing'[o].quantity <= placing'[o].owned
                                       /\ saveShown' = "idle"
        /\ placing'[o].side = placing[o].side
        /\ \A p \in Orders \ {o} : placing'[p] = placing[p]
        /\ UNCHANGED <<save, fills, entries, overlap>>
        /\ \/ shown'.phase \in {"loading", "error"}
           \/ UNCHANGED <<shown, saveShown>>
    BY <1>2, <1>f, PlacingFields DEF ReadPosition, CheckPosition, Refuse, Placings, Made, Sides
  <2>2. save[o] = "idle" /\ o \notin DOMAIN fills /\ o \in Submitting
    BY <1>f, <2>1 DEF Submitting
  <2>3. SavesFollowFills'
    BY <1>f, <1>i, <1>u, <2>1, <2>2 DEF SavesFollowFills
  <2>4. SavedIsSaved'
    BY <1>i, <1>u, <2>1 DEF SavedIsSaved
  <2>5. Submitting' \subseteq Submitting /\ Saving' = Saving
    BY <2>1, <2>2 DEF Submitting, Saving
  <2>6. ~ overlap => Submitting \cup Saving = {o} /\ o \notin Saving
    BY <1>f, <1>i, <2>2 DEF HandlersAreAlone
  <2>7. HandlersAreAlone'
    BY <1>i, <1>p, <2>1, <2>2, <2>5, <2>6 DEF HandlersAreAlone
  <2>. QED  BY <1>u, <2>1, <2>3, <2>4, <2>7 DEF FillsAreKept
<1>3. ASSUME NEW o \in Orders, PlaceOrder(o) PROVE FillsAreKept'
  <2>1. /\ placing[o].pc = "place" /\ placing'[o].pc = "done"
        /\ \A p \in Orders \ {o} : placing'[p] = placing[p]
        /\ UNCHANGED <<saveShown, save, entries, overlap>>
        /\ DOMAIN fills \subseteq DOMAIN fills' /\ DOMAIN fills' \subseteq DOMAIN fills \cup {o}
        /\ shown'.phase = "error" \/ shown'.fill = o
    <3>1. fills' = fills \/ DOMAIN fills' = DOMAIN fills \cup {o}
      BY <1>3 DEF PlaceOrder, Put
    <3>2. /\ placing[o].pc = "place" /\ placing' = [placing EXCEPT ![o].pc = "done"]
          /\ UNCHANGED <<saveShown, save, entries, overlap>>
          /\ shown' = [phase |-> "result", fill |-> o] \/ shown' = [phase |-> "error", fill |-> NoFill]
      BY <1>3 DEF PlaceOrder, Refuse
    <3>. QED  BY <1>f, <3>1, <3>2 DEF Placings
  <2>2. save[o] = "idle" /\ o \notin DOMAIN fills /\ o \in Submitting
    BY <1>f, <2>1 DEF Submitting
  <2>3. SavesFollowFills'
    BY <1>f, <1>i, <1>u, <2>1, <2>2 DEF SavesFollowFills
  <2>4. ~ overlap => Submitting \cup Saving = {o} /\ o \notin Saving /\ saveShown = "idle"
    BY <1>f, <1>i, <2>1, <2>2 DEF HandlersAreAlone
  <2>5. SavedIsSaved'
    BY <2>1, <2>4 DEF SavedIsSaved
  <2>6. ~ overlap' => Submitting' = {} /\ Saving' = {}
    BY <2>1, <2>4 DEF Submitting, Saving
  <2>7. HandlersAreAlone'
    BY <2>6 DEF HandlersAreAlone
  <2>. QED  BY <1>u, <2>1, <2>3, <2>5, <2>7 DEF FillsAreKept
<1>4. CASE ClickSave
  <2>1. PICK f \in DOMAIN fills : f = shown.fill
    BY <1>4 DEF ClickSave, FormTypeOK
  <2>2. /\ save[f] = "idle" /\ save'[f] = "post" /\ placing[f].pc = "done"
        /\ \A p \in Orders \ {f} : save'[p] = save[p]
        /\ UNCHANGED <<shown, placing, fills, entries>> /\ saveShown' = "saving"
        /\ overlap' = (overlap \/ Submitting \cup Saving # {})
    BY <1>4, <1>f, <1>i, <2>1 DEF ClickSave, SavesFollowFills
  <2>3. \A id \in DOMAIN entries : entries[id].order # f
    BY <1>i, <2>2 DEF SavesFollowFills
  <2>4. SavesFollowFills'
    BY <1>f, <1>i, <1>u, <2>1, <2>2, <2>3 DEF SavesFollowFills
  <2>5. SavedIsSaved'
    BY <2>2 DEF SavedIsSaved
  <2>6. ~ overlap' => Submitting' = {} /\ Saving' = {f}
    BY <1>f, <2>1, <2>2 DEF Submitting, Saving
  <2>7. HandlersAreAlone'
    BY <2>1, <2>2, <2>6 DEF HandlersAreAlone
  <2>. QED  BY <1>u, <2>2, <2>4, <2>5, <2>7 DEF FillsAreKept
<1>5. ASSUME NEW o \in Orders, CreateEntry(o) PROVE FillsAreKept'
  <2>1. /\ save[o] = "post" /\ save'[o] \in {"answer", "done"}
        /\ \A p \in Orders \ {o} : save'[p] = save[p]
        /\ UNCHANGED <<shown, placing, fills, overlap>>
    BY <1>5, <1>f DEF CreateEntry
  <2>2. /\ \A id \in DOMAIN entries : entries[id].order # o
        /\ o \in DOMAIN fills /\ placing[o].pc = "done"
    BY <1>i, <2>1 DEF SavesFollowFills
  <2>3. Submitting' = Submitting /\ Saving' \subseteq Saving /\ o \in Saving
    BY <2>1 DEF Submitting, Saving
  <2>4. ~ overlap => Submitting = {}
    BY <1>f, <1>i, <2>3 DEF HandlersAreAlone
  <2>5. HandlersAreAlone'
    BY <1>i, <2>1, <2>3, <2>4 DEF HandlersAreAlone
  <2>6. CASE UNCHANGED entries /\ save'[o] = "done" /\ saveShown' = "error"
    <3>1. SavesFollowFills' /\ SavedIsSaved'
      BY <1>f, <1>i, <1>u, <2>1, <2>2, <2>6 DEF SavesFollowFills, SavedIsSaved
    <3>. QED  BY <1>u, <2>5, <2>6, <3>1 DEF FillsAreKept
  <2>7. CASE /\ save'[o] = "answer" /\ UNCHANGED saveShown
             /\ \E id \in EntryIds \ DOMAIN entries :
                   entries' = Put(entries, id, [order |-> o, status |-> "open"])
    <3>1. PICK id \in EntryIds \ DOMAIN entries :
             entries' = Put(entries, id, [order |-> o, status |-> "open"])
      BY <2>7
    <3>2. /\ DOMAIN entries' = DOMAIN entries \cup {id} /\ entries'[id].order = o
          /\ \A i \in DOMAIN entries : entries'[i].order = entries[i].order
      <4>1. /\ DOMAIN entries' = DOMAIN entries \cup {id}
            /\ entries'[id] = [order |-> o, status |-> "open"]
            /\ \A i \in DOMAIN entries : i # id => entries'[i] = entries[i]
        BY <3>1 DEF Put
      <4>. QED  BY <4>1
    <3>3. Journaled(o)' /\ \A p \in Orders : Journaled(p) => Journaled(p)'
      BY <3>2 DEF Journaled
    <3>4. JournaledOnce'
      BY <1>i, <2>2, <3>2 DEF JournaledOnce
    <3>5. SavesFollowFills'
      <4>1. \A i \in DOMAIN entries' : save'[entries'[i].order] \in {"answer", "done"}
        BY <1>i, <1>f, <2>1, <3>2 DEF SavesFollowFills
      <4>2. \A p \in Orders : save'[p] = "answer" => Journaled(p)'
        BY <1>i, <2>1, <3>3 DEF SavesFollowFills
      <4>3. \A p \in Orders : save'[p] # "idle" => p \in DOMAIN fills
        BY <1>i, <2>1, <2>2 DEF SavesFollowFills
      <4>4. shown'.phase = "result" /\ saveShown' = "idle" => save'[shown'.fill] = "idle"
        BY <1>f, <1>i, <2>1, <2>2, <2>7 DEF SavesFollowFills, FormTypeOK
      <4>. QED  BY <1>i, <2>1, <4>1, <4>2, <4>3, <4>4 DEF SavesFollowFills
    <3>6. SavedIsSaved'
      <4>1. shown.phase = "result" => shown.fill \in Orders
        BY <1>f DEF FormTypeOK
      <4>. QED  BY <1>i, <2>1, <2>7, <3>3, <4>1 DEF SavedIsSaved
    <3>. QED  BY <2>5, <3>4, <3>5, <3>6 DEF FillsAreKept
  <2>. QED  BY <1>5, <1>f, <2>1, <2>6, <2>7 DEF CreateEntry
<1>6. ASSUME NEW o \in Orders, SaveAnswered(o) PROVE FillsAreKept'
  <2>1. /\ save[o] = "answer" /\ save'[o] = "done" /\ saveShown' \in {"saved", "error"}
        /\ \A p \in Orders \ {o} : save'[p] = save[p]
        /\ UNCHANGED <<shown, placing, fills, entries, overlap>>
    BY <1>6, <1>f DEF SaveAnswered
  <2>2. Journaled(o) /\ o \in Saving /\ Submitting' = Submitting /\ Saving' \subseteq Saving
    BY <1>i, <2>1 DEF SavesFollowFills, Saving, Submitting
  <2>3. ~ overlap => Submitting = {} /\ (shown.phase = "result" => shown.fill = o)
    BY <1>f, <1>i, <2>2 DEF HandlersAreAlone
  <2>4. SavesFollowFills'
    BY <1>f, <1>i, <1>u, <2>1 DEF SavesFollowFills
  <2>5. SavedIsSaved'
    BY <1>u, <2>1, <2>2, <2>3 DEF SavedIsSaved
  <2>6. HandlersAreAlone'
    BY <1>i, <2>1, <2>2, <2>3 DEF HandlersAreAlone
  <2>. QED  BY <1>u, <2>1, <2>4, <2>5, <2>6 DEF FillsAreKept
<1>7. CASE JournalPage
  <2>1. PageStep /\ UNCHANGED <<shown, saveShown, placing, save, fills>>
    BY <1>7 DEF JournalPage
  <2>2. ~ overlap' => ~ overlap /\ (Submitting = {} \/ entries' = entries)
    BY <1>7 DEF JournalPage
  <2>. QED  BY <2>1, <2>2, StepClosing
<1>8. ASSUME NEW id \in EntryIds, CloseTrade(id) PROVE FillsAreKept'
  <2>1. UNCHANGED <<shown, saveShown, placing, save, fills>>
    BY <1>8 DEF CloseTrade
  <2>2. ~ overlap' => ~ overlap /\ (Submitting = {} \/ entries' = entries)
    BY <1>8 DEF CloseTrade
  <2>. QED  BY <1>8, <2>1, <2>2, StepClosing
<1>9. CASE UNCHANGED formVars
  <2>1. /\ UNCHANGED <<entries, shown, saveShown, placing, save, fills, overlap>>
        /\ Submitting' = Submitting /\ Saving' = Saving
    BY <1>9 DEF formVars, handlerVars, Submitting, Saving
  <2>2. SavesFollowFills' /\ SavedIsSaved'
    BY <1>i, <1>u, <2>1 DEF SavesFollowFills, SavedIsSaved
  <2>3. HandlersAreAlone'
    BY <1>i, <1>p, <2>1 DEF HandlersAreAlone
  <2>. QED  BY <1>u, <2>1, <2>2, <2>3 DEF FillsAreKept
<1>. QED  BY <1>1, <1>2, <1>3, <1>4, <1>5, <1>6, <1>7, <1>8, <1>9 DEF FormNext, Proceed

\* A step adds at most one row to a table.
LEMMA StepFinite ==
    ASSUME FormTypeOK, TablesAreFinite, [FormNext]_formVars
    PROVE  TablesAreFinite'
<1>f. \A S, x : IsFiniteSet(S) => IsFiniteSet(S \cup {x})
  BY FS_AddElement
<1>1. UNCHANGED <<entries, fills>> => TablesAreFinite'
  BY DEF TablesAreFinite
<1>2. ASSUME NEW o \in Orders, HandleSubmit(o) \/ ReadPosition(o) \/ CheckPosition(o) \/ SaveAnswered(o)
      PROVE  UNCHANGED <<entries, fills>>
  BY <1>2 DEF HandleSubmit, ReadPosition, CheckPosition, SaveAnswered
<1>3. ASSUME NEW o \in Orders, PlaceOrder(o) PROVE TablesAreFinite'
  <2>1. UNCHANGED entries /\ (fills' = fills \/ DOMAIN fills' = DOMAIN fills \cup {o})
    BY <1>3 DEF PlaceOrder, Put
  <2>. QED  BY <1>f, <2>1 DEF TablesAreFinite
<1>4. ASSUME NEW o \in Orders, CreateEntry(o) PROVE TablesAreFinite'
  <2>1. /\ UNCHANGED fills
        /\ entries' = entries \/ \E id \in EntryIds : DOMAIN entries' = DOMAIN entries \cup {id}
    BY <1>4 DEF CreateEntry, Put
  <2>. QED  BY <1>f, <2>1 DEF TablesAreFinite
<1>5. CASE JournalPage
  BY <1>5, PageKeepsEntries DEF JournalPage, TablesAreFinite
<1>6. ASSUME NEW id \in EntryIds, CloseTrade(id) PROVE TablesAreFinite'
  <2>1. DOMAIN entries' = DOMAIN entries
    BY <1>6, PageKeepsEntries
  <2>. QED  BY <1>6, <2>1 DEF CloseTrade, TablesAreFinite
<1>7. ClickSave \/ UNCHANGED formVars => UNCHANGED <<entries, fills>>
  BY DEF ClickSave, formVars, handlerVars
<1>. QED  BY <1>1, <1>2, <1>3, <1>4, <1>5, <1>6, <1>7 DEF FormNext, Proceed

\* The inductive invariant: what is promised, with what it rests on (OrderForm, JournalList).
FormIInv == FormTypeOK /\ TablesAreFinite /\ FillsAreKept /\ PageTellsTruth

\* The form and the page as they are opened.
LEMMA FormInitially == FormInit => FormIInv
<1>. SUFFICES ASSUME FormInit PROVE FormIInv
  OBVIOUS
<1>. USE DEF FormInit, PageInit, NoSubmit
<1>1. /\ DOMAIN entries = {} /\ DOMAIN fills = {}
      /\ IsTable(entries, EntryIds, [order : Orders, status : {"open", "closed"}])
      /\ IsTable(fills, Orders, [side : Sides, quantity : Quantities])
      /\ IsTable(page.rows, EntryIds, EntryStatuses)
  BY EmptyTableType
<1>2. PageTypeOK
  BY <1>1, MaxSubmitsAssumption DEF PageTypeOK, NoLoad
<1>3. FormTypeOK
  BY <1>1, <1>2 DEF FormTypeOK
<1>4. TablesAreFinite
  BY <1>1, FS_EmptySet DEF TablesAreFinite
<1>5. Submitting = {} /\ Saving = {} /\ InFlight = {}
  BY DEF Submitting, Saving, InFlight, NoLoad
<1>6. FillsAreKept
  BY <1>1, <1>5 DEF FillsAreKept, JournaledOnce, SavedIsSaved, SavesFollowFills, HandlersAreAlone
<1>7. PageTellsTruth
  BY <1>5 DEF PageTellsTruth, PageWaits, ListsLagBehind, NoLoad
<1>. QED  BY <1>3, <1>4, <1>6, <1>7 DEF FormIInv

\* Every step leaves the page telling the truth, those of the form included.
LEMMA StepPageInvariant ==
    ASSUME FormTypeOK, PageTellsTruth, [FormNext]_formVars
    PROVE  PageTellsTruth'
<1>1. ASSUME UNCHANGED <<entries, pageVars>> PROVE PageTellsTruth'
  BY <1>1 DEF pageVars, PageTellsTruth, PageWaits, ListsLagBehind, Lists, InFlight
<1>2. ASSUME NEW o \in Orders, CreateEntry(o), ~ UNCHANGED <<entries, pageVars>> PROVE PageTellsTruth'
  <2>1. PICK id \in EntryIds \ DOMAIN entries :
           entries' = Put(entries, id, [order |-> o, status |-> "open"]) /\ Elsewhere(id)
    BY <1>2 DEF CreateEntry
  <2>2. /\ DOMAIN entries' = DOMAIN entries \cup {id}
        /\ \A i \in DOMAIN entries : entries'[i] = entries[i]
    BY <2>1 DEF Put
  <2>. QED  BY <2>1, <2>2, StepElsewhere
<1>3. ASSUME NEW id \in EntryIds, CloseTrade(id) PROVE PageTellsTruth'
  <2>1. /\ DOMAIN entries' = DOMAIN entries /\ Elsewhere(id)
        /\ \A i \in DOMAIN entries : i # id => entries'[i].status = entries[i].status
        /\ \A i \in DOMAIN entries : entries[i].status = "closed" => entries'[i].status = "closed"
    BY <1>3, PageKeepsEntries DEF CloseTrade
  <2>. QED  BY <2>1, StepElsewhere
<1>4. CASE JournalPage
  BY <1>4, StepPage DEF JournalPage
<1>5. ASSUME NEW o \in Orders, HandleSubmit(o) \/ Proceed(o) \/ SaveAnswered(o)
      PROVE  UNCHANGED <<entries, pageVars>>
  BY <1>5 DEF HandleSubmit, Proceed, ReadPosition, CheckPosition, PlaceOrder, SaveAnswered
<1>6. ClickSave \/ UNCHANGED formVars => UNCHANGED <<entries, pageVars>>
  BY DEF ClickSave, formVars
<1>. QED  BY <1>1, <1>2, <1>3, <1>4, <1>5, <1>6 DEF FormNext

\* The inductive invariant of the form and the page holds of every state.
THEOREM FormInvariance == FormSpec => []FormIInv
<1>1. FormIInv /\ [FormNext]_formVars => FormIInv'
  <2>. SUFFICES ASSUME FormIInv, [FormNext]_formVars PROVE FormIInv'
    OBVIOUS
  <2>1. FormTypeOK /\ TablesAreFinite /\ FillsAreKept /\ PageTellsTruth /\ SavesFollowFills
    BY DEF FormIInv, FillsAreKept
  <2>. QED  BY <2>1, StepFormType, StepFinite, StepFills, StepPageInvariant DEF FormIInv
<1>. QED  BY <1>1, FormInitially, PTL DEF FormSpec

\* A fill is journaled once at most, however its save fails or its answer is lost, and the
\* form says "Saved to journal" only of a fill that was.
THEOREM FillsStayKept == FormSpec => []FillsAreKept
<1>1. FormIInv => FillsAreKept
  BY DEF FormIInv
<1>. QED  BY <1>1, FormInvariance, PTL

\* The journal page shows what is stored, but for what it cannot know, and waits for nothing
\* that does not come.
THEOREM JournalPageInvariance == FormSpec => []JournalPageInv
<1>1. PageTellsTruth => PageWaits /\ ListsLagBehind /\ ListTellsTruth
  BY DEF PageTellsTruth, ListsLagBehind, ListTellsTruth
<1>2. FormIInv => JournalPageInv
  BY <1>1 DEF FormIInv, JournalPageInv
<1>. QED  BY <1>2, FormInvariance, PTL

\* Of fills that are all journaled, each once, the position is what the user holds.
LEMMA NetIsHolding ==
    ASSUME FormTypeOK, SavesFollowFills, JournaledOnce, TablesAreFinite, Unsaved = {}
    PROVE  Holding = Net
<1>. DEFINE f == [id \in OpenEntries |-> entries[id].order]
            g == [o \in {p \in DOMAIN fills : ~ Closed(p)} |-> o]
<1>1. \A id \in DOMAIN entries : /\ entries[id].order \in DOMAIN fills
                                 /\ entries[id].status \in {"open", "closed"}
  BY DEF SavesFollowFills, FormTypeOK, IsTable
<1>2. ASSUME NEW id \in OpenEntries PROVE f[id] \in DOMAIN g /\ g[f[id]] = f[id]
  BY <1>1 DEF OpenEntries, Closed, JournaledOnce
<1>3. \A i, j \in OpenEntries : f[i] = f[j] => i = j
  BY DEF OpenEntries, JournaledOnce
<1>4. ASSUME NEW o \in DOMAIN g PROVE \E id \in OpenEntries : f[id] = o
  BY <1>1 DEF Unsaved, Journaled, Closed, OpenEntries
<1>5. f \in Bijection(DOMAIN f, DOMAIN g)
  <2>1. f \in [DOMAIN f -> DOMAIN g] /\ DOMAIN f = OpenEntries
    BY <1>2
  <2>. HIDE DEF f, g
  <2>. QED  BY <1>3, <1>4, <2>1 DEF Bijection, Injection, Surjection, IsInjective
<1>6. IsFiniteSet(DOMAIN f)
  BY FS_Subset DEF TablesAreFinite, OpenEntries
<1>7. ASSUME NEW id \in DOMAIN f PROVE fills[f[id]].quantity \in Nat /\ g[f[id]] = f[id]
  <2>1. f[id] \in DOMAIN fills
    BY <1>1 DEF OpenEntries
  <2>. QED  BY <1>2, <2>1, QuantitiesAssumption DEF FormTypeOK, IsTable
<1>. HIDE DEF f, g
<1>8. Balance(f) = Balance(g)
  BY <1>5, <1>6, <1>7, BalanceRenamed
<1>. QED  BY <1>8 DEF Net, Holding, f, g

\* A sell the form places is covered by what the user holds, where no two handlers overlap,
\* every fill is in the journal and the position is not short.
THEOREM SellsAreCovered == FormSpec => CheckedSellsAreCovered
<1>. DEFINE Covered == \A o \in Orders :
                          Sold(o) /\ ~overlap /\ Unsaved = {} /\ Holding >= 0
                              => fills'[o].quantity <= Holding
<1>1. ASSUME FormIInv, FormNext, NEW o \in Orders, Sold(o), ~ overlap, Unsaved = {}, Holding >= 0
      PROVE  fills'[o].quantity <= Holding
  <2>1. /\ FormTypeOK /\ TablesAreFinite /\ SavesFollowFills /\ JournaledOnce /\ HandlersAreAlone
        /\ \A p \in Orders : placing[p].pc # "done" => save[p] = "idle" /\ p \notin DOMAIN fills
    BY <1>1, FormFacts DEF FormIInv, FillsAreKept
  <2>2. fills' # fills
    BY <1>1 DEF Sold
  <2>3. PICK p \in Orders : PlaceOrder(p)
    BY <1>1, <2>2 DEF FormNext, Proceed, HandleSubmit, ReadPosition, CheckPosition, CreateEntry,
                      SaveAnswered, ClickSave, JournalPage, CloseTrade
  <2>4. fills' = Put(fills, p, [side |-> placing[p].side, quantity |-> placing[p].quantity])
    BY <2>2, <2>3 DEF PlaceOrder
  <2>5. p = o /\ fills'[o].side = placing[o].side /\ fills'[o].quantity = placing[o].quantity
    BY <1>1, <2>4 DEF Sold, Put
  <2>6. placing[o].pc = "place" /\ placing[o].side = "sell" /\ o \in Submitting
    BY <1>1, <2>3, <2>5 DEF PlaceOrder, Sold, Submitting
  <2>7. placing[o].quantity <= placing[o].owned /\ placing[o].owned = PositionQuantity
    BY <1>1, <2>1, <2>6 DEF HandlersAreAlone
  <2>8. Holding = Net /\ Net \in Int
    BY <1>1, <2>1, NetIsHolding, PositionType
  <2>9. PositionQuantity = Holding
    BY <1>1, <2>8 DEF PositionQuantity
  <2>. QED  BY <2>5, <2>7, <2>9
<1>2. FormIInv /\ [FormNext]_formVars => [Covered]_formVars
  <2>1. FormIInv /\ FormNext => Covered
    BY <1>1
  <2>. HIDE DEF Covered
  <2>. QED  BY <2>1
<1>. QED  BY <1>2, FormInvariance, PTL DEF FormSpec, CheckedSellsAreCovered

-------------------------------------------------------------------------------
(*                                The session                                  *)
(* The inductive invariant is WebInv, of WebSession.                           *)
-------------------------------------------------------------------------------
(* Facts used by several steps.                                                *)

\* A session is stored over another: what storage held is retired, the new one is known.
LEMMA SetSessionFacts ==
    ASSUME WebInv, NEW b \in BrowserTabs, NEW n \in Tokens, n \notin Known, SetSession(b, n)
    PROVE  /\ storage' = n /\ retired' = Known /\ Known' = Known \cup {n} /\ n \notin retired'
           /\ current' = [current EXCEPT ![b] = n]
           /\ Known \subseteq Tokens
  BY NoSessionAssumption DEF WebInv, WebTypeOK, SetSession, Retire, Known

\* Storage is cleared: what it held is retired.
LEMMA ClearSessionFacts ==
    ASSUME WebInv, NEW b \in BrowserTabs, ClearSession(b)
    PROVE  /\ storage' = NoSession /\ retired' = Known /\ Known' = Known
           /\ current' = [current EXCEPT ![b] = NoSession]
           /\ Known \subseteq Tokens
  BY NoSessionAssumption DEF WebInv, WebTypeOK, ClearSession, Retire, Known

\* The session a pending restore read.
LEMMA RestoreToken ==
    ASSUME WebTypeOK, NEW b \in BrowserTabs, restore[b].at # "none"
    PROVE  /\ restore[b] \in [at : {"me", "refresh", "served"}, token : Tokens]
           /\ restore[b].token \in Tokens
  BY DEF WebTypeOK, Restores, NotRestoring

\* A pending restore moves on with the session it read.
LEMMA RestoreMoves ==
    ASSUME WebTypeOK, NEW b \in BrowserTabs, restore[b].at # "none", NEW w \in {"refresh", "served"},
           restore' = [restore EXCEPT ![b].at = w]
    PROVE  /\ restore' \in [BrowserTabs -> Restores]
           /\ restore'[b].at = w /\ restore'[b].token = restore[b].token
           /\ \A c \in BrowserTabs : c # b => restore'[c] = restore[c]
  <1>1. restore[b] \in [at : {"me", "refresh", "served"}, token : Tokens]
    BY RestoreToken
  <1> DEFINE r == [restore[b] EXCEPT !.at = w]
  <1>2. /\ r \in [at : {"me", "refresh", "served"}, token : Tokens]
        /\ r.at = w /\ r.token = restore[b].token
    BY <1>1
  <1>3. restore' = [restore EXCEPT ![b] = r]
    OBVIOUS
  <1>4. r \in Restores /\ restore \in [BrowserTabs -> Restores]
    BY <1>2 DEF WebTypeOK, Restores
  <1> HIDE DEF r
  <1>5. restore'[b] = r /\ \A c \in BrowserTabs : c # b => restore'[c] = restore[c]
    BY <1>3, <1>4
  <1>6. restore' \in [BrowserTabs -> Restores]
    BY <1>3, <1>4
  <1> QED
    BY <1>2, <1>5, <1>6

\* Idle is a restore, with nothing pending.
LEMMA IdleRestore == NotRestoring \in Restores /\ NotRestoring.at = "none"
  BY DEF NotRestoring, Restores

-------------------------------------------------------------------------------
(* Every action preserves the invariant.                                       *)

\* WebInv holds initially.
LEMMA InitInv == WebInit => WebInv
  BY NoSessionAssumption, IdleRestore DEF WebInit, WebInv, WebTypeOK, KnownOK, PendingOK, RestoringOK,
     NoSessionReturns, RejectedIsDropped, ScreenMatchesStore, Known

\* WebInv survives a page load.
LEMMA LoadInv ==
    ASSUME WebInv, NEW b \in BrowserTabs, LoadPage(b)
    PROVE  WebInv'
  <1> USE DEF WebInv
  <1>1. storage \in Tokens \cup {NoSession} /\ storage \notin retired /\ NoSession \notin Tokens
        /\ (storage # NoSession => storage \in Known) /\ rejected[b] \subseteq retired
    BY NoSessionAssumption DEF WebTypeOK, NoSessionReturns, Known, KnownOK
  <1> DEFINE job == IF storage = NoSession THEN NotRestoring ELSE [at |-> "me", token |-> storage]
             st == IF storage = NoSession THEN "unauthenticated" ELSE "loading"
  <1>2. job \in Restores /\ (job.at # "none" => storage # NoSession /\ job.token = storage)
    BY <1>1, IdleRestore DEF Restores
  <1>3. /\ current' = [current EXCEPT ![b] = storage]
        /\ restore' = [restore EXCEPT ![b] = job]
        /\ status' = [status EXCEPT ![b] = st]
        /\ seen' = [seen EXCEPT ![b] = NoSession]
        /\ submitting' = [submitting EXCEPT ![b] = FALSE]
        /\ logouts' = [logouts EXCEPT ![b] = {}]
        /\ overlapped' = [overlapped EXCEPT ![b] = FALSE]
        /\ refreshed' = [refreshed EXCEPT ![b] = NoSession]
        /\ UNCHANGED <<server, access, storage, retired, rejected>>
    BY DEF LoadPage
  <1>4. st \in {"unauthenticated", "loading"} /\ (job.at # "none" <=> st = "loading")
    BY IdleRestore
  <1> HIDE DEF job, st
  <1>5. WebTypeOK'
    BY <1>1, <1>2, <1>3, <1>4 DEF WebTypeOK
  <1>6. KnownOK'
    BY <1>1, <1>3 DEF KnownOK, WebTypeOK, Known
  <1>7. PendingOK'
    BY <1>3 DEF PendingOK, WebTypeOK, Known
  <1>8. RestoringOK'
    BY <1>1, <1>2, <1>3, <1>4 DEF RestoringOK, WebTypeOK, Known
  <1>9. NoSessionReturns' /\ RejectedIsDropped'
    BY <1>1, <1>3, NoSessionAssumption DEF NoSessionReturns, RejectedIsDropped, WebTypeOK
  <1>10. ScreenMatchesStore'
    BY <1>3, <1>4 DEF ScreenMatchesStore, WebTypeOK
  <1> QED
    BY <1>5, <1>6, <1>7, <1>8, <1>9, <1>10

\* WebInv survives the answer of me().
LEMMA MeAnsweredInv ==
    ASSUME WebInv, NEW b \in BrowserTabs, MeAnswered(b)
    PROVE  WebInv'
  <1> USE DEF WebInv
  <1> DEFINE t == restore[b].token
  <1>1. /\ restore[b].at = "me" /\ t \in Tokens /\ t \in Known \ rejected[b]
        /\ restore[b] \in Restores /\ t # NoSession
        /\ UNCHANGED <<server, current, storage, retired, refreshed, submitting, logouts, rejected, overlapped>>
    BY RestoreToken, NoSessionAssumption DEF MeAnswered, RestoringOK, KeepSession, WebTypeOK
  <1>2. refreshed[b] = NoSession
    BY <1>1 DEF PendingOK
  <1>3. CASE Restored(b, t) /\ UNCHANGED access
    <2>1. /\ restore' = [restore EXCEPT ![b] = NotRestoring]
          /\ seen' = [seen EXCEPT ![b] = t]
          /\ status' = [status EXCEPT ![b] = "authenticated"]
      BY <1>1, <1>3 DEF Restored
    <2>2. WebTypeOK'
      BY <1>1, <1>3, <2>1, IdleRestore DEF WebTypeOK
    <2>3. KnownOK' /\ PendingOK'
      BY <1>1, <1>2, <2>1 DEF KnownOK, PendingOK, WebTypeOK, Known
    <2>4. RestoringOK'
      BY <1>1, <2>1, IdleRestore DEF RestoringOK, WebTypeOK, Known
    <2>5. NoSessionReturns' /\ RejectedIsDropped'
      BY <1>1, <2>1, NoSessionAssumption DEF NoSessionReturns, RejectedIsDropped, WebTypeOK
    <2>6. ScreenMatchesStore'
      BY <1>1, <2>1 DEF ScreenMatchesStore, RestoringOK, WebTypeOK
    <2> QED
      BY <2>2, <2>3, <2>4, <2>5, <2>6
  <1>4. CASE /\ access' = [access EXCEPT ![t] = FALSE]
             /\ restore' = [restore EXCEPT ![b].at = "refresh"]
             /\ UNCHANGED <<seen, status>>
    <2>1. /\ restore' \in [BrowserTabs -> Restores]
          /\ restore'[b].at = "refresh" /\ restore'[b].token = t
          /\ \A c \in BrowserTabs : c # b => restore'[c] = restore[c]
      BY <1>1, <1>4, RestoreMoves
    <2>2. WebTypeOK'
      BY <1>1, <1>4, <2>1 DEF WebTypeOK
    <2>3. KnownOK' /\ PendingOK'
      BY <1>1, <1>2, <1>4, <2>1 DEF KnownOK, PendingOK, WebTypeOK, Known
    <2>4. RestoringOK'
      BY <1>1, <1>4, <2>1 DEF RestoringOK, WebTypeOK, Known
    <2>5. (NoSessionReturns /\ RejectedIsDropped /\ ScreenMatchesStore)'
      BY <1>1, <1>4 DEF NoSessionReturns, RejectedIsDropped, ScreenMatchesStore
    <2> QED
      BY <2>2, <2>3, <2>4, <2>5
  <1> QED
    BY <1>3, <1>4 DEF MeAnswered

\* WebInv survives the services' answer to a refresh: a new session is nobody else's.
LEMMA ServeRefreshInv ==
    ASSUME WebInv, NEW b \in BrowserTabs, ServeRefresh(b)
    PROVE  WebInv'
  <1> USE DEF WebInv
  <1> DEFINE t == restore[b].token
  <1>1. /\ restore[b].at = "refresh" /\ t \in Tokens /\ refreshed[b] = NoSession
        /\ restore' \in [BrowserTabs -> Restores]
        /\ restore'[b].at = "served" /\ restore'[b].token = t
        /\ \A c \in BrowserTabs : c # b => restore'[c] = restore[c]
        /\ UNCHANGED <<storage, current, status, seen, submitting, logouts, past>>
    <2>1. /\ restore[b].at = "refresh"
          /\ restore' = [restore EXCEPT ![b].at = "served"]
          /\ UNCHANGED <<storage, current, status, seen, submitting, logouts, past>>
      BY DEF ServeRefresh
    <2>2. t \in Tokens /\ refreshed[b] = NoSession
      BY <2>1, RestoreToken DEF PendingOK
    <2>3. /\ restore' \in [BrowserTabs -> Restores]
          /\ restore'[b].at = "served" /\ restore'[b].token = t
          /\ \A c \in BrowserTabs : c # b => restore'[c] = restore[c]
      BY <2>1, RestoreMoves
    <2> QED
      BY <2>1, <2>2, <2>3
  <1>2. PICK n \in Tokens \cup {NoSession} :
           /\ refreshed' = [refreshed EXCEPT ![b] = n]
           /\ n # NoSession => /\ server[n] = "fresh"
                          /\ server' = [server EXCEPT ![t] = "dead", ![n] = "live"]
                          /\ access' = [access EXCEPT ![n] = TRUE]
           /\ n = NoSession => UNCHANGED <<server, access>>
    <2>1. CASE UNCHANGED <<server, access, refreshed>>
      BY <1>1, <2>1 DEF WebTypeOK
    <2>2. CASE \E n \in Tokens : /\ Issue(n)
                                 /\ server' = [server EXCEPT ![t] = "dead", ![n] = "live"]
                                 /\ refreshed' = [refreshed EXCEPT ![b] = n]
      BY <2>2, NoSessionAssumption DEF Issue
    <2> QED
      BY <2>1, <2>2 DEF ServeRefresh
  <1>3. /\ server' \in [Tokens -> {"fresh", "live", "dead"}]
        /\ \A x \in Tokens : server[x] # "fresh" => server'[x] # "fresh"
        /\ n # NoSession => server'[n] # "fresh" /\ n \notin Known
    BY <1>1, <1>2 DEF WebTypeOK, KnownOK
  <1>4. Known \subseteq Tokens
    BY DEF Known, WebTypeOK
  <1>5. WebTypeOK'
    BY <1>1, <1>2, <1>3 DEF WebTypeOK, past
  <1>6. KnownOK'
    BY <1>1, <1>3, <1>4 DEF KnownOK, WebTypeOK, Known, past
  <1>7. PendingOK'
    <2>1. ASSUME NEW c \in BrowserTabs, refreshed'[c] # NoSession
          PROVE  /\ restore'[c].at = "served"
                 /\ server'[refreshed'[c]] # "fresh"
                 /\ refreshed'[c] \notin Known'
                 /\ \A d \in BrowserTabs \ {c} : refreshed'[d] # refreshed'[c]
      <3>1. Known' = Known
        BY <1>1 DEF Known, past
      <3>2. \A d \in BrowserTabs : refreshed'[d] = IF d = b THEN n ELSE refreshed[d]
        BY <1>2 DEF WebTypeOK
      <3>3. \A d \in BrowserTabs : refreshed[d] # NoSession => refreshed[d] \in Tokens /\ server[refreshed[d]] # "fresh"
        BY DEF PendingOK, WebTypeOK
      <3> QED
        BY <1>1, <1>2, <1>3, <2>1, <3>1, <3>2, <3>3 DEF PendingOK, WebTypeOK
    <2> QED
      BY <2>1 DEF PendingOK
  <1>8. RestoringOK'
    BY <1>1 DEF RestoringOK, WebTypeOK, Known, past
  <1>9. (NoSessionReturns /\ RejectedIsDropped /\ ScreenMatchesStore)'
    BY <1>1 DEF NoSessionReturns, RejectedIsDropped, ScreenMatchesStore, past
  <1> QED
    BY <1>5, <1>6, <1>7, <1>8, <1>9

\* WebInv survives the delivery of a refresh's answer, or its failure.
LEMMA RefreshEndsInv ==
    ASSUME WebInv, NEW b \in BrowserTabs, RefreshAnswered(b) \/ RefreshFails(b)
    PROVE  WebInv'
  <1> USE DEF WebInv
  <1> DEFINE t == restore[b].token
  <1>1. /\ t \in Tokens /\ t \in Known /\ restore[b].at # "none"
        /\ refreshed' = [refreshed EXCEPT ![b] = NoSession]
        /\ UNCHANGED <<server, access, submitting, logouts, overlapped>>
    BY RestoreToken DEF RefreshAnswered, RefreshFails, RestoringOK
  <1>2. CASE /\ refreshed[b] # NoSession
             /\ SetSession(b, refreshed[b])
             /\ Restored(b, refreshed[b])
             /\ UNCHANGED rejected
    <2> DEFINE n == refreshed[b]
    <2>1. n \in Tokens /\ n # NoSession /\ n \notin Known /\ server[n] # "fresh"
      BY <1>2, NoSessionAssumption DEF PendingOK, WebTypeOK
    <2>2. /\ storage' = n /\ retired' = Known /\ Known' = Known \cup {n} /\ n \notin retired'
          /\ current' = [current EXCEPT ![b] = n]
          /\ Known \subseteq Tokens
      BY <1>2, <2>1, SetSessionFacts
    <2>3. /\ restore' = [restore EXCEPT ![b] = NotRestoring]
          /\ seen' = [seen EXCEPT ![b] = n]
          /\ status' = [status EXCEPT ![b] = "authenticated"]
      BY <1>2, <2>1 DEF Restored
    <2>4. WebTypeOK'
      BY <1>1, <1>2, <2>1, <2>2, <2>3, IdleRestore DEF WebTypeOK
    <2>5. KnownOK'
      BY <1>1, <1>2, <2>1, <2>2, <2>3 DEF KnownOK, WebTypeOK, Known
    <2>6. PendingOK'
      BY <1>1, <2>1, <2>2, <2>3 DEF PendingOK, WebTypeOK
    <2>7. RestoringOK'
      BY <1>1, <1>2, <2>2, <2>3, IdleRestore DEF RestoringOK, WebTypeOK
    <2>8. NoSessionReturns'
      BY <2>2 DEF NoSessionReturns
    <2>9. RejectedIsDropped'
      BY <1>1, <1>2, <2>1, <2>2, <2>3 DEF RejectedIsDropped, KnownOK, WebTypeOK, Known
    <2>10. ScreenMatchesStore'
      BY <1>1, <2>1, <2>2, <2>3 DEF ScreenMatchesStore, WebTypeOK
    <2> QED
      BY <2>4, <2>5, <2>6, <2>7, <2>8, <2>9, <2>10
  <1>3. CASE /\ ClearSession(b)
             /\ Restored(b, NoSession)
             /\ rejected' \in {rejected, [rejected EXCEPT ![b] = @ \cup {t}]}
    <2>1. /\ storage' = NoSession /\ retired' = Known /\ Known' = Known
          /\ current' = [current EXCEPT ![b] = NoSession]
          /\ Known \subseteq Tokens
      BY <1>3, ClearSessionFacts
    <2>2. /\ restore' = [restore EXCEPT ![b] = NotRestoring]
          /\ seen' = [seen EXCEPT ![b] = NoSession]
          /\ status' = [status EXCEPT ![b] = "unauthenticated"]
      BY <1>3 DEF Restored
    <2>3. /\ rejected' \in [BrowserTabs -> SUBSET Tokens]
          /\ rejected'[b] \subseteq rejected[b] \cup {t}
          /\ \A c \in BrowserTabs : c # b => rejected'[c] = rejected[c]
      BY <1>1, <1>3 DEF WebTypeOK
    <2>4. \A c \in BrowserTabs : rejected'[c] \subseteq Known
      BY <1>1, <2>3 DEF KnownOK, Known
    <2>5. WebTypeOK'
      BY <1>1, <2>1, <2>2, <2>3, IdleRestore DEF WebTypeOK
    <2>6. KnownOK'
      BY <1>1, <2>1, <2>2, <2>4 DEF KnownOK, WebTypeOK
    <2>7. PendingOK'
      BY <1>1, <2>1, <2>2 DEF PendingOK, WebTypeOK
    <2>8. RestoringOK'
      BY <1>1, <2>1, <2>2, <2>3, IdleRestore DEF RestoringOK, WebTypeOK
    <2>9. NoSessionReturns'
      BY <2>1, NoSessionAssumption DEF NoSessionReturns
    <2>10. RejectedIsDropped'
      <3>1. ASSUME NEW c \in BrowserTabs, NEW x \in rejected'[c]
            PROVE  x \notin {storage', current'[c], seen'[c]}
        <4>1. x \in Tokens /\ x # NoSession
          BY <2>3, NoSessionAssumption
        <4>2. CASE c = b
          BY <2>1, <2>2, <4>1, <4>2 DEF WebTypeOK
        <4>3. CASE c # b
          BY <2>1, <2>2, <2>3, <4>1, <4>3 DEF RejectedIsDropped, WebTypeOK
        <4> QED
          BY <4>2, <4>3
      <3> QED
        BY <3>1 DEF RejectedIsDropped
    <2>11. ScreenMatchesStore'
      BY <1>1, <2>1, <2>2 DEF ScreenMatchesStore, WebTypeOK
    <2> QED
      BY <2>5, <2>6, <2>7, <2>8, <2>9, <2>10, <2>11
  <1> QED
    BY <1>2, <1>3 DEF RefreshAnswered, RefreshFails

\* WebInv survives the submission of a login.
LEMMA LoginInv ==
    ASSUME WebInv, NEW b \in BrowserTabs, Login(b)
    PROVE  WebInv'
  <1> USE DEF WebInv
  <1> DEFINE o == overlapped[b] \/ restore[b].at # "none" \/ logouts[b] # {}
  <1>1. /\ submitting' = [submitting EXCEPT ![b] = TRUE]
        /\ overlapped' = [overlapped EXCEPT ![b] = o]
        /\ status[b] \in {"loading", "unauthenticated"}
        /\ UNCHANGED <<server, access, refreshed, storage, current, status, seen, restore, logouts,
                       retired, rejected>>
    BY DEF Login
  <1>2. o \in BOOLEAN /\ (~o => ~overlapped[b] /\ restore[b].at = "none" /\ logouts[b] = {})
    BY DEF WebTypeOK
  <1> HIDE DEF o
  <1>3. WebTypeOK'
    BY <1>1, <1>2 DEF WebTypeOK
  <1>4. (KnownOK /\ PendingOK /\ NoSessionReturns /\ RejectedIsDropped)'
    BY <1>1 DEF KnownOK, PendingOK, NoSessionReturns, RejectedIsDropped, Known
  <1>5. RestoringOK'
    BY <1>1, <1>2 DEF RestoringOK, WebTypeOK, Known
  <1>6. ScreenMatchesStore'
    BY <1>1, <1>2 DEF ScreenMatchesStore, WebTypeOK
  <1> QED
    BY <1>3, <1>4, <1>5, <1>6

\* WebInv survives the answer of a login.
LEMMA LoginAnsweredInv ==
    ASSUME WebInv, NEW b \in BrowserTabs, LoginAnswered(b)
    PROVE  WebInv'
  <1> USE DEF WebInv
  <1>1. /\ submitting[b]
        /\ submitting' = [submitting EXCEPT ![b] = FALSE]
        /\ UNCHANGED <<restore, refreshed, logouts, rejected, overlapped>>
    BY DEF LoginAnswered
  <1>2. ASSUME NEW n \in Tokens, Issue(n),
               server' = [server EXCEPT ![n] = "live"],
               SetSession(b, n),
               seen' = [seen EXCEPT ![b] = n],
               status' = [status EXCEPT ![b] = "authenticated"]
        PROVE  WebInv'
    <2>1. /\ server[n] = "fresh" /\ n \notin Known /\ n # NoSession
          /\ access' = [access EXCEPT ![n] = TRUE]
          /\ \A c \in BrowserTabs : n # refreshed[c]
      BY <1>2, NoSessionAssumption DEF Issue, KnownOK, PendingOK
    <2>2. /\ storage' = n /\ retired' = Known /\ Known' = Known \cup {n} /\ n \notin retired'
          /\ current' = [current EXCEPT ![b] = n]
          /\ Known \subseteq Tokens
      BY <1>2, <2>1, SetSessionFacts
    <2>3. /\ server' \in [Tokens -> {"fresh", "live", "dead"}]
          /\ server'[n] # "fresh"
          /\ \A x \in Tokens : server[x] # "fresh" => server'[x] # "fresh"
      BY <1>2 DEF WebTypeOK
    <2>4. WebTypeOK'
      BY <1>1, <1>2, <2>1, <2>2, <2>3 DEF WebTypeOK
    <2>5. KnownOK'
      BY <1>1, <1>2, <2>2, <2>3 DEF KnownOK, WebTypeOK, Known
    <2>6. PendingOK'
      BY <1>1, <2>1, <2>2, <2>3 DEF PendingOK, WebTypeOK
    <2>7. RestoringOK'
      BY <1>1, <1>2, <2>2 DEF RestoringOK, WebTypeOK
    <2>8. NoSessionReturns'
      BY <2>2 DEF NoSessionReturns
    <2>9. RejectedIsDropped'
      BY <1>1, <1>2, <2>1, <2>2 DEF RejectedIsDropped, KnownOK, WebTypeOK, Known
    <2>10. ScreenMatchesStore'
      BY <1>1, <1>2, <2>1, <2>2 DEF ScreenMatchesStore, WebTypeOK
    <2> QED
      BY <2>4, <2>5, <2>6, <2>7, <2>8, <2>9, <2>10
  <1>3. CASE KeepSession /\ UNCHANGED <<server, access, seen, status>>
    <2>1. WebTypeOK'
      BY <1>1, <1>3 DEF WebTypeOK, KeepSession
    <2>2. (KnownOK /\ PendingOK /\ NoSessionReturns /\ RejectedIsDropped /\ ScreenMatchesStore)'
      BY <1>1, <1>3 DEF KnownOK, PendingOK, NoSessionReturns, RejectedIsDropped,
                        ScreenMatchesStore, Known, KeepSession
    <2>3. RestoringOK'
      BY <1>1, <1>3 DEF RestoringOK, WebTypeOK, Known, KeepSession
    <2> QED
      BY <2>1, <2>2, <2>3
  <1> QED
    BY <1>2, <1>3 DEF LoginAnswered

\* WebInv survives a logout: what the tab held leaves storage before the call is made.
LEMMA LogoutInv ==
    ASSUME WebInv, NEW b \in BrowserTabs, Logout(b)
    PROVE  WebInv'
  <1> USE DEF WebInv
  <1>1. /\ status[b] = "authenticated"
        /\ UNCHANGED <<server, access, refreshed, restore, submitting, rejected, overlapped>>
    BY DEF Logout
  <1>2. /\ storage' = NoSession /\ retired' = Known /\ Known' = Known
        /\ current' = [current EXCEPT ![b] = NoSession]
        /\ Known \subseteq Tokens
    BY ClearSessionFacts DEF Logout
  <1>3. ~overlapped[b] => restore[b].at = "none"
    BY <1>1 DEF RestoringOK
  <1>4. /\ logouts' \in [BrowserTabs -> SUBSET Tokens]
        /\ \A c \in BrowserTabs : c # b => logouts'[c] = logouts[c] /\ status'[c] = status[c] /\ seen'[c] = seen[c]
        /\ status' \in [BrowserTabs -> {"closed", "loading", "authenticated", "unauthenticated"}]
        /\ seen' \in [BrowserTabs -> Tokens \cup {NoSession}]
        /\ seen'[b] \in {seen[b], NoSession}
        /\ status'[b] \in {"authenticated", "unauthenticated"}
        /\ status'[b] = "authenticated" => logouts'[b] # {}
        /\ status'[b] = "authenticated" \/ logouts'[b] = logouts[b]
    BY <1>1, SMTT(30) DEF Logout, WebTypeOK
  <1>5. submitting[b] => overlapped[b]
    BY <1>1 DEF RestoringOK, WebTypeOK
  <1>6. WebTypeOK'
    BY <1>1, <1>2, <1>4 DEF WebTypeOK
  <1>7. KnownOK'
    BY <1>1, <1>2, <1>4 DEF KnownOK, WebTypeOK, Known
  <1>8. PendingOK'
    BY <1>1, <1>2 DEF PendingOK
  <1>9. RestoringOK'
    <2>1. ASSUME NEW c \in BrowserTabs
          PROVE  /\ restore[c].at # "none" =>
                        /\ restore[c].token \in Known \ rejected[c]
                        /\ ~overlapped[c] =>
                               /\ status'[c] = "loading"
                               /\ current'[c] = restore[c].token
                               /\ logouts'[c] = {}
                               /\ ~submitting[c]
                 /\ status'[c] = "loading" => restore[c].at # "none"
                 /\ submitting[c] /\ ~overlapped[c] =>
                        status'[c] = "unauthenticated" /\ logouts'[c] = {}
      <3>1. CASE c = b
        BY <1>1, <1>3, <1>4, <1>5, <3>1 DEF RestoringOK
      <3>2. CASE c # b
        BY <1>2, <1>4, <3>2 DEF RestoringOK, WebTypeOK
      <3> QED
        BY <3>1, <3>2
    <2> QED
      BY <1>1, <1>2, <2>1 DEF RestoringOK
  <1>10. NoSessionReturns'
    BY <1>2, NoSessionAssumption DEF NoSessionReturns
  <1>11. RejectedIsDropped'
    BY <1>1, <1>2, <1>4, NoSessionAssumption DEF RejectedIsDropped, WebTypeOK
  <1>12. ScreenMatchesStore'
    BY <1>1, <1>2, <1>4 DEF ScreenMatchesStore, WebTypeOK
  <1> QED
    BY <1>6, <1>7, <1>8, <1>9, <1>10, <1>11, <1>12

\* WebInv survives the answer of a logout.
LEMMA LogoutAnsweredInv ==
    ASSUME WebInv, NEW b \in BrowserTabs, NEW t \in Tokens, LogoutAnswered(b, t)
    PROVE  WebInv'
  <1> USE DEF WebInv
  <1>1. /\ logouts[b] # {}
        /\ logouts' = [logouts EXCEPT ![b] = @ \ {t}]
        /\ seen' = [seen EXCEPT ![b] = NoSession]
        /\ status' = [status EXCEPT ![b] = "unauthenticated"]
        /\ UNCHANGED <<access, refreshed, storage, current, restore, submitting, past>>
    BY DEF LogoutAnswered
  <1>2. /\ server' \in [Tokens -> {"fresh", "live", "dead"}]
        /\ \A x \in Tokens : server[x] # "fresh" => server'[x] # "fresh"
    BY DEF LogoutAnswered, WebTypeOK
  <1>3. WebTypeOK'
    BY <1>1, <1>2 DEF WebTypeOK, past
  <1>4. KnownOK'
    BY <1>1, <1>2 DEF KnownOK, WebTypeOK, Known, past
  <1>5. PendingOK'
    BY <1>1, <1>2 DEF PendingOK, WebTypeOK, Known, past
  <1>6. RestoringOK'
    BY <1>1 DEF RestoringOK, WebTypeOK, Known, past
  <1>7. NoSessionReturns' /\ RejectedIsDropped'
    BY <1>1, NoSessionAssumption DEF NoSessionReturns, RejectedIsDropped, WebTypeOK, past
  <1>8. ScreenMatchesStore'
    BY <1>1 DEF ScreenMatchesStore, WebTypeOK, past
  <1> QED
    BY <1>3, <1>4, <1>5, <1>6, <1>7, <1>8

\* WebInv survives a stutter.
LEMMA StutterInv == WebInv /\ UNCHANGED webVars => WebInv'
  BY DEF WebInv, WebTypeOK, KnownOK, PendingOK, RestoringOK, NoSessionReturns, RejectedIsDropped,
         ScreenMatchesStore, Known, webVars, web, past

\* WebInv survives every step.
LEMMA StepInv == WebInv /\ [WebNext]_webVars => WebInv'
  <1> SUFFICES ASSUME WebInv, [WebNext]_webVars PROVE WebInv'
    OBVIOUS
  <1>1. ASSUME NEW b \in BrowserTabs, LoadPage(b) PROVE WebInv'
    BY <1>1, LoadInv
  <1>2. ASSUME NEW b \in BrowserTabs, Login(b) PROVE WebInv'
    BY <1>2, LoginInv
  <1>3. ASSUME NEW b \in BrowserTabs, Logout(b) PROVE WebInv'
    BY <1>3, LogoutInv
  <1>4. ASSUME NEW b \in BrowserTabs, MeAnswered(b) PROVE WebInv'
    BY <1>4, MeAnsweredInv
  <1>5. ASSUME NEW b \in BrowserTabs, ServeRefresh(b) PROVE WebInv'
    BY <1>5, ServeRefreshInv
  <1>6. ASSUME NEW b \in BrowserTabs, RefreshAnswered(b) \/ RefreshFails(b) PROVE WebInv'
    BY <1>6, RefreshEndsInv
  <1>7. ASSUME NEW b \in BrowserTabs, LoginAnswered(b) PROVE WebInv'
    BY <1>7, LoginAnsweredInv
  <1>8. ASSUME NEW b \in BrowserTabs, NEW t \in Tokens, LogoutAnswered(b, t) PROVE WebInv'
    BY <1>8, LogoutAnsweredInv
  <1> QED
    BY <1>1, <1>2, <1>3, <1>4, <1>5, <1>6, <1>7, <1>8, StutterInv DEF WebNext, FetchAnswered

-------------------------------------------------------------------------------
(* The theorems.                                                               *)

\* The inductive invariant holds of every behaviour: what storage, memory and screen of
\* every tab hold stays consistent with what services/auth has opened.
THEOREM WebInvariance == WebSpec => []WebInv
  BY InitInv, StepInv, PTL DEF WebSpec

\* A session that storage gave up (logout, rejection, replacement) is never stored again.
THEOREM SessionsNeverReturn == WebSpec => []NoSessionReturns
  <1>1. WebInv => NoSessionReturns
    BY DEF WebInv
  <1> QED
    BY <1>1, WebInvariance, PTL

\* A session whose refresh was rejected is neither stored, nor sent, nor shown.
THEOREM RejectedSessionsAreDropped == WebSpec => []RejectedIsDropped
  <1>1. WebInv => RejectedIsDropped
    BY DEF WebInv
  <1> QED
    BY <1>1, WebInvariance, PTL

\* Without overlapping actions in a tab, the user it shows is the one whose tokens it sends.
THEOREM ScreensMatchStores == WebSpec => []ScreenMatchesStore
  <1>1. WebInv => ScreenMatchesStore
    BY DEF WebInv
  <1> QED
    BY <1>1, WebInvariance, PTL

===============================================================================
