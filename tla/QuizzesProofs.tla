---------------------------- MODULE QuizzesProofs ----------------------------
(***************************************************************************)
(* What Quizzes promises, proved for every set of ids, slugs and requests. *)
(*                                                                         *)
(* The argument has three parts.  The tables: every statement keeps keys   *)
(* and references of the tables together (TablesOK).  Their history: no    *)
(* statement brings an id back, lowers a version or forgets the quiz of a  *)
(* question (TablesMoveOn).  The handlers: what a handler has read may be  *)
(* stale, but only in ways that TablesMoveOn allows (Fits), so a step of   *)
(* one request never has to look at the requests it interleaves with.      *)
(***************************************************************************)
EXTENDS Quizzes, DataLemmas

-------------------------------------------------------------------------------
(* The inductive invariant.                                                    *)

\* AttemptIsWhole, with the table of homes as a parameter.
Whole(a, hs) ==
    LET answered == {a.answers[i].question : i \in DOMAIN a.answers}
    IN  /\ Len(a.answers) = a.total
        /\ a.correct \subseteq DOMAIN a.answers
        /\ a.score = Cardinality(a.correct)
        /\ \A q \in answered : q \in DOMAIN hs /\ hs[q] = a.quiz
        /\ Cardinality(answered) = a.total => answered = a.asked

\* What the state h of a handler says, over the ids used and present, the quizzes zs and the
\* homes hs: the operator has no variables, so that it can be applied to two states.
FitsIds(h, used) ==
    /\ h.at \in {"insertLesson", "deleteLesson"} => h.course \in used
    /\ h.at \in {"edit", "insertQuestion", "checkPatch", "checkDelete", "grade",
                 "patch", "deleteQuestion"} => h.quiz \in used
    /\ h.at = "record" => h.attempt.quiz \in used
FitsEdit(h, used, zs) ==
    h.at = "edit" =>
       /\ {h.row.course, h.row.lesson} \ {NULL} \subseteq used
       /\ h.quiz \in DOMAIN zs => /\ h.row.version <= zs[h.quiz].version
                                  /\ h.row.slug = zs[h.quiz].slug
                                  /\ h.row.version = zs[h.quiz].version => h.row = zs[h.quiz]
FitsHome(h, hs) ==
    /\ h.at \in {"patch", "deleteQuestion"} =>
          h.question \in DOMAIN hs /\ hs[h.question] = h.quiz
    /\ h.at = "record" => Whole(h.attempt, hs)
HandlerFits(h, used, zs, hs) == FitsIds(h, used) /\ FitsEdit(h, used, zs) /\ FitsHome(h, hs)

TablesType ==
    /\ IsTable(courses, CourseIds, CourseSlugs)
    /\ IsTable(lessons, LessonIds, LessonRow)
    /\ IsTable(quizzes, QuizIds, QuizRow)
    /\ IsTable(questions, QuestionIds, QuestionRow)
    /\ attempts \subseteq Attempt
    /\ revisions \subseteq QuizIds \X (1..MaxVersion)
    /\ usedIds \subseteq CourseIds \cup LessonIds \cup QuizIds
    /\ IsTable(home, QuestionIds, QuizIds)
RowsAreHome == \A q \in DOMAIN questions : q \in DOMAIN home /\ questions[q].quiz = home[q]
AttemptsWhole == \A a \in attempts : Whole(a, home)
\* A new quiz has no revisions: they are all of ids that were generated.
HistoryOK == HistoryIsWhole /\ \A k \in revisions : k[1] \in usedIds
TablesOK ==
    /\ TablesType
    /\ Present \subseteq usedIds
    /\ NoOrphans
    /\ NamesAreUnique
    /\ RowsAreHome
    /\ AttemptsWhole
    /\ HistoryOK
HandlersOK ==
    /\ handler \in [Requests -> Handler]
    /\ \A r \in Requests : HandlerFits(handler[r], usedIds, quizzes, home)
IInv == TablesOK /\ HandlersOK

\* What no statement does: bring an id back, lower the version of a quiz, change its slug or
\* change its row under one version, or move a question.
TablesMoveOn ==
    /\ usedIds \subseteq usedIds'
    /\ \A id \in usedIds : id \notin Present => id \notin Present'
    /\ \A z \in DOMAIN quizzes \cap DOMAIN quizzes' :
          /\ quizzes[z].version <= quizzes'[z].version
          /\ quizzes[z].slug = quizzes'[z].slug
          /\ quizzes[z].version = quizzes'[z].version => quizzes[z] = quizzes'[z]
    /\ \A q \in DOMAIN home : q \in DOMAIN home' /\ home'[q] = home[q]

\* What the step of request r makes of its handler fits the tables it leaves behind.
HandlerMoves(r) ==
    \E h \in Handler :
        /\ handler' = [handler EXCEPT ![r] = h]
        /\ HandlerFits(h, usedIds', quizzes', home')

-------------------------------------------------------------------------------
(* The inductive invariant says what the properties say.                       *)

\* The inductive invariant is QuizInv and HistoryIsWhole, regrouped.
LEMMA InvariantMeans == IInv => QuizInv /\ HistoryIsWhole
<1>. SUFFICES ASSUME IInv PROVE QuizInv /\ HistoryIsWhole
  OBVIOUS
<1>. USE DEF IInv
<1>1. TypeOK
  BY DEF TypeOK, TablesOK, TablesType, HandlersOK
<1>2. Present \subseteq usedIds /\ NoOrphans /\ NamesAreUnique
  BY DEF TablesOK
<1>3. QuestionsStayHome
  BY DEF QuestionsStayHome, TablesOK, RowsAreHome, HandlersOK, HandlerFits, FitsHome
<1>4. AttemptsAreWhole
  <2>1. \A a : AttemptIsWhole(a) <=> Whole(a, home)
    BY DEF AttemptIsWhole, Whole
  <2>. QED  BY <2>1 DEF AttemptsAreWhole, At, TablesOK, AttemptsWhole, HandlersOK, HandlerFits, FitsHome
<1>5. ReadsLagBehind
  BY DEF ReadsLagBehind, At, HandlersOK, HandlerFits, FitsIds, FitsEdit
<1>6. HistoryIsWhole
  BY DEF TablesOK, HistoryOK
<1>. QED  BY <1>1, <1>2, <1>3, <1>4, <1>5, <1>6 DEF QuizInv

\* The tables of earlier requests, with every handler idle, satisfy it.
LEMMA InitInvariant == Init => IInv
<1>. SUFFICES ASSUME Init PROVE IInv
  OBVIOUS
<1>1. IsTable(courses, CourseIds, CourseSlugs) /\ IsTable(lessons, LessonIds, LessonRow)
  BY DEF Init, IsTable
<1>2. IsTable(quizzes, QuizIds, QuizRow)
  BY DEF Init, IsTable
<1>3. IsTable(questions, QuestionIds, QuestionRow)
  BY DEF Init, IsTable
<1>4. RowsAreHome /\ DOMAIN home = DOMAIN questions
  BY DEF Init, RowsAreHome
<1>5. IsTable(home, QuestionIds, QuizIds)
  <2>1. \A q \in DOMAIN questions : q \in QuestionIds /\ questions[q].quiz \in QuizIds
    BY <1>3 DEF IsTable, QuestionRow
  <2>. QED  BY <2>1 DEF Init, IsTable
<1>6. TablesType
  BY <1>1, <1>2, <1>3, <1>5 DEF TablesType, Init, Present, IsTable
<1>r. HistoryOK
  BY DEF Init, HistoryOK, HistoryIsWhole
<1>7. TablesOK
  BY <1>4, <1>6, <1>r DEF TablesOK, Init, AttemptsWhole
<1>8. HandlersOK
  BY DEF HandlersOK, Init, Handler, Replied, HandlerFits, FitsIds, FitsEdit, FitsHome
<1>. QED  BY <1>7, <1>8 DEF IInv

-------------------------------------------------------------------------------
(* Handlers that do not move.                                                  *)

\* A quiz that was generated and is gone does not come back.
LEMMA GoneQuizzesStayGone ==
    ASSUME TablesType, TablesType', TablesMoveOn, NEW z \in QuizIds, z \in usedIds,
           z \notin DOMAIN quizzes
    PROVE  z \notin DOMAIN quizzes'
  BY IdsAssumption DEF TablesType, TablesMoveOn, Present, IsTable

\* Whatever a handler knows of the tables stays true of it while others move them on.
LEMMA OthersStillFit ==
    ASSUME TablesOK, TablesType', TablesMoveOn, NEW h \in Handler,
           HandlerFits(h, usedIds, quizzes, home)
    PROVE  HandlerFits(h, usedIds', quizzes', home')
<1>. USE DEF HandlerFits
<1>t. TablesType /\ Present \subseteq usedIds
  BY DEF TablesOK
<1>1. FitsIds(h, usedIds')
  BY DEF FitsIds, TablesMoveOn
<1>2. FitsEdit(h, usedIds', quizzes')
  <2>. SUFFICES ASSUME h.at = "edit"
                PROVE  /\ {h.row.course, h.row.lesson} \ {NULL} \subseteq usedIds'
                       /\ h.quiz \in DOMAIN quizzes' =>
                             /\ h.row.version <= quizzes'[h.quiz].version
                             /\ h.row.slug = quizzes'[h.quiz].slug
                             /\ h.row.version = quizzes'[h.quiz].version =>
                                   h.row = quizzes'[h.quiz]
    BY DEF FitsEdit
  <2>1. h.quiz \in QuizIds /\ h.row.version \in Int /\ h.quiz \in usedIds
    BY DEF Handler, Replied, QuizRow, FitsIds
  <2>2. {h.row.course, h.row.lesson} \ {NULL} \subseteq usedIds'
    BY DEF FitsEdit, TablesMoveOn
  <2>3. ASSUME h.quiz \in DOMAIN quizzes'
        PROVE  /\ h.row.version <= quizzes'[h.quiz].version
               /\ h.row.slug = quizzes'[h.quiz].slug
               /\ h.row.version = quizzes'[h.quiz].version => h.row = quizzes'[h.quiz]
    <3>1. h.quiz \in DOMAIN quizzes
      BY <1>t, <2>1, <2>3, GoneQuizzesStayGone
    <3>2. quizzes[h.quiz].version \in Int /\ quizzes'[h.quiz].version \in Int
      BY <1>t, <2>3, <3>1 DEF TablesType, IsTable, QuizRow
    <3>3. /\ h.row.version <= quizzes[h.quiz].version /\ h.row.slug = quizzes[h.quiz].slug
          /\ h.row.version = quizzes[h.quiz].version => h.row = quizzes[h.quiz]
      BY <3>1 DEF FitsEdit
    <3>4. /\ quizzes[h.quiz].version <= quizzes'[h.quiz].version
          /\ quizzes[h.quiz].slug = quizzes'[h.quiz].slug
          /\ quizzes[h.quiz].version = quizzes'[h.quiz].version => quizzes[h.quiz] = quizzes'[h.quiz]
      BY <2>3, <3>1 DEF TablesMoveOn
    <3>. QED  BY <2>1, <3>2, <3>3, <3>4
  <2>. QED  BY <2>2, <2>3
<1>3. FitsHome(h, home')
  <2>1. \A a : Whole(a, home) => Whole(a, home')
    BY DEF Whole, TablesMoveOn
  <2>. QED  BY <2>1 DEF FitsHome, TablesMoveOn
<1>. QED  BY <1>1, <1>2, <1>3

\* A step of one request keeps what is known of all of them.
LEMMA OneHandlerMoves ==
    ASSUME IInv, TablesOK', TablesMoveOn, NEW r \in Requests, HandlerMoves(r)
    PROVE  IInv'
<1>1. PICK h \in Handler : /\ handler' = [handler EXCEPT ![r] = h]
                           /\ HandlerFits(h, usedIds', quizzes', home')
  BY DEF HandlerMoves
<1>2. handler' \in [Requests -> Handler]
  BY <1>1 DEF IInv, HandlersOK
<1>3. ASSUME NEW s \in Requests
      PROVE  HandlerFits(handler'[s], usedIds', quizzes', home')
  <2>1. CASE s = r
    BY <1>1, <2>1 DEF IInv, HandlersOK
  <2>2. CASE s # r
    <3>1. handler'[s] = handler[s] /\ handler[s] \in Handler
      BY <1>1, <2>2 DEF IInv, HandlersOK
    <3>2. HandlerFits(handler[s], usedIds, quizzes, home)
      BY DEF IInv, HandlersOK
    <3>3. TablesOK /\ TablesType'
      BY DEF IInv, TablesOK
    <3>4. HandlerFits(handler[s], usedIds', quizzes', home')
      BY <3>1, <3>2, <3>3, OthersStillFit
    <3>. QED  BY <3>1, <3>4
  <2>. QED  BY <2>1, <2>2
<1>. QED  BY <1>2, <1>3 DEF IInv, HandlersOK

\* So does a step that only moves the tables.
LEMMA NoHandlerMoves ==
    ASSUME IInv, TablesOK', TablesMoveOn, UNCHANGED handler
    PROVE  IInv'
<1>1. TablesOK /\ TablesType'
  BY DEF IInv, TablesOK
<1>2. ASSUME NEW s \in Requests
      PROVE  HandlerFits(handler'[s], usedIds', quizzes', home')
  <2>1. HandlerFits(handler[s], usedIds, quizzes, home) /\ handler[s] \in Handler
    BY DEF IInv, HandlersOK
  <2>2. HandlerFits(handler[s], usedIds', quizzes', home')
    BY <1>1, <2>1, OthersStillFit
  <2>. QED  BY <2>2
<1>. QED  BY <1>2 DEF IInv, HandlersOK

\* A step that adds no revision and changes no quiz leaves their history as it is.
LEMMA HistoryStays ==
    ASSUME HistoryOK, UNCHANGED revisions, usedIds \subseteq usedIds',
           \A z \in DOMAIN quizzes' : z \in DOMAIN quizzes /\ quizzes'[z] = quizzes[z]
    PROVE  HistoryOK'
  BY DEF HistoryOK, HistoryIsWhole

-------------------------------------------------------------------------------
(* Statements that write no table, and the replies of handlers.                *)

\* A step that leaves the tables alone keeps them together.
LEMMA TablesStay ==
    ASSUME TablesOK, UNCHANGED tables
    PROVE  TablesOK' /\ TablesMoveOn
<1>1. TablesMoveOn
  <2>1. \A z \in DOMAIN quizzes : quizzes[z].version <= quizzes[z].version
    BY BoundsAssumption DEF TablesOK, TablesType, IsTable, QuizRow
  <2>. QED  BY <2>1 DEF TablesMoveOn, tables, Present
<1>2. HistoryOK'
  BY HistoryStays DEF TablesOK, tables
<1>3. TablesOK'
  BY <1>2 DEF TablesOK, TablesType, tables, Present, NoOrphans, Exists, NamesAreUnique, RowsAreHome,
              AttemptsWhole
<1>. QED  BY <1>1, <1>3

\* The parents of a quiz, when a row may name none: the ids of the tables are disjoint.
LEMMA ParentsExist ==
    ASSUME TablesType, NEW c \in CourseIds \cup {NULL}, NEW l \in LessonIds \cup {NULL}
    PROVE  Exists({c, l}) <=> /\ c = NULL \/ c \in DOMAIN courses
                              /\ l = NULL \/ l \in DOMAIN lessons
  BY IdsAssumption, NullAssumption DEF Exists, Present, TablesType, IsTable

\* The same of the tables after a step.
LEMMA ParentsExistAfter ==
    ASSUME TablesType', NEW c \in CourseIds \cup {NULL}, NEW l \in LessonIds \cup {NULL}
    PROVE  Exists({c, l})' <=> /\ c = NULL \/ c \in DOMAIN courses'
                               /\ l = NULL \/ l \in DOMAIN lessons'
  BY IdsAssumption, NullAssumption DEF Exists, Present, TablesType, IsTable

\* A reply ends a handler: it says nothing of the tables.
LEMMA ReplyMoves ==
    ASSUME NEW r \in Requests, NEW class \in {"ok", "rejected", "error"}, Reply(r, class)
    PROVE  HandlerMoves(r)
<1>. DEFINE h == [at |-> class]
<1>1. h \in Handler
  BY DEF Handler, Replied
<1>2. HandlerFits(h, usedIds', quizzes', home')
  BY DEF HandlerFits, FitsIds, FitsEdit, FitsHome
<1>. QED  BY <1>1, <1>2 DEF HandlerMoves, Reply, Become

-------------------------------------------------------------------------------
(* Deleted rows.                                                               *)

\* What a delete leaves of every table: some of its rows, as they were.
LEMMA DeleteKeeps ==
    ASSUME NEW cs, NEW ls, NEW zs \in SUBSET DOMAIN quizzes, Delete(cs, ls, zs)
    PROVE  /\ DOMAIN courses' = DOMAIN courses \ cs
           /\ \A c \in DOMAIN courses' : courses'[c] = courses[c]
           /\ DOMAIN lessons' \subseteq DOMAIN lessons
           /\ \A l \in DOMAIN lessons' : /\ lessons'[l] = lessons[l]
                                         /\ lessons[l].course \notin cs
           /\ DOMAIN quizzes' \subseteq DOMAIN quizzes
           /\ \A z \in DOMAIN quizzes' : /\ quizzes'[z] = quizzes[z]
                                         /\ quizzes[z].course \notin cs
                                         /\ quizzes[z].lesson \notin DOMAIN lessons \ DOMAIN lessons'
           /\ DOMAIN questions' = {q \in DOMAIN questions :
                                      questions[q].quiz \notin DOMAIN quizzes \ DOMAIN quizzes'}
           /\ \A q \in DOMAIN questions' : questions'[q] = questions[q]
           /\ attempts' = {a \in attempts : a.quiz \notin DOMAIN quizzes \ DOMAIN quizzes'}
           /\ usedIds' = usedIds /\ home' = home /\ revisions' = revisions
<1>. DEFINE lessonsToo == ls \cup {l \in DOMAIN lessons : lessons[l].course \in cs}
            quizzesToo == zs \cup {z \in DOMAIN quizzes : \/ quizzes[z].course \in cs
                                                          \/ quizzes[z].lesson \in lessonsToo}
            gone       == UNION {QuestionsOf(z) : z \in quizzesToo}
<1>1. /\ courses' = Drop(courses, cs)
      /\ lessons' = Drop(lessons, lessonsToo)
      /\ quizzes' = Drop(quizzes, quizzesToo)
      /\ questions' = Drop(questions, gone)
      /\ attempts' = {a \in attempts : a.quiz \notin quizzesToo}
      /\ usedIds' = usedIds /\ home' = home /\ revisions' = revisions
  BY DEF Delete
<1>2. /\ DOMAIN courses' = DOMAIN courses \ cs
      /\ \A c \in DOMAIN courses' : courses'[c] = courses[c]
  BY <1>1 DEF Drop
<1>3. /\ DOMAIN lessons' = DOMAIN lessons \ lessonsToo
      /\ \A l \in DOMAIN lessons' : lessons'[l] = lessons[l]
  BY <1>1 DEF Drop
<1>4. /\ DOMAIN quizzes' = DOMAIN quizzes \ quizzesToo
      /\ \A z \in DOMAIN quizzes' : quizzes'[z] = quizzes[z]
  BY <1>1 DEF Drop
<1>5. /\ DOMAIN questions' = DOMAIN questions \ gone
      /\ \A q \in DOMAIN questions' : questions'[q] = questions[q]
  BY <1>1 DEF Drop
<1>6. \A l \in DOMAIN lessons' : lessons[l].course \notin cs
  BY <1>3
<1>7. quizzesToo = DOMAIN quizzes \ DOMAIN quizzes'
  BY <1>4
<1>8. \A z \in DOMAIN quizzes' : /\ quizzes[z].course \notin cs
                                /\ quizzes[z].lesson \notin DOMAIN lessons \ DOMAIN lessons'
  BY <1>3, <1>4
<1>9. DOMAIN questions' = {q \in DOMAIN questions :
                              questions[q].quiz \notin DOMAIN quizzes \ DOMAIN quizzes'}
  <2>1. \A q \in DOMAIN questions : q \in gone <=> questions[q].quiz \in quizzesToo
    BY DEF QuestionsOf
  <2>. QED  BY <2>1, <1>5, <1>7
<1>10. attempts' = {a \in attempts : a.quiz \notin DOMAIN quizzes \ DOMAIN quizzes'}
  BY <1>1, <1>7
<1>11. DOMAIN quizzes' \subseteq DOMAIN quizzes
  BY <1>4
<1>. HIDE DEF lessonsToo, quizzesToo, gone
<1>. QED  BY <1>1, <1>2, <1>3, <1>4, <1>5, <1>6, <1>8, <1>9, <1>10, <1>11

\* The cascades of the foreign keys leave no orphan, whatever is deleted.
LEMMA DeleteMoves ==
    ASSUME TablesOK, NEW cs, NEW ls, NEW zs \in SUBSET DOMAIN quizzes, Delete(cs, ls, zs)
    PROVE  TablesOK' /\ TablesMoveOn
<1>t. TablesType /\ Present \subseteq usedIds /\ NoOrphans
  BY DEF TablesOK
<1>k. /\ DOMAIN courses' \subseteq DOMAIN courses
      /\ \A c \in DOMAIN courses' : courses'[c] = courses[c]
      /\ DOMAIN lessons' \subseteq DOMAIN lessons
      /\ \A l \in DOMAIN lessons' : lessons'[l] = lessons[l]
      /\ DOMAIN quizzes' \subseteq DOMAIN quizzes
      /\ \A z \in DOMAIN quizzes' : quizzes'[z] = quizzes[z]
      /\ DOMAIN questions' \subseteq DOMAIN questions
      /\ \A q \in DOMAIN questions' : questions'[q] = questions[q]
      /\ attempts' \subseteq attempts
      /\ usedIds' = usedIds /\ home' = home /\ revisions' = revisions
  BY DeleteKeeps
<1>c. DOMAIN courses' = DOMAIN courses \ cs
  BY DeleteKeeps
<1>d. \A l \in DOMAIN lessons' : lessons[l].course \notin cs
  BY DeleteKeeps
<1>e. \A z \in DOMAIN quizzes' : quizzes[z].course \notin cs
  BY DeleteKeeps
<1>f. /\ Drop(courses, cs) = courses'
      /\ \E D : Drop(lessons, D) = lessons'
      /\ \E D : Drop(quizzes, D) = quizzes'
      /\ \E D : Drop(questions, D) = questions'
  BY DEF Delete
<1>1. TablesType'
  <2>1. IsTable(courses, CourseIds, CourseSlugs)' /\ IsTable(lessons, LessonIds, LessonRow)'
    BY <1>t, <1>f, DropType DEF TablesType
  <2>2. IsTable(quizzes, QuizIds, QuizRow)' /\ IsTable(questions, QuestionIds, QuestionRow)'
    BY <1>t, <1>f, DropType DEF TablesType
  <2>. QED  BY <1>t, <1>k, <2>1, <2>2 DEF TablesType
<1>2. Present' \subseteq Present
  BY <1>k DEF Present
<1>3. NoOrphans'
  <2>1. \A l \in DOMAIN lessons' : lessons'[l].course \in DOMAIN courses'
    BY <1>t, <1>k, <1>c, <1>d DEF NoOrphans
  <2>2. ASSUME NEW z \in DOMAIN quizzes'
        PROVE  Exists({quizzes[z].course, quizzes[z].lesson})'
    <3>. DEFINE c == quizzes[z].course  l == quizzes[z].lesson
    <3>1. c \in CourseIds \cup {NULL} /\ l \in LessonIds \cup {NULL} /\ z \in DOMAIN quizzes
      BY <1>t, <1>k DEF TablesType, IsTable, QuizRow
    <3>2. Exists({c, l})
      BY <1>t, <3>1 DEF NoOrphans
    <3>3. c = NULL \/ c \in DOMAIN courses
      BY <1>t, <3>1, <3>2, ParentsExist
    <3>4. l = NULL \/ l \in DOMAIN lessons
      BY <1>t, <3>1, <3>2, ParentsExist
    <3>5. c = NULL \/ c \in DOMAIN courses'
      BY <3>3, <1>c, <1>e
    <3>6. l = NULL \/ l \in DOMAIN lessons'
      BY <3>4, DeleteKeeps
    <3>7. quizzes'[z].course = c /\ quizzes'[z].lesson = l
      BY <1>k
    <3>. HIDE DEF c, l
    <3>. QED  BY <1>1, <3>1, <3>5, <3>6, <3>7, ParentsExistAfter DEF Exists, Present
  <2>3. \A q \in DOMAIN questions' : questions'[q].quiz \in DOMAIN quizzes'
    BY <1>t, DeleteKeeps DEF NoOrphans
  <2>4. \A a \in attempts' : a.quiz \in DOMAIN quizzes'
    BY <1>t, DeleteKeeps DEF NoOrphans
  <2>. QED  BY <1>k, <2>1, <2>2, <2>3, <2>4 DEF NoOrphans
<1>4. NamesAreUnique'
  BY <1>k DEF NamesAreUnique, TablesOK
<1>5. RowsAreHome' /\ AttemptsWhole'
  BY <1>k DEF RowsAreHome, AttemptsWhole, TablesOK
<1>6. TablesMoveOn
  <2>1. \A z \in DOMAIN quizzes' : quizzes[z].version \in Int
    BY <1>t, <1>k DEF TablesType, IsTable, QuizRow
  <2>. QED  BY <2>1, <1>k, <1>2 DEF TablesMoveOn
<1>7. HistoryOK'
  BY <1>k, HistoryStays DEF TablesOK
<1>. QED  BY <1>k, <1>t, <1>1, <1>2, <1>3, <1>4, <1>5, <1>6, <1>7 DEF TablesOK

-------------------------------------------------------------------------------
(* Written rows.                                                               *)

\* A course of a new id and slug.
LEMMA CreateCourseMoves == TablesOK /\ CreateCourse => TablesOK' /\ TablesMoveOn
<1>. SUFFICES ASSUME TablesOK, CreateCourse PROVE TablesOK' /\ TablesMoveOn
  OBVIOUS
<1>1. PICK c \in CourseIds \ usedIds, slug \in CourseSlugs :
         /\ \A other \in DOMAIN courses : courses[other] # slug
         /\ courses' = Put(courses, c, slug)
         /\ usedIds' = usedIds \cup {c}
         /\ UNCHANGED <<lessons, quizzes, questions, attempts, revisions, home, handler>>
  BY DEF CreateCourse
<1>t. TablesType /\ Present \subseteq usedIds
  BY DEF TablesOK
<1>2. /\ DOMAIN courses' = DOMAIN courses \cup {c}
      /\ \A x \in DOMAIN courses' : courses'[x] = IF x = c THEN slug ELSE courses[x]
  BY <1>1 DEF Put
<1>3. TablesType'
  BY <1>1, <1>t, PutType DEF TablesType
<1>4. Present' = Present \cup {c}
  BY <1>1, <1>2 DEF Present
<1>5. NoOrphans'
  BY <1>1, <1>2, <1>4 DEF TablesOK, NoOrphans, Exists
<1>6. NamesAreUnique'
  BY <1>1, <1>2 DEF TablesOK, NamesAreUnique
<1>7. RowsAreHome' /\ AttemptsWhole'
  BY <1>1 DEF TablesOK, RowsAreHome, AttemptsWhole
<1>8. TablesMoveOn
  <2>1. \A z \in DOMAIN quizzes : quizzes[z].version \in Int
    BY <1>t DEF TablesType, IsTable, QuizRow
  <2>. QED  BY <2>1, <1>1, <1>4 DEF TablesMoveOn
<1>h. HistoryOK'
  BY <1>1, HistoryStays DEF TablesOK
<1>. QED  BY <1>1, <1>t, <1>3, <1>4, <1>5, <1>6, <1>7, <1>8, <1>h DEF TablesOK

\* A lesson of a new id, in a course that exists.
LEMMA PutLessonMoves ==
    ASSUME TablesOK, NEW c \in DOMAIN courses, NEW slug \in LessonSlugs,
           NEW l \in LessonIds \ usedIds,
           \A k \in DOMAIN lessons : lessons[k] # [course |-> c, slug |-> slug],
           lessons' = Put(lessons, l, [course |-> c, slug |-> slug]),
           usedIds' = usedIds \cup {l},
           UNCHANGED <<courses, quizzes, questions, attempts, revisions, home>>
    PROVE  TablesOK' /\ TablesMoveOn
<1>. DEFINE row == [course |-> c, slug |-> slug]
<1>t. TablesType /\ Present \subseteq usedIds
  BY DEF TablesOK
<1>2. /\ DOMAIN lessons' = DOMAIN lessons \cup {l}
      /\ \A x \in DOMAIN lessons' : lessons'[x] = IF x = l THEN row ELSE lessons[x]
  BY DEF Put
<1>3. TablesType'
  <2>1. row \in LessonRow
    BY <1>t DEF TablesType, IsTable, LessonRow
  <2>. QED  BY <1>t, <2>1, PutType DEF TablesType
<1>4. Present' = Present \cup {l}
  BY <1>2 DEF Present
<1>5. NoOrphans'
  <2>1. row.course = c
    OBVIOUS
  <2>. HIDE DEF row
  <2>. QED  BY <2>1, <1>2, <1>4 DEF TablesOK, NoOrphans, Exists
<1>6. NamesAreUnique'
  BY <1>2 DEF TablesOK, NamesAreUnique
<1>7. RowsAreHome' /\ AttemptsWhole'
  BY DEF TablesOK, RowsAreHome, AttemptsWhole
<1>8. TablesMoveOn
  <2>1. \A z \in DOMAIN quizzes : quizzes[z].version \in Int
    BY <1>t DEF TablesType, IsTable, QuizRow
  <2>. QED  BY <2>1, <1>4 DEF TablesMoveOn
<1>h. HistoryOK'
  BY HistoryStays DEF TablesOK
<1>. QED  BY <1>t, <1>3, <1>4, <1>5, <1>6, <1>7, <1>8, <1>h DEF TablesOK

\* A quiz of a new id and slug, whose parents exist.
LEMMA PutQuizMoves ==
    ASSUME TablesOK, NEW c \in CourseIds \cup {NULL}, NEW l \in LessonIds \cup {NULL},
           NEW slug \in QuizSlugs, NEW z \in QuizIds \ usedIds,
           \A y \in DOMAIN quizzes : quizzes[y].slug # slug,
           Exists({c, l}),
           quizzes' = Put(quizzes, z, [slug |-> slug, course |-> c, lesson |-> l, version |-> 1]),
           usedIds' = usedIds \cup {z},
           UNCHANGED <<courses, lessons, questions, attempts, revisions, home>>
    PROVE  TablesOK' /\ TablesMoveOn
<1>. DEFINE row == [slug |-> slug, course |-> c, lesson |-> l, version |-> 1]
<1>t. TablesType /\ Present \subseteq usedIds
  BY DEF TablesOK
<1>r. row.course = c /\ row.lesson = l /\ row.slug = slug /\ row \in QuizRow
  BY BoundsAssumption DEF QuizRow
<1>. HIDE DEF row
<1>2. /\ DOMAIN quizzes' = DOMAIN quizzes \cup {z}
      /\ \A x \in DOMAIN quizzes' : quizzes'[x] = IF x = z THEN row ELSE quizzes[x]
  BY DEF Put, row
<1>n. z \notin DOMAIN quizzes
  BY <1>t DEF Present
<1>3. TablesType'
  BY <1>t, <1>r, PutType DEF TablesType, row
<1>4. Present' = Present \cup {z}
  BY <1>2 DEF Present
<1>5. NoOrphans'
  BY <1>r, <1>2, <1>4 DEF TablesOK, NoOrphans, Exists
<1>6. NamesAreUnique'
  BY <1>r, <1>2 DEF TablesOK, NamesAreUnique
<1>7. RowsAreHome' /\ AttemptsWhole'
  BY DEF TablesOK, RowsAreHome, AttemptsWhole
<1>8. TablesMoveOn
  <2>1. \A y \in DOMAIN quizzes : quizzes[y].version \in Int
    BY <1>t DEF TablesType, IsTable, QuizRow
  <2>. QED  BY <2>1, <1>n, <1>2, <1>4 DEF TablesMoveOn
<1>h. HistoryOK'
  <2>1. \A v : <<z, v>> \notin revisions
    BY DEF TablesOK, HistoryOK
  <2>2. row.version = 1
    BY DEF row
  <2>. QED  BY <2>1, <2>2, <1>2 DEF TablesOK, HistoryOK, HistoryIsWhole
<1>. QED  BY <1>t, <1>3, <1>4, <1>5, <1>6, <1>7, <1>8, <1>h DEF TablesOK

\* A revision of a quiz: the same slug, the next version, parents that exist.
LEMMA EditedQuizMoves ==
    ASSUME TablesOK, NEW z \in DOMAIN quizzes, NEW row \in QuizRow,
           row.slug = quizzes[z].slug, row.version = quizzes[z].version + 1,
           Exists({row.course, row.lesson}),
           quizzes' = Put(quizzes, z, row),
           revisions' = revisions \cup {<<z, quizzes[z].version>>},
           UNCHANGED <<courses, lessons, questions, attempts, usedIds, home>>
    PROVE  TablesOK' /\ TablesMoveOn
<1>t. TablesType /\ Present \subseteq usedIds
  BY DEF TablesOK
<1>2. /\ DOMAIN quizzes' = DOMAIN quizzes
      /\ \A x \in DOMAIN quizzes' : quizzes'[x] = IF x = z THEN row ELSE quizzes[x]
  BY DEF Put
<1>z. z \in QuizIds /\ z \in usedIds /\ quizzes[z].version \in 1..MaxVersion
  BY <1>t DEF TablesType, IsTable, QuizRow, Present
<1>3. TablesType'
  <2>1. IsTable(quizzes, QuizIds, QuizRow)'
    BY <1>t, <1>z, PutType DEF TablesType
  <2>2. revisions' \subseteq QuizIds \X (1..MaxVersion)
    BY <1>t, <1>z DEF TablesType
  <2>. QED  BY <1>t, <2>1, <2>2 DEF TablesType, IsTable
<1>4. Present' = Present
  BY <1>2 DEF Present
<1>5. NoOrphans'
  BY <1>2, <1>4 DEF TablesOK, NoOrphans, Exists
<1>6. NamesAreUnique'
  BY <1>2 DEF TablesOK, NamesAreUnique
<1>7. RowsAreHome' /\ AttemptsWhole'
  BY DEF TablesOK, RowsAreHome, AttemptsWhole
<1>8. TablesMoveOn
  <2>1. \A y \in DOMAIN quizzes : quizzes[y].version \in Int
    BY <1>t DEF TablesType, IsTable, QuizRow
  <2>. QED  BY <2>1, <1>2, <1>4 DEF TablesMoveOn
<1>h. HistoryOK'
  <2>1. ASSUME NEW y \in DOMAIN quizzes', NEW v \in 1..MaxVersion
        PROVE  <<y, v>> \in revisions' <=> v < quizzes'[y].version
    <3>1. y \in DOMAIN quizzes /\ (<<y, v>> \in revisions <=> v < quizzes[y].version)
      BY <1>2 DEF TablesOK, HistoryOK, HistoryIsWhole
    <3>2. CASE y # z
      BY <1>2, <3>1, <3>2
    <3>3. CASE y = z
      BY <1>2, <1>z, <3>1, <3>3, BoundsAssumption
    <3>. QED  BY <3>2, <3>3
  <2>2. \A k \in revisions' : k[1] \in usedIds'
    BY <1>z DEF TablesOK, HistoryOK
  <2>. QED  BY <2>1, <2>2 DEF HistoryOK, HistoryIsWhole
<1>. QED  BY <1>t, <1>3, <1>4, <1>5, <1>6, <1>7, <1>8, <1>h DEF TablesOK

\* A revision of a quiz that is gone: its transaction updates no row.
LEMMA GoneQuizMoves ==
    ASSUME TablesOK, NEW z \in QuizIds, z \in usedIds, z \notin DOMAIN quizzes,
           NEW v \in 1..MaxVersion, revisions' = revisions \cup {<<z, v>>},
           UNCHANGED <<courses, lessons, quizzes, questions, attempts, usedIds, home>>
    PROVE  TablesOK' /\ TablesMoveOn
<1>t. TablesType /\ Present \subseteq usedIds
  BY DEF TablesOK
<1>1. TablesType'
  <2>1. revisions' \subseteq QuizIds \X (1..MaxVersion)
    BY <1>t DEF TablesType
  <2>. QED  BY <1>t, <2>1 DEF TablesType, IsTable
<1>2. Present' = Present
  BY DEF Present
<1>3. NoOrphans'
  BY <1>2 DEF TablesOK, NoOrphans, Exists
<1>4. NamesAreUnique' /\ RowsAreHome' /\ AttemptsWhole'
  BY DEF TablesOK, NamesAreUnique, RowsAreHome, AttemptsWhole
<1>5. TablesMoveOn
  <2>1. \A y \in DOMAIN quizzes : quizzes[y].version \in Int
    BY <1>t DEF TablesType, IsTable, QuizRow
  <2>. QED  BY <2>1, <1>2 DEF TablesMoveOn
<1>6. HistoryOK'
  BY DEF TablesOK, HistoryOK, HistoryIsWhole
<1>. QED  BY <1>t, <1>1, <1>2, <1>3, <1>4, <1>5, <1>6 DEF TablesOK

\* What a step that leaves courses, lessons and quizzes alone need not show.
LEMMA QuestionStepMoves ==
    ASSUME TablesOK, UNCHANGED <<courses, lessons, quizzes, attempts, revisions, usedIds>>,
           IsTable(questions, QuestionIds, QuestionRow)', IsTable(home, QuestionIds, QuizIds)',
           \A q \in DOMAIN questions' : questions'[q].quiz \in DOMAIN quizzes,
           \A q, o \in DOMAIN questions' :
              questions'[q].quiz = questions'[o].quiz /\ questions'[q].position = questions'[o].position
                 => q = o,
           RowsAreHome',
           \A q \in DOMAIN home : q \in DOMAIN home' /\ home'[q] = home[q]
    PROVE  TablesOK' /\ TablesMoveOn
<1>t. TablesType /\ Present \subseteq usedIds
  BY DEF TablesOK
<1>1. TablesType'
  BY <1>t DEF TablesType, IsTable
<1>2. Present' = Present
  BY DEF Present
<1>3. NoOrphans'
  BY <1>2 DEF TablesOK, NoOrphans, Exists
<1>4. NamesAreUnique'
  BY DEF TablesOK, NamesAreUnique
<1>5. AttemptsWhole'
  <2>1. \A a : Whole(a, home) => Whole(a, home')
    BY DEF Whole
  <2>. QED  BY <2>1 DEF TablesOK, AttemptsWhole
<1>6. TablesMoveOn
  <2>1. \A z \in DOMAIN quizzes : quizzes[z].version \in Int
    BY <1>t DEF TablesType, IsTable, QuizRow
  <2>. QED  BY <2>1, <1>2 DEF TablesMoveOn
<1>h. HistoryOK'
  BY HistoryStays DEF TablesOK
<1>. QED  BY <1>t, <1>1, <1>2, <1>3, <1>4, <1>5, <1>6, <1>h DEF TablesOK

\* A question of a new id, at a free position of a quiz that exists.
LEMMA PutQuestionMoves ==
    ASSUME TablesOK, NEW z \in DOMAIN quizzes, NEW p \in Positions, NEW n \in OptionCounts,
           NEW k \in OptionIndices, NEW q \in QuestionIds \ DOMAIN home,
           ~ Taken(z, p, NULL),
           questions' = Put(questions, q, [quiz |-> z, position |-> p, options |-> n, key |-> k]),
           home' = Put(home, q, z),
           UNCHANGED <<courses, lessons, quizzes, attempts, revisions, usedIds>>
    PROVE  TablesOK' /\ TablesMoveOn
<1>. DEFINE row == [quiz |-> z, position |-> p, options |-> n, key |-> k]
<1>t. TablesType
  BY DEF TablesOK
<1>r. row \in QuestionRow /\ row.quiz = z /\ row.position = p /\ z \in QuizIds
  BY <1>t DEF TablesType, IsTable, QuestionRow
<1>. HIDE DEF row
<1>2. /\ DOMAIN questions' = DOMAIN questions \cup {q}
      /\ \A x \in DOMAIN questions' : questions'[x] = IF x = q THEN row ELSE questions[x]
      /\ DOMAIN home' = DOMAIN home \cup {q}
      /\ \A x \in DOMAIN home' : home'[x] = IF x = q THEN z ELSE home[x]
  BY DEF Put, row
<1>n. \A o \in DOMAIN questions : o # q /\ ~ (questions[o].quiz = z /\ questions[o].position = p)
  BY <1>t, NullAssumption DEF Taken, QuestionsOf, TablesOK, RowsAreHome, TablesType, IsTable
<1>3. IsTable(questions, QuestionIds, QuestionRow)'
  BY <1>t, <1>r, PutType DEF TablesType, row
<1>4. IsTable(home, QuestionIds, QuizIds)'
  BY <1>t, <1>r, PutType DEF TablesType
<1>5. \A x \in DOMAIN questions' : questions'[x].quiz \in DOMAIN quizzes
  BY <1>r, <1>2 DEF TablesOK, NoOrphans
<1>6. ASSUME NEW x \in DOMAIN questions', NEW o \in DOMAIN questions',
             questions'[x].quiz = questions'[o].quiz, questions'[x].position = questions'[o].position
      PROVE  x = o
  BY <1>r, <1>2, <1>n, <1>6 DEF TablesOK, NamesAreUnique
<1>7. RowsAreHome'
  BY <1>r, <1>2 DEF TablesOK, RowsAreHome
<1>8. \A x \in DOMAIN home : x \in DOMAIN home' /\ home'[x] = home[x]
  BY <1>2
<1>. QED  BY <1>3, <1>4, <1>5, <1>6, <1>7, <1>8, QuestionStepMoves

\* A patch of a question that moves it to no position in use.
LEMMA PatchedQuestionMoves ==
    ASSUME TablesOK, NEW q \in DOMAIN questions, NEW row \in QuestionRow,
           row.quiz = questions[q].quiz, ~ Taken(row.quiz, row.position, q),
           questions' = Put(questions, q, row),
           UNCHANGED <<courses, lessons, quizzes, attempts, revisions, usedIds, home>>
    PROVE  TablesOK' /\ TablesMoveOn
<1>t. TablesType
  BY DEF TablesOK
<1>2. /\ DOMAIN questions' = DOMAIN questions
      /\ \A x \in DOMAIN questions' : questions'[x] = IF x = q THEN row ELSE questions[x]
  BY DEF Put
<1>n. \A o \in DOMAIN questions :
         o # q => ~ (questions[o].quiz = row.quiz /\ questions[o].position = row.position)
  BY DEF Taken, QuestionsOf
<1>3. IsTable(questions, QuestionIds, QuestionRow)' /\ IsTable(home, QuestionIds, QuizIds)'
  BY <1>t, PutType DEF TablesType, IsTable
<1>5. \A x \in DOMAIN questions' : questions'[x].quiz \in DOMAIN quizzes
  BY <1>2 DEF TablesOK, NoOrphans
<1>6. ASSUME NEW x \in DOMAIN questions', NEW o \in DOMAIN questions',
             questions'[x].quiz = questions'[o].quiz, questions'[x].position = questions'[o].position
      PROVE  x = o
  BY <1>2, <1>n, <1>6 DEF TablesOK, NamesAreUnique
<1>7. RowsAreHome'
  BY <1>2 DEF TablesOK, RowsAreHome
<1>. QED  BY <1>3, <1>5, <1>6, <1>7, QuestionStepMoves

\* A deleted question.
LEMMA DropQuestionMoves ==
    ASSUME TablesOK, NEW q, questions' = Drop(questions, {q}),
           UNCHANGED <<courses, lessons, quizzes, attempts, revisions, usedIds, home>>
    PROVE  TablesOK' /\ TablesMoveOn
<1>t. TablesType
  BY DEF TablesOK
<1>2. /\ DOMAIN questions' = DOMAIN questions \ {q}
      /\ \A x \in DOMAIN questions' : questions'[x] = questions[x]
  BY DEF Drop
<1>3. IsTable(questions, QuestionIds, QuestionRow)' /\ IsTable(home, QuestionIds, QuizIds)'
  BY <1>t, DropType DEF TablesType, IsTable
<1>4. \A x \in DOMAIN questions' : questions'[x].quiz \in DOMAIN quizzes
  BY <1>2 DEF TablesOK, NoOrphans
<1>5. ASSUME NEW x \in DOMAIN questions', NEW o \in DOMAIN questions',
             questions'[x].quiz = questions'[o].quiz, questions'[x].position = questions'[o].position
      PROVE  x = o
  BY <1>2, <1>5 DEF TablesOK, NamesAreUnique
<1>6. RowsAreHome'
  BY <1>2 DEF TablesOK, RowsAreHome
<1>. QED  BY <1>3, <1>4, <1>5, <1>6, QuestionStepMoves

\* A whole attempt at a quiz that exists.
LEMMA PutAttemptMoves ==
    ASSUME TablesOK, NEW a \in Attempt, Whole(a, home), a.quiz \in DOMAIN quizzes,
           attempts' = attempts \cup {a},
           UNCHANGED <<courses, lessons, quizzes, questions, revisions, usedIds, home>>
    PROVE  TablesOK' /\ TablesMoveOn
<1>t. TablesType /\ Present \subseteq usedIds
  BY DEF TablesOK
<1>1. TablesType'
  BY <1>t DEF TablesType, IsTable
<1>2. Present' = Present
  BY DEF Present
<1>3. NoOrphans'
  BY <1>2 DEF TablesOK, NoOrphans, Exists
<1>4. NamesAreUnique' /\ RowsAreHome' /\ AttemptsWhole'
  BY DEF TablesOK, NamesAreUnique, RowsAreHome, AttemptsWhole
<1>5. TablesMoveOn
  <2>1. \A z \in DOMAIN quizzes : quizzes[z].version \in Int
    BY <1>t DEF TablesType, IsTable, QuizRow
  <2>. QED  BY <2>1, <1>2 DEF TablesMoveOn
<1>h. HistoryOK'
  BY HistoryStays DEF TablesOK
<1>. QED  BY <1>t, <1>1, <1>2, <1>3, <1>4, <1>5, <1>h DEF TablesOK

-------------------------------------------------------------------------------
(* Grading.                                                                    *)

\* A submission is a sequence of answers: its length is a number, its indices are 1..Len.
LEMMA SubmissionIsSequence ==
    ASSUME NEW answers \in Submission
    PROVE  /\ Len(answers) \in Nat
           /\ DOMAIN answers = 1..Len(answers)
           /\ \A i \in DOMAIN answers : answers[i] \in Answer
<1>1. Cardinality(QuestionIds) \in Nat
  BY IdsAssumption, FS_CardinalityType
<1>2. PICK n \in 1..Cardinality(QuestionIds) : answers \in [1..n -> Answer]
  BY DEF Submission
<1>3. n \in Nat /\ answers \in Seq(Answer)
  BY <1>1, <1>2
<1>. QED  BY <1>2, <1>3

\* One read of the questions grades a whole attempt: the number of answers and the check of
\* their questions leave room for no other question when none is answered twice.
LEMMA GradedIsWhole ==
    ASSUME TablesOK, NEW z \in QuizIds, NEW answers \in Submission,
           Len(answers) = Cardinality(QuestionsOf(z)),
           {answers[i].question : i \in DOMAIN answers} \subseteq QuestionsOf(z)
    PROVE  Graded(z, answers) \in Attempt /\ Whole(Graded(z, answers), home)
<1>. DEFINE correct  == {i \in DOMAIN answers :
                           answers[i].choice = questions[answers[i].question].key}
            answered == {answers[i].question : i \in DOMAIN answers}
            a        == Graded(z, answers)
<1>1. /\ Len(answers) \in Nat /\ DOMAIN answers = 1..Len(answers)
      /\ \A i \in DOMAIN answers : answers[i] \in Answer
  BY SubmissionIsSequence
<1>2. /\ a.quiz = z /\ a.answers = answers /\ a.correct = correct
      /\ a.score = Cardinality(correct) /\ a.total = Len(answers) /\ a.asked = QuestionsOf(z)
  BY DEF Graded
<1>3. Cardinality(correct) \in Nat /\ correct \in SUBSET Nat
  <2>1. IsFiniteSet(1..Len(answers))
    BY <1>1, FS_Interval
  <2>2. correct \in SUBSET (1..Len(answers))
    BY <1>1
  <2>3. IsFiniteSet(correct)
    BY <2>1, <2>2, FS_Subset
  <2>. QED  BY <1>1, <2>2, <2>3, FS_CardinalityType
<1>4. QuestionsOf(z) \in SUBSET QuestionIds
  BY DEF QuestionsOf, TablesOK, TablesType, IsTable
<1>5. a \in Attempt
  BY <1>1, <1>3, <1>4 DEF Graded, Attempt
<1>6. ASSUME NEW q \in answered PROVE q \in DOMAIN home /\ home[q] = z
  BY DEF QuestionsOf, TablesOK, RowsAreHome
<1>7. Cardinality(answered) = Len(answers) => answered = QuestionsOf(z)
  <2>1. IsFiniteSet(QuestionsOf(z))
    BY <1>4, IdsAssumption, FS_Subset
  <2>2. answered \in SUBSET QuestionsOf(z)
    OBVIOUS
  <2>. QED  BY <2>1, <2>2, FS_Subset
<1>8. correct \subseteq DOMAIN answers
  OBVIOUS
<1>. HIDE DEF correct, a
<1>9. Whole(a, home)
  BY <1>1, <1>2, <1>6, <1>7, <1>8 DEF Whole
<1>. QED  BY <1>5, <1>9 DEF a

-------------------------------------------------------------------------------
(* The steps of a request.                                                     *)

\* A step that writes no table keeps the invariant when its handler moves.
LEMMA ReadOnlyStep ==
    ASSUME IInv, NEW r \in Requests, UNCHANGED tables, HandlerMoves(r)
    PROVE  IInv'
  BY TablesStay, OneHandlerMoves DEF IInv

\* What the reads of a handler say holds of the tables they were read from.
LEMMA ReadMoves ==
    ASSUME NEW r \in Requests, NEW h \in Handler, Become(r, h), UNCHANGED tables,
           HandlerFits(h, usedIds, quizzes, home)
    PROVE  HandlerMoves(r)
  BY DEF HandlerMoves, Become, tables, Present

\* A course found by its slug has an id in use.
LEMMA ResolveCourseStep ==
    ASSUME IInv, NEW r \in Requests, ResolveCourse(r)
    PROVE  IInv'
<1>1. UNCHANGED tables
  BY DEF ResolveCourse
<1>2. CASE Reply(r, "rejected")
  BY <1>1, <1>2, ReplyMoves, ReadOnlyStep
<1>3. CASE \E c \in DOMAIN courses, where \in {"insertLesson", "deleteLesson"} :
              Become(r, [at |-> where, course |-> c])
  <2>1. PICK c \in DOMAIN courses, where \in {"insertLesson", "deleteLesson"} :
           Become(r, [at |-> where, course |-> c])
    BY <1>3
  <2>. DEFINE h == [at |-> where, course |-> c]
  <2>2. c \in CourseIds /\ c \in usedIds
    BY DEF IInv, TablesOK, TablesType, IsTable, Present
  <2>3. h \in Handler
    BY <2>2 DEF Handler
  <2>4. HandlerFits(h, usedIds, quizzes, home)
    BY <2>2 DEF HandlerFits, FitsIds, FitsEdit, FitsHome
  <2>. QED  BY <1>1, <2>1, <2>3, <2>4, ReadMoves, ReadOnlyStep
<1>. QED  BY <1>2, <1>3 DEF ResolveCourse

\* So has a quiz.
LEMMA ResolveQuizStep ==
    ASSUME IInv, NEW r \in Requests, ResolveQuiz(r)
    PROVE  IInv'
<1>1. UNCHANGED tables
  BY DEF ResolveQuiz
<1>2. CASE Reply(r, "rejected")
  BY <1>1, <1>2, ReplyMoves, ReadOnlyStep
<1>3. CASE \E z \in DOMAIN quizzes, where \in {"insertQuestion", "checkPatch", "checkDelete", "grade"} :
              Become(r, [at |-> where, quiz |-> z])
  <2>1. PICK z \in DOMAIN quizzes, where \in {"insertQuestion", "checkPatch", "checkDelete", "grade"} :
           Become(r, [at |-> where, quiz |-> z])
    BY <1>3
  <2>. DEFINE h == [at |-> where, quiz |-> z]
  <2>2. z \in QuizIds /\ z \in usedIds
    BY DEF IInv, TablesOK, TablesType, IsTable, Present
  <2>3. h \in Handler
    BY <2>2 DEF Handler
  <2>4. HandlerFits(h, usedIds, quizzes, home)
    BY <2>2 DEF HandlerFits, FitsIds, FitsEdit, FitsHome
  <2>. QED  BY <1>1, <2>1, <2>3, <2>4, ReadMoves, ReadOnlyStep
<1>. QED  BY <1>2, <1>3 DEF ResolveQuiz

\* A quiz read for an edit is as current as it gets.
LEMMA FindQuizStep ==
    ASSUME IInv, NEW r \in Requests, FindQuiz(r)
    PROVE  IInv'
<1>1. UNCHANGED tables
  BY DEF FindQuiz
<1>2. CASE Reply(r, "rejected")
  BY <1>1, <1>2, ReplyMoves, ReadOnlyStep
<1>3. ASSUME NEW z \in DOMAIN quizzes, quizzes[z].version < MaxVersion,
             Become(r, [at |-> "edit", quiz |-> z, row |-> quizzes[z]])
      PROVE  IInv'
  <2>. DEFINE h == [at |-> "edit", quiz |-> z, row |-> quizzes[z]]
  <2>1. z \in QuizIds /\ z \in usedIds /\ quizzes[z] \in QuizRow
    BY DEF IInv, TablesOK, TablesType, IsTable, Present
  <2>2. h \in Handler
    BY <1>3, <2>1 DEF Handler
  <2>3. {quizzes[z].course, quizzes[z].lesson} \ {NULL} \subseteq usedIds
    BY DEF IInv, TablesOK, NoOrphans, Exists
  <2>4. quizzes[z].version <= quizzes[z].version
    BY <2>1 DEF QuizRow
  <2>5. HandlerFits(h, usedIds, quizzes, home)
    BY <2>1, <2>3, <2>4 DEF HandlerFits, FitsIds, FitsEdit, FitsHome
  <2>. QED  BY <1>1, <1>3, <2>2, <2>5, ReadMoves, ReadOnlyStep
<1>. QED  BY <1>2, <1>3 DEF FindQuiz

\* The question of the URL is found in the quiz of the URL, which is its home.
LEMMA CheckQuestionStep ==
    ASSUME IInv, NEW r \in Requests, CheckQuestion(r)
    PROVE  IInv'
<1>1. UNCHANGED tables
  BY DEF CheckQuestion
<1>2. CASE Reply(r, "rejected")
  BY <1>1, <1>2, ReplyMoves, ReadOnlyStep
<1>3. CASE \E q \in QuestionsOf(handler[r].quiz), where \in {"patch", "deleteQuestion"} :
              Become(r, [at |-> where, quiz |-> handler[r].quiz, question |-> q])
  <2>. DEFINE z == handler[r].quiz
  <2>1. PICK q \in QuestionsOf(z), where \in {"patch", "deleteQuestion"} :
           Become(r, [at |-> where, quiz |-> z, question |-> q])
    BY <1>3
  <2>. DEFINE h == [at |-> where, quiz |-> z, question |-> q]
  <2>2. /\ q \in QuestionIds /\ q \in DOMAIN home /\ home[q] = z /\ z \in QuizIds
    BY DEF IInv, TablesOK, TablesType, IsTable, RowsAreHome, QuestionsOf
  <2>3. z \in usedIds
    BY DEF IInv, TablesOK, NoOrphans, QuestionsOf, Present
  <2>. HIDE DEF z
  <2>4. h \in Handler
    BY <2>2 DEF Handler
  <2>5. HandlerFits(h, usedIds, quizzes, home)
    BY <2>2, <2>3 DEF HandlerFits, FitsIds, FitsEdit, FitsHome
  <2>. QED  BY <1>1, <2>1, <2>4, <2>5, ReadMoves, ReadOnlyStep
<1>. QED  BY <1>2, <1>3 DEF CheckQuestion

\* A graded attempt is whole before it is recorded.
LEMMA GradeStep ==
    ASSUME IInv, NEW r \in Requests, Grade(r)
    PROVE  IInv'
<1>1. UNCHANGED tables
  BY DEF Grade
<1>2. CASE Reply(r, "rejected")
  BY <1>1, <1>2, ReplyMoves, ReadOnlyStep
<1>3. ASSUME NEW answers \in Submission,
             Len(answers) = Cardinality(QuestionsOf(handler[r].quiz)),
             {answers[i].question : i \in DOMAIN answers} \subseteq QuestionsOf(handler[r].quiz),
             Become(r, [at |-> "record", attempt |-> Graded(handler[r].quiz, answers)]),
             At(r, "grade")
      PROVE  IInv'
  <2>. DEFINE z == handler[r].quiz
              a == Graded(z, answers)
              h == [at |-> "record", attempt |-> a]
  <2>1. handler[r] \in Handler /\ FitsIds(handler[r], usedIds)
    BY DEF IInv, HandlersOK, HandlerFits
  <2>2. z \in QuizIds /\ z \in usedIds
    BY <1>3, <2>1 DEF At, Handler, Replied, FitsIds
  <2>3. a \in Attempt /\ Whole(a, home)
    BY <1>3, <2>2, GradedIsWhole DEF IInv
  <2>4. a.quiz = z
    BY DEF Graded
  <2>. HIDE DEF a
  <2>5. h \in Handler
    BY <2>3 DEF Handler
  <2>6. HandlerFits(h, usedIds, quizzes, home)
    BY <2>2, <2>3, <2>4 DEF HandlerFits, FitsIds, FitsEdit, FitsHome
  <2>. QED  BY <1>1, <1>3, <2>5, <2>6, ReadMoves, ReadOnlyStep DEF a
<1>. QED  BY <1>2, <1>3 DEF Grade

\* A step that writes tables keeps the invariant when its handler moves.
LEMMA WriteStep ==
    ASSUME IInv, NEW r \in Requests, TablesOK' /\ TablesMoveOn, HandlerMoves(r)
    PROVE  IInv'
  BY OneHandlerMoves

\* A reply of a handler that has written nothing.
LEMMA RejectedStep ==
    ASSUME IInv, NEW r \in Requests, NEW class \in {"ok", "rejected", "error"}, Reply(r, class),
           UNCHANGED tables
    PROVE  IInv'
  BY ReplyMoves, ReadOnlyStep

\* A lesson goes into a course that is still there.
LEMMA InsertLessonStep ==
    ASSUME IInv, NEW r \in Requests, InsertLesson(r)
    PROVE  IInv'
<1>. DEFINE c == handler[r].course
<1>1. c \in CourseIds /\ c \in usedIds
  <2>1. handler[r] \in Handler /\ FitsIds(handler[r], usedIds) /\ handler[r].at = "insertLesson"
    BY DEF IInv, HandlersOK, HandlerFits, InsertLesson, At
  <2>. QED  BY <2>1 DEF Handler, Replied, FitsIds
<1>u. UNCHANGED <<courses, quizzes, questions, attempts, revisions, home>>
  BY DEF InsertLesson
<1>. HIDE DEF c
<1>2. CASE Reply(r, "rejected") /\ UNCHANGED <<lessons, usedIds>>
  BY <1>u, <1>2, RejectedStep DEF tables
<1>3. CASE Reply(r, "error") /\ UNCHANGED <<lessons, usedIds>>
  BY <1>u, <1>3, RejectedStep DEF tables
<1>4. ASSUME NEW slug \in LessonSlugs, NEW l \in LessonIds \ usedIds,
             c \in DOMAIN courses,
             \A k \in DOMAIN lessons : lessons[k] # [course |-> c, slug |-> slug],
             lessons' = Put(lessons, l, [course |-> c, slug |-> slug]),
             usedIds' = usedIds \cup {l}, Reply(r, "ok")
      PROVE  IInv'
  <2>1. TablesOK' /\ TablesMoveOn
    BY <1>u, <1>4, PutLessonMoves DEF IInv
  <2>2. HandlerMoves(r)
    BY <1>4, ReplyMoves
  <2>. QED  BY <2>1, <2>2, WriteStep
<1>. QED  BY <1>2, <1>3, <1>4 DEF InsertLesson, c

\* A deleted lesson takes its quizzes, their questions and their attempts with it.
LEMMA DeleteLessonStep ==
    ASSUME IInv, NEW r \in Requests, DeleteLesson(r)
    PROVE  IInv'
<1>1. PICK slug \in LessonSlugs :
         Delete({}, {l \in DOMAIN lessons : lessons[l] = [course |-> handler[r].course,
                                                          slug |-> slug]}, {})
  BY DEF DeleteLesson
<1>2. TablesOK' /\ TablesMoveOn
  BY <1>1, DeleteMoves DEF IInv
<1>3. HandlerMoves(r)
  BY ReplyMoves DEF DeleteLesson
<1>. QED  BY <1>2, <1>3, WriteStep

\* A quiz that is created names parents that exist.
LEMMA CreateQuizStep ==
    ASSUME IInv, NEW r \in Requests, CreateQuiz(r)
    PROVE  IInv'
<1>u. UNCHANGED <<courses, lessons, questions, attempts, revisions, home>>
  BY DEF CreateQuiz
<1>1. PICK slug \in QuizSlugs, c \in CourseIds \cup {NULL}, l \in LessonIds \cup {NULL} :
          \/ /\ Reply(r, "rejected")
             /\ UNCHANGED <<quizzes, usedIds>>
          \/ /\ Reply(r, "error")
             /\ UNCHANGED <<quizzes, usedIds>>
          \/ /\ \A z \in DOMAIN quizzes : quizzes[z].slug # slug
             /\ Exists({c, l})
             /\ \E z \in QuizIds \ usedIds :
                   /\ quizzes' = Put(quizzes, z, [slug |-> slug, course |-> c, lesson |-> l,
                                                  version |-> 1])
                   /\ usedIds' = usedIds \cup {z}
             /\ Reply(r, "ok")
  BY DEF CreateQuiz
<1>2. CASE Reply(r, "rejected") /\ UNCHANGED <<quizzes, usedIds>>
  BY <1>u, <1>2, RejectedStep DEF tables
<1>3. CASE Reply(r, "error") /\ UNCHANGED <<quizzes, usedIds>>
  BY <1>u, <1>3, RejectedStep DEF tables
<1>4. ASSUME NEW z \in QuizIds \ usedIds, \A y \in DOMAIN quizzes : quizzes[y].slug # slug,
             Exists({c, l}), Reply(r, "ok"), usedIds' = usedIds \cup {z},
             quizzes' = Put(quizzes, z, [slug |-> slug, course |-> c, lesson |-> l, version |-> 1])
      PROVE  IInv'
  <2>1. TablesOK' /\ TablesMoveOn
    BY <1>u, <1>4, PutQuizMoves DEF IInv
  <2>2. HandlerMoves(r)
    BY <1>4, ReplyMoves
  <2>. QED  BY <2>1, <2>2, WriteStep
<1>. QED  BY <1>1, <1>2, <1>3, <1>4

\* What the handler of an edit has read, of a quiz that may have gone or moved on.
LEMMA EditReads ==
    ASSUME IInv, NEW r \in Requests, At(r, "edit")
    PROVE  LET z == handler[r].quiz
               row == handler[r].row
           IN  /\ z \in QuizIds /\ z \in usedIds /\ row \in QuizRow /\ row.version < MaxVersion
               /\ z \in DOMAIN quizzes => /\ row.version <= quizzes[z].version
                                          /\ row.slug = quizzes[z].slug
                                          /\ row.version = quizzes[z].version => row = quizzes[z]
<1>1. /\ handler[r] \in Handler /\ FitsIds(handler[r], usedIds)
      /\ FitsEdit(handler[r], usedIds, quizzes) /\ handler[r].at = "edit"
  BY DEF IInv, HandlersOK, HandlerFits, At
<1>2. handler[r].quiz \in QuizIds /\ handler[r].row \in {y \in QuizRow : y.version < MaxVersion}
  BY <1>1 DEF Handler, Replied
<1>. QED  BY <1>1, <1>2 DEF FitsIds, FitsEdit

\* The unique index admits an edit of a quiz that exists only when it read the row that is
\* still there: every version behind the present one has its revision.
LEMMA AdmittedEditsAreFresh ==
    ASSUME IInv, NEW r \in Requests, At(r, "edit"),
           handler[r].quiz \in DOMAIN quizzes,
           ~ Superseded(handler[r].quiz, handler[r].row.version)
    PROVE  handler[r].row = quizzes[handler[r].quiz]
<1>. DEFINE z   == handler[r].quiz
            row == handler[r].row
<1>1. /\ row \in QuizRow /\ row.version <= quizzes[z].version
      /\ row.version = quizzes[z].version => row = quizzes[z]
  BY EditReads
<1>2. row.version \in 1..MaxVersion /\ quizzes[z].version \in 1..MaxVersion
  BY <1>1 DEF QuizRow, IInv, TablesOK, TablesType, IsTable
<1>3. ~ (row.version < quizzes[z].version)
  BY <1>2 DEF Superseded, IInv, TablesOK, HistoryOK, HistoryIsWhole
<1>. QED  BY <1>1, <1>2, <1>3, BoundsAssumption

\* An edit that is admitted makes the next version of the row it read, or a revision of a
\* quiz that is gone.
LEMMA EditQuizStep ==
    ASSUME IInv, NEW r \in Requests, EditQuiz(r)
    PROVE  IInv'
<1>. DEFINE z   == handler[r].quiz
            row == handler[r].row
<1>0. At(r, "edit")
  BY DEF EditQuiz
<1>1. z \in QuizIds /\ z \in usedIds /\ row \in QuizRow /\ row.version < MaxVersion
  BY <1>0, EditReads
<1>t. TablesOK
  BY DEF IInv
<1>u. UNCHANGED <<courses, lessons, questions, attempts, usedIds, home>>
  BY SMTT(30) DEF EditQuiz
<1>2. PICK c \in CourseIds \cup {NULL}, l \in LessonIds \cup {NULL} :
          \/ /\ ~ Superseded(z, row.version) /\ Updatable(z, Edited(row, c, l))
             /\ revisions' = revisions \cup {<<z, row.version>>}
             /\ quizzes' = Update(z, Edited(row, c, l))
             /\ Reply(r, "ok")
          \/ /\ RollBack(z, row.version)
             /\ Reply(r, "error")
  BY DEF EditQuiz
<1>. DEFINE merged == Edited(row, c, l)
<1>m. merged \in QuizRow /\ merged.slug = row.slug /\ merged.version = row.version + 1
  <2>1. row.version + 1 \in 1..MaxVersion
    BY <1>1, BoundsAssumption DEF QuizRow
  <2>. QED  BY <1>1, <2>1 DEF QuizRow, Edited
<1>3. CASE /\ ~ Superseded(z, row.version) /\ Updatable(z, merged)
           /\ revisions' = revisions \cup {<<z, row.version>>}
           /\ quizzes' = Update(z, merged) /\ Reply(r, "ok")
  <2>1. TablesOK' /\ TablesMoveOn
    <3>1. CASE z \in DOMAIN quizzes
      <4>1. row = quizzes[z]
        BY <1>0, <1>3, <3>1, AdmittedEditsAreFresh
      <4>2. Exists({merged.course, merged.lesson}) /\ quizzes' = Put(quizzes, z, merged)
        BY <1>3, <3>1 DEF Updatable, Update
      <4>. HIDE DEF merged, z, row
      <4>. QED  BY <1>t, <1>u, <1>m, <1>3, <3>1, <4>1, <4>2, EditedQuizMoves
    <3>2. CASE z \notin DOMAIN quizzes
      <4>1. row.version \in 1..MaxVersion /\ UNCHANGED quizzes
        BY <1>1, <1>3, <3>2 DEF QuizRow, Update
      <4>. HIDE DEF merged, z, row
      <4>. QED  BY <1>t, <1>u, <1>1, <1>3, <3>2, <4>1, GoneQuizMoves
    <3>. QED  BY <3>1, <3>2
  <2>2. HandlerMoves(r)
    BY <1>3, ReplyMoves
  <2>. QED  BY <2>1, <2>2, WriteStep
<1>4. CASE RollBack(z, row.version) /\ Reply(r, "error")
  BY <1>u, <1>4, RejectedStep DEF tables, RollBack
<1>. QED  BY <1>2, <1>3, <1>4

\* A question goes to a free position of a quiz that is still there.
LEMMA InsertQuestionStep ==
    ASSUME IInv, NEW r \in Requests, InsertQuestion(r)
    PROVE  IInv'
<1>. DEFINE z == handler[r].quiz
<1>1. z \in QuizIds /\ z \in usedIds
  <2>1. handler[r] \in Handler /\ FitsIds(handler[r], usedIds) /\ handler[r].at = "insertQuestion"
    BY DEF IInv, HandlersOK, HandlerFits, InsertQuestion, At
  <2>. QED  BY <2>1 DEF Handler, Replied, FitsIds
<1>u. UNCHANGED <<courses, lessons, quizzes, attempts, revisions, usedIds>>
  BY DEF InsertQuestion
<1>. HIDE DEF z
<1>2. CASE Reply(r, "rejected") /\ UNCHANGED <<questions, home>>
  BY <1>u, <1>2, RejectedStep DEF tables
<1>3. CASE Reply(r, "error") /\ UNCHANGED <<questions, home>>
  BY <1>u, <1>3, RejectedStep DEF tables
<1>4. ASSUME NEW p \in Positions, NEW n \in OptionCounts, NEW k \in OptionIndices,
             NEW q \in QuestionIds \ DOMAIN home, z \in DOMAIN quizzes, ~ Taken(z, p, NULL),
             questions' = Put(questions, q, [quiz |-> z, position |-> p, options |-> n, key |-> k]),
             home' = Put(home, q, z), Reply(r, "ok")
      PROVE  IInv'
  <2>1. TablesOK' /\ TablesMoveOn
    BY <1>u, <1>4, PutQuestionMoves DEF IInv
  <2>2. HandlerMoves(r)
    BY <1>4, ReplyMoves
  <2>. QED  BY <2>1, <2>2, WriteStep
<1>. QED  BY <1>2, <1>3, <1>4 DEF InsertQuestion, z

\* The patch of a question keeps its quiz and takes no position in use.
LEMMA PatchQuestionStep ==
    ASSUME IInv, NEW r \in Requests, PatchQuestion(r)
    PROVE  IInv'
<1>. DEFINE q == handler[r].question
<1>u. UNCHANGED <<courses, lessons, quizzes, attempts, revisions, usedIds, home>>
  BY DEF PatchQuestion
<1>t. TablesOK /\ TablesType
  BY DEF IInv, TablesOK
<1>. HIDE DEF q
<1>1. CASE Reply(r, "rejected") /\ UNCHANGED questions
  BY <1>u, <1>1, RejectedStep DEF tables
<1>2. ASSUME NEW patch \in QuestionPatch, q \in DOMAIN questions,
             \/ /\ Reply(r, "error")
                /\ UNCHANGED questions
             \/ /\ ~ Taken(Patched(questions[q], patch).quiz,
                           Patched(questions[q], patch).position, q)
                /\ questions' = Put(questions, q, Patched(questions[q], patch))
                /\ Reply(r, "ok")
      PROVE  IInv'
  <2>. DEFINE row == Patched(questions[q], patch)
  <2>1. questions[q] \in QuestionRow
    BY <1>t, <1>2 DEF TablesType, IsTable
  <2>2. row \in QuestionRow /\ row.quiz = questions[q].quiz
    BY <2>1 DEF Patched, QuestionRow, QuestionPatch
  <2>. HIDE DEF row
  <2>3. CASE Reply(r, "error") /\ UNCHANGED questions
    BY <1>u, <2>3, RejectedStep DEF tables
  <2>4. CASE /\ ~ Taken(row.quiz, row.position, q)
             /\ questions' = Put(questions, q, row)
             /\ Reply(r, "ok")
    <3>1. TablesOK' /\ TablesMoveOn
      BY <1>u, <1>t, <1>2, <2>2, <2>4, PatchedQuestionMoves
    <3>2. HandlerMoves(r)
      BY <2>4, ReplyMoves
    <3>. QED  BY <3>1, <3>2, WriteStep
  <2>. QED  BY <1>2, <2>3, <2>4 DEF row
<1>. QED  BY <1>1, <1>2 DEF PatchQuestion, q

\* A deleted question leaves its place and its home free.
LEMMA DeleteQuestionStep ==
    ASSUME IInv, NEW r \in Requests, DeleteQuestion(r)
    PROVE  IInv'
<1>1. TablesOK' /\ TablesMoveOn
  BY DropQuestionMoves DEF IInv, DeleteQuestion
<1>2. HandlerMoves(r)
  BY ReplyMoves DEF DeleteQuestion
<1>. QED  BY <1>1, <1>2, WriteStep

\* A graded attempt is recorded as it was graded.
LEMMA RecordAttemptStep ==
    ASSUME IInv, NEW r \in Requests, RecordAttempt(r)
    PROVE  IInv'
<1>. DEFINE a == handler[r].attempt
<1>1. a \in Attempt /\ a.quiz \in usedIds /\ a.quiz \in QuizIds /\ Whole(a, home)
  <2>1. /\ handler[r] \in Handler /\ FitsIds(handler[r], usedIds) /\ FitsHome(handler[r], home)
        /\ handler[r].at = "record"
    BY DEF IInv, HandlersOK, HandlerFits, RecordAttempt, At
  <2>2. handler[r].attempt \in Attempt
    BY <2>1 DEF Handler, Replied
  <2>. QED  BY <2>1, <2>2 DEF FitsIds, FitsHome, Attempt
<1>u. UNCHANGED <<courses, lessons, quizzes, questions, revisions, usedIds, home>>
  BY DEF RecordAttempt
<1>. HIDE DEF a
<1>2. CASE Reply(r, "error") /\ UNCHANGED attempts
  BY <1>u, <1>2, RejectedStep DEF tables
<1>3. CASE a.quiz \in DOMAIN quizzes /\ attempts' = attempts \cup {a} /\ Reply(r, "ok")
  <2>1. TablesOK' /\ TablesMoveOn
    BY <1>u, <1>1, <1>3, PutAttemptMoves DEF IInv
  <2>2. HandlerMoves(r)
    BY <1>3, ReplyMoves
  <2>. QED  BY <2>1, <2>2, WriteStep
<1>. QED  BY <1>2, <1>3 DEF RecordAttempt, a

-------------------------------------------------------------------------------
(* Every step.                                                                 *)

\* The steps of requests, of course management and of the deletes keep the invariant.
LEMMA StepInvariant == IInv /\ [Next]_vars => IInv'
<1>. SUFFICES ASSUME IInv, [Next]_vars PROVE IInv'
  OBVIOUS
<1>1. CASE CreateCourse
  BY <1>1, CreateCourseMoves, NoHandlerMoves DEF IInv, CreateCourse
<1>2. CASE RemoveCourse
  <2>1. PICK c \in DOMAIN courses : Delete({c}, {}, {}) /\ UNCHANGED handler
    BY <1>2 DEF RemoveCourse
  <2>. QED  BY <2>1, DeleteMoves, NoHandlerMoves DEF IInv
<1>3. CASE RemoveQuiz
  <2>1. PICK z \in DOMAIN quizzes : Delete({}, {}, {z}) /\ UNCHANGED handler
    BY <1>3 DEF RemoveQuiz
  <2>. QED  BY <2>1, DeleteMoves, NoHandlerMoves DEF IInv
<1>4. ASSUME NEW r \in Requests, Step(r)
      PROVE  IInv'
  <2>1. CASE ResolveCourse(r)    BY <2>1, ResolveCourseStep
  <2>2. CASE InsertLesson(r)     BY <2>2, InsertLessonStep
  <2>3. CASE DeleteLesson(r)     BY <2>3, DeleteLessonStep
  <2>4. CASE CreateQuiz(r)       BY <2>4, CreateQuizStep
  <2>5. CASE FindQuiz(r)         BY <2>5, FindQuizStep
  <2>6. CASE EditQuiz(r)         BY <2>6, EditQuizStep
  <2>7. CASE ResolveQuiz(r)      BY <2>7, ResolveQuizStep
  <2>8. CASE InsertQuestion(r)   BY <2>8, InsertQuestionStep
  <2>9. CASE CheckQuestion(r)    BY <2>9, CheckQuestionStep
  <2>10. CASE PatchQuestion(r)   BY <2>10, PatchQuestionStep
  <2>11. CASE DeleteQuestion(r)  BY <2>11, DeleteQuestionStep
  <2>12. CASE Grade(r)           BY <2>12, GradeStep
  <2>13. CASE RecordAttempt(r)   BY <2>13, RecordAttemptStep
  <2>14. CASE FailStatement(r)   BY <2>14, RejectedStep DEF FailStatement
  <2>. QED  BY <1>4, <2>1, <2>2, <2>3, <2>4, <2>5, <2>6, <2>7, <2>8, <2>9, <2>10, <2>11,
               <2>12, <2>13, <2>14 DEF Step
<1>5. CASE UNCHANGED vars
  <2>1. UNCHANGED tables /\ UNCHANGED handler
    BY <1>5 DEF vars, tables
  <2>. QED  BY <2>1, TablesStay, NoHandlerMoves DEF IInv
<1>. QED  BY <1>1, <1>2, <1>3, <1>4, <1>5 DEF Next

\* The inductive invariant holds in every reachable state.
THEOREM Invariance == Spec => []IInv
<1>. QED  BY InitInvariant, StepInvariant, PTL DEF Spec

\* The tables of lessons, quizzes, questions and attempts never hold an orphan, two rows of
\* one name or a question that left its quiz, and what handlers hold is at most out of date.
THEOREM QuizInvariance == Spec => []QuizInv
<1>. QED  BY Invariance, InvariantMeans, PTL

\* A quiz that exists has exactly the revisions of the versions it has left behind: no edit
\* that failed halfway blocks the next, and none that is stale gets past the index.
THEOREM HistoriesAreWhole == Spec => []HistoryIsWhole
<1>. QED  BY Invariance, InvariantMeans, PTL

-------------------------------------------------------------------------------
(* The edits of quizzes.                                                       *)

\* What an admitted edit makes of the table of quizzes.
LEMMA EditReplaces ==
    ASSUME IInv, NEW r \in Requests, EditQuiz(r), NEW z \in DOMAIN quizzes,
           z \in DOMAIN quizzes', quizzes'[z] # quizzes[z]
    PROVE  /\ quizzes'[z].version = quizzes[z].version + 1
           /\ At(r, "edit") /\ handler[r].quiz = z /\ handler[r].row = quizzes[z]
<1>0. At(r, "edit")
  BY DEF EditQuiz
<1>1. PICK c, l :
          \/ /\ ~ Superseded(handler[r].quiz, handler[r].row.version)
             /\ quizzes' = Update(handler[r].quiz, Edited(handler[r].row, c, l))
          \/ UNCHANGED quizzes
  BY DEF EditQuiz, RollBack
<1>2. /\ ~ Superseded(handler[r].quiz, handler[r].row.version)
      /\ quizzes' = Update(handler[r].quiz, Edited(handler[r].row, c, l))
  BY <1>1
<1>3. handler[r].quiz = z /\ quizzes'[z] = Edited(handler[r].row, c, l)
  BY <1>2 DEF Update, Put
<1>4. handler[r].row = quizzes[z]
  BY <1>0, <1>2, <1>3, AdmittedEditsAreFresh
<1>5. quizzes[z] \in QuizRow
  BY DEF IInv, TablesOK, TablesType, IsTable
<1>6. quizzes'[z].version = quizzes[z].version + 1
  BY <1>3, <1>4, <1>5 DEF Edited, QuizRow
<1>. QED  BY <1>0, <1>3, <1>4, <1>6

\* An accepted edit replaces the row it was merged into, and nothing but an edit changes the
\* row of a quiz.
THEOREM NoEditIsLost == Spec => EditsReplaceWhatTheyRead
<1>. DEFINE Fresh(z) == /\ quizzes'[z].version = quizzes[z].version + 1
                        /\ \E r \in Requests : At(r, "edit") /\ handler[r].quiz = z
                                                             /\ handler[r].row = quizzes[z]
<1>1. IInv /\ [Next]_vars =>
         [\A z \in DOMAIN quizzes \cap DOMAIN quizzes' : quizzes'[z] # quizzes[z] => Fresh(z)]_vars
  <2>. SUFFICES ASSUME IInv, [Next]_vars, NEW z \in DOMAIN quizzes, z \in DOMAIN quizzes',
                       quizzes'[z] # quizzes[z]
                PROVE  Fresh(z)
    OBVIOUS
  <2>1. ASSUME NEW r \in Requests, EditQuiz(r) PROVE Fresh(z)
    BY <2>1, EditReplaces
  <2>2. ASSUME UNCHANGED quizzes PROVE FALSE
    BY <2>2
  <2>3. ASSUME NEW cs, NEW ls, NEW zs, Delete(cs, ls, zs) PROVE FALSE
    BY <2>3 DEF Delete, Drop
  <2>4. ASSUME NEW r \in Requests, CreateQuiz(r) PROVE FALSE
    <3>1. PICK y \in QuizIds \ usedIds : \E row : quizzes' = Put(quizzes, y, row)
      BY <2>2, <2>4 DEF CreateQuiz
    <3>2. y # z
      BY DEF IInv, TablesOK, Present
    <3>. QED  BY <3>1, <3>2 DEF Put
  <2>5. CASE CreateCourse
    BY <2>2, <2>5 DEF CreateCourse
  <2>6. CASE RemoveCourse \/ RemoveQuiz
    BY <2>3, <2>6 DEF RemoveCourse, RemoveQuiz
  <2>7. ASSUME NEW r \in Requests, DeleteLesson(r) PROVE FALSE
    BY <2>3, <2>7 DEF DeleteLesson
  <2>8. ASSUME NEW r \in Requests,
               \/ ResolveCourse(r) \/ FindQuiz(r) \/ ResolveQuiz(r) \/ CheckQuestion(r)
               \/ Grade(r) \/ FailStatement(r)
        PROVE  FALSE
    BY <2>2, <2>8 DEF ResolveCourse, FindQuiz, ResolveQuiz, CheckQuestion, Grade, FailStatement, tables
  <2>9. ASSUME NEW r \in Requests,
               \/ InsertLesson(r) \/ InsertQuestion(r) \/ PatchQuestion(r) \/ DeleteQuestion(r)
               \/ RecordAttempt(r)
        PROVE  FALSE
    BY <2>2, <2>9 DEF InsertLesson, InsertQuestion, PatchQuestion, DeleteQuestion, RecordAttempt
  <2>10. CASE UNCHANGED vars
    BY <2>2, <2>10 DEF vars
  <2>. QED  BY <2>1, <2>4, <2>5, <2>6, <2>7, <2>8, <2>9, <2>10 DEF Next, Step
<1>. QED  BY <1>1, Invariance, PTL DEF Spec, EditsReplaceWhatTheyRead

-------------------------------------------------------------------------------
(* The keys of questions.                                                      *)

\* Rows that stay as they are keep the keys they have.
LEMMA SameRowsSameKeys ==
    ASSUME DOMAIN questions' \subseteq DOMAIN questions,
           \A q \in DOMAIN questions' : questions'[q] = questions[q]
    PROVE  \A q \in DOMAIN questions' : BadKey(q)' => q \in DOMAIN questions /\ BadKey(q)
  BY DEF BadKey

\* A key that is none of its options comes from a patch of one of the two fields.
THEOREM KeysBreakByHalfPatches == Spec => KeysBreakOnlyByHalfPatches
<1>. DEFINE Half(q) == \/ q \in DOMAIN questions /\ BadKey(q)
                       \/ /\ q \in DOMAIN questions
                          /\ \/ questions'[q].key = questions[q].key
                             \/ questions'[q].options = questions[q].options
<1>1. IInv /\ [Next]_vars => [\A q \in DOMAIN questions' : BadKey(q)' => Half(q)]_vars
  <2>. SUFFICES ASSUME IInv, [Next]_vars, NEW q \in DOMAIN questions', BadKey(q)'
                PROVE  Half(q)
    OBVIOUS
  <2>1. ASSUME NEW r \in Requests, InsertQuestion(r) PROVE Half(q)
    <3>1. CASE UNCHANGED questions
      BY <3>1, SameRowsSameKeys
    <3>2. ASSUME NEW p \in Positions, NEW n \in OptionCounts, NEW k \in OptionIndices, NEW x,
                 Fits(k, n),
                 questions' = Put(questions, x, [quiz |-> handler[r].quiz, position |-> p,
                                                 options |-> n, key |-> k])
          PROVE  Half(q)
      <4>1. q # x
        BY <3>2 DEF Put, BadKey, Fits
      <4>. QED  BY <3>2, <4>1 DEF Put, BadKey
    <3>. QED  BY <2>1, <3>1, <3>2 DEF InsertQuestion
  <2>2. ASSUME NEW r \in Requests, PatchQuestion(r) PROVE Half(q)
    <3>1. CASE UNCHANGED questions
      BY <3>1, SameRowsSameKeys
    <3>2. ASSUME NEW x \in DOMAIN questions, NEW patch \in QuestionPatch, Coherent(patch),
                 questions' = Put(questions, x, Patched(questions[x], patch))
          PROVE  Half(q)
      <4>1. CASE q # x
        BY <3>2, <4>1 DEF Put, BadKey
      <4>2. CASE q = x
        <5>. DEFINE row == Patched(questions[x], patch)
        <5>1. questions[x] \in QuestionRow
          BY <3>2 DEF IInv, TablesOK, TablesType, IsTable
        <5>2. /\ row.key = IF patch.key = NULL THEN questions[x].key ELSE patch.key
              /\ row.options = IF patch.options = NULL THEN questions[x].options ELSE patch.options
          BY <5>1 DEF Patched, QuestionRow
        <5>3. questions'[q] = row
          BY <3>2, <4>2 DEF Put
        <5>4. patch.key = NULL \/ patch.options = NULL
          <6>. HIDE DEF row
          <6>. QED  BY <3>2, <5>2, <5>3 DEF Coherent, Fits, BadKey
        <5>. HIDE DEF row
        <5>. QED  BY <4>2, <5>2, <5>3, <5>4
      <4>. QED  BY <4>1, <4>2
    <3>. QED  BY <2>2, <3>1, <3>2 DEF PatchQuestion
  <2>3. CASE /\ DOMAIN questions' \subseteq DOMAIN questions
             /\ \A x \in DOMAIN questions' : questions'[x] = questions[x]
    BY <2>3, SameRowsSameKeys
  <2>4. ASSUME NEW r \in Requests, DeleteQuestion(r)
        PROVE  Half(q)
    BY <2>3, <2>4 DEF DeleteQuestion, Drop
  <2>5. ASSUME NEW cs, NEW ls, NEW zs, Delete(cs, ls, zs)
        PROVE  Half(q)
    BY <2>3, <2>5 DEF Delete, Drop
  <2>6. CASE CreateCourse
    BY <2>3, <2>6 DEF CreateCourse
  <2>7. CASE RemoveCourse \/ RemoveQuiz
    BY <2>5, <2>7 DEF RemoveCourse, RemoveQuiz
  <2>8. ASSUME NEW r \in Requests,
               \/ ResolveCourse(r) \/ CreateQuiz(r) \/ FindQuiz(r) \/ ResolveQuiz(r)
               \/ CheckQuestion(r) \/ Grade(r) \/ FailStatement(r)
        PROVE  Half(q)
    BY <2>3, <2>8 DEF ResolveCourse, CreateQuiz, FindQuiz, ResolveQuiz, CheckQuestion, Grade, FailStatement,
                      tables
  <2>9. ASSUME NEW r \in Requests, InsertLesson(r) \/ EditQuiz(r) \/ RecordAttempt(r)
        PROVE  Half(q)
    BY <2>3, <2>9 DEF InsertLesson, EditQuiz, RecordAttempt
  <2>10. ASSUME NEW r \in Requests, DeleteLesson(r)
         PROVE  Half(q)
    BY <2>5, <2>10 DEF DeleteLesson
  <2>11. CASE UNCHANGED vars
    BY <2>3, <2>11 DEF vars
  <2>. QED  BY <2>1, <2>2, <2>4, <2>6, <2>7, <2>8, <2>9, <2>10, <2>11 DEF Next, Step
<1>. QED  BY <1>1, Invariance, PTL DEF Spec, KeysBreakOnlyByHalfPatches

===============================================================================
