------------------------------- MODULE Quizzes -------------------------------
(***************************************************************************)
(* services/education: the lessons and quizzes of courses, the questions   *)
(* of quizzes, and the attempts learners are graded on.                    *)
(*                                                                         *)
(* A route first resolves the slugs of its URL to ids, then works on those *)
(* ids an await or two later, when the rows may be gone: foreign keys,     *)
(* their cascades and unique indexes keep the tables together.  The body   *)
(* of a request is chosen where its handler first uses it.  Creating and   *)
(* editing a course is EducationContent.                                   *)
(***************************************************************************)
EXTENDS Integers, Sequences, FiniteSets, Tables

CONSTANTS
    CourseIds, LessonIds, QuizIds, QuestionIds,
    CourseSlugs, LessonSlugs, QuizSlugs,   \* a slug is looked up in one table only
    Positions,      \* order_index values
    OptionCounts,   \* numbers of options a question is given, each at least 2
    OptionIndices,  \* indices of options, from 0
    Requests,       \* the requests of a behaviour, each served once
    MaxVersion,     \* bound on the edits of a quiz
    NULL            \* nothing: an absent field, a column that is not set

ASSUME OptionIndicesAssumption == OptionIndices \subseteq Nat /\ OptionCounts \subseteq Nat \ {0, 1}
ASSUME BoundsAssumption == MaxVersion \in Nat \ {0}
ASSUME NullAssumption ==
    NULL \notin CourseIds \cup LessonIds \cup QuizIds \cup QuestionIds
                \cup OptionIndices \cup OptionCounts \cup Positions
\* Ids are random uuids: no two rows share one, whatever their tables.
ASSUME IdsAssumption ==
    /\ CourseIds \cap LessonIds = {}
    /\ QuizIds \cap (CourseIds \cup LessonIds) = {}
    /\ IsFiniteSet(QuestionIds)

VARIABLES
    courses,     \* id -> slug
    lessons,     \* id -> row
    quizzes,     \* id -> row
    questions,   \* id -> row
    attempts,    \* the rows of quiz_attempts
    revisions,   \* <<id, version>> of the rows of education_content_revisions, of quizzes
    usedIds,     \* every id generated for a course, lesson or quiz
    home,        \* every question id ever generated -> the quiz it was created in
    handler      \* where each handler is, and what it has read

tables == <<courses, lessons, quizzes, questions, attempts, revisions, usedIds, home>>
vars == <<courses, lessons, quizzes, questions, attempts, revisions, usedIds, home, handler>>

-------------------------------------------------------------------------------

LessonRow   == [course : CourseIds, slug : LessonSlugs]
QuizRow     == [slug : QuizSlugs, course : CourseIds \cup {NULL}, lesson : LessonIds \cup {NULL},
                version : 1..MaxVersion]
QuestionRow == [quiz : QuizIds, position : Positions, options : OptionCounts, key : OptionIndices]
QuestionPatch == [position : Positions \cup {NULL}, options : OptionCounts \cup {NULL},
                  key : OptionIndices \cup {NULL}]

Answer     == [question : QuestionIds, choice : OptionIndices]
Submission == UNION {[1..n -> Answer] : n \in 1..Cardinality(QuestionIds)}
\* asked: the questions the quiz had when it was graded.
Attempt    == [quiz : QuizIds, answers : Submission, correct : SUBSET Nat, score : Nat,
               total : Nat, asked : SUBSET QuestionIds]

\* Not called yet, or the class of its reply: 2xx, 4xx, 500.
Replied == [at : {"idle", "ok", "rejected", "error"}]
Handler ==
    Replied
    \cup [at : {"insertLesson", "deleteLesson"}, course : CourseIds]
    \cup [at : {"edit"}, quiz : QuizIds, row : {z \in QuizRow : z.version < MaxVersion}]
    \cup [at : {"insertQuestion", "checkPatch", "checkDelete", "grade"}, quiz : QuizIds]
    \cup [at : {"patch", "deleteQuestion"}, quiz : QuizIds, question : QuestionIds]
    \cup [at : {"record"}, attempt : Attempt]

TypeOK ==
    /\ IsTable(courses, CourseIds, CourseSlugs)
    /\ IsTable(lessons, LessonIds, LessonRow)
    /\ IsTable(quizzes, QuizIds, QuizRow)
    /\ IsTable(questions, QuestionIds, QuestionRow)
    /\ attempts \subseteq Attempt
    /\ revisions \subseteq QuizIds \X (1..MaxVersion)
    /\ usedIds \subseteq CourseIds \cup LessonIds \cup QuizIds
    /\ IsTable(home, QuestionIds, QuizIds)
    /\ handler \in [Requests -> Handler]

Idle(r) == handler[r].at = "idle"
At(r, where) == handler[r].at = where
Become(r, h) == handler' = [handler EXCEPT ![r] = h]
Reply(r, class) == Become(r, [at |-> class])

QuestionsOf(z) == {q \in DOMAIN questions : questions[q].quiz = z}
Present == DOMAIN courses \cup DOMAIN lessons \cup DOMAIN quizzes
Exists(ids) == ids \ {NULL} \subseteq Present

-------------------------------------------------------------------------------
(* What the foreign keys and unique indexes of the tables promise.             *)

\* No row outlives what it belongs to, although every insert relies on an id that was
\* resolved an await before: "enforced by the FK, not re-implemented here" (repository.ts).
NoOrphans ==
    /\ \A l \in DOMAIN lessons : lessons[l].course \in DOMAIN courses
    /\ \A z \in DOMAIN quizzes : Exists({quizzes[z].course, quizzes[z].lesson})
    /\ \A q \in DOMAIN questions : questions[q].quiz \in DOMAIN quizzes
    /\ \A a \in attempts : a.quiz \in DOMAIN quizzes

\* Slugs name one quiz, one course, and one lesson of a course; a quiz has one question per
\* position, whatever the order of the inserts and patches.
NamesAreUnique ==
    /\ \A c, d \in DOMAIN courses : courses[c] = courses[d] => c = d
    /\ \A l, k \in DOMAIN lessons : lessons[l] = lessons[k] => l = k
    /\ \A z, y \in DOMAIN quizzes : quizzes[z].slug = quizzes[y].slug => z = y
    /\ \A q, o \in DOMAIN questions :
          questions[q].quiz = questions[o].quiz /\ questions[q].position = questions[o].position
             => q = o

\* The check of createQuizQuestionSchema: the key is the index of one of the options.
Fits(key, options) == key < options
BadKey(q) == ~ Fits(questions[q].key, questions[q].options)

\* The tables as earlier requests have left them.
Init ==
    /\ \E cs \in SUBSET CourseIds : courses \in [cs -> CourseSlugs]
    /\ \E ls \in SUBSET LessonIds : lessons \in [ls -> LessonRow]
    /\ \E zs \in SUBSET QuizIds : quizzes \in [zs -> {z \in QuizRow : z.version = 1}]
    /\ \E qs \in SUBSET QuestionIds : questions \in [qs -> QuestionRow]
    /\ attempts = {} /\ revisions = {}
    /\ NoOrphans /\ NamesAreUnique
    /\ \A q \in DOMAIN questions : ~ BadKey(q)
    /\ usedIds = Present
    /\ home = [q \in DOMAIN questions |-> questions[q].quiz]
    /\ handler = [r \in Requests |-> [at |-> "idle"]]

-------------------------------------------------------------------------------
(* Resolving the slugs of a URL: 404, or the id the handler goes on with.      *)

ResolveCourse(r) ==
    /\ Idle(r)
    /\ \E slug \in CourseSlugs :
          \/ /\ \A c \in DOMAIN courses : courses[c] # slug
             /\ Reply(r, "rejected")
          \/ \E c \in DOMAIN courses, where \in {"insertLesson", "deleteLesson"} :
                /\ courses[c] = slug
                /\ Become(r, [at |-> where, course |-> c])
    /\ UNCHANGED tables

ResolveQuiz(r) ==
    /\ Idle(r)
    /\ \E slug \in QuizSlugs :
          \/ /\ \A z \in DOMAIN quizzes : quizzes[z].slug # slug
             /\ Reply(r, "rejected")
          \/ \E z \in DOMAIN quizzes,
                where \in {"insertQuestion", "checkPatch", "checkDelete", "grade"} :
                /\ quizzes[z].slug = slug
                /\ Become(r, [at |-> where, quiz |-> z])
    /\ UNCHANGED tables

-------------------------------------------------------------------------------
(* Rows that disappear, with everything their foreign keys cascade to.         *)

Delete(cs, ls, zs) ==
    LET lessonsToo == ls \cup {l \in DOMAIN lessons : lessons[l].course \in cs}
        quizzesToo == zs \cup {z \in DOMAIN quizzes : \/ quizzes[z].course \in cs
                                                      \/ quizzes[z].lesson \in lessonsToo}
    IN  /\ courses' = Drop(courses, cs)
        /\ lessons' = Drop(lessons, lessonsToo)
        /\ quizzes' = Drop(quizzes, quizzesToo)
        /\ questions' = Drop(questions, UNION {QuestionsOf(z) : z \in quizzesToo})
        /\ attempts' = {a \in attempts : a.quiz \notin quizzesToo}
        /\ UNCHANGED <<revisions, usedIds, home>>

RemoveCourse ==
    \E c \in DOMAIN courses : Delete({c}, {}, {}) /\ UNCHANGED handler

DeleteLesson(r) ==
    /\ At(r, "deleteLesson")
    /\ \E slug \in LessonSlugs :
          Delete({}, {l \in DOMAIN lessons : lessons[l] = [course |-> handler[r].course,
                                                           slug |-> slug]}, {})
    /\ Reply(r, "ok")

RemoveQuiz ==
    \E z \in DOMAIN quizzes : Delete({}, {}, {z}) /\ UNCHANGED handler

-------------------------------------------------------------------------------
(* Courses, lessons and quizzes are created, quizzes edited.                   *)

CreateCourse ==
    \E c \in CourseIds \ usedIds, slug \in CourseSlugs :
        /\ \A other \in DOMAIN courses : courses[other] # slug
        /\ courses' = Put(courses, c, slug)
        /\ usedIds' = usedIds \cup {c}
        /\ UNCHANGED <<lessons, quizzes, questions, attempts, revisions, home, handler>>

\* await insert: 409 when the course has a lesson of that slug, an error of the foreign key
\* when the course is gone.
InsertLesson(r) ==
    /\ At(r, "insertLesson")
    /\ LET c == handler[r].course
       IN \E slug \in LessonSlugs :
             \/ /\ \E l \in DOMAIN lessons : lessons[l] = [course |-> c, slug |-> slug]
                /\ Reply(r, "rejected")
                /\ UNCHANGED <<lessons, usedIds>>
             \/ /\ c \notin DOMAIN courses
                /\ Reply(r, "error")
                /\ UNCHANGED <<lessons, usedIds>>
             \/ /\ c \in DOMAIN courses
                /\ \A l \in DOMAIN lessons : lessons[l] # [course |-> c, slug |-> slug]
                /\ \E l \in LessonIds \ usedIds :
                      /\ lessons' = Put(lessons, l, [course |-> c, slug |-> slug])
                      /\ usedIds' = usedIds \cup {l}
                /\ Reply(r, "ok")
    /\ UNCHANGED <<courses, quizzes, questions, attempts, revisions, home>>

\* One INSERT: 409 for a slug in use, an error of the foreign key for a parent that does not
\* exist.  The body may name any uuid, of a row that is gone or never was.
CreateQuiz(r) ==
    /\ Idle(r)
    /\ \E slug \in QuizSlugs, c \in CourseIds \cup {NULL}, l \in LessonIds \cup {NULL} :
          \/ /\ \E z \in DOMAIN quizzes : quizzes[z].slug = slug
             /\ Reply(r, "rejected")
             /\ UNCHANGED <<quizzes, usedIds>>
          \/ /\ \A z \in DOMAIN quizzes : quizzes[z].slug # slug
             /\ ~ Exists({c, l})
             /\ Reply(r, "error")
             /\ UNCHANGED <<quizzes, usedIds>>
          \/ /\ \A z \in DOMAIN quizzes : quizzes[z].slug # slug
             /\ Exists({c, l})
             /\ \E z \in QuizIds \ usedIds :
                   /\ quizzes' = Put(quizzes, z, [slug |-> slug, course |-> c, lesson |-> l,
                                                  version |-> 1])
                   /\ usedIds' = usedIds \cup {z}
             /\ Reply(r, "ok")
    /\ UNCHANGED <<courses, lessons, questions, attempts, revisions, home>>

\* await getBySlug: 404, or the row the patch is merged into.
FindQuiz(r) ==
    /\ Idle(r)
    /\ \E slug \in QuizSlugs :
          \/ /\ \A z \in DOMAIN quizzes : quizzes[z].slug # slug
             /\ Reply(r, "rejected")
          \/ \E z \in DOMAIN quizzes :
                /\ quizzes[z].slug = slug
                /\ quizzes[z].version < MaxVersion
                /\ Become(r, [at |-> "edit", quiz |-> z, row |-> quizzes[z]])
    /\ UNCHANGED tables

\* A patch merged into a row read before: a parent it does not name stays, as it was read.
Edited(row, c, l) ==
    [row EXCEPT !.version = @ + 1,
                !.course = IF c = NULL THEN @ ELSE c,
                !.lesson = IF l = NULL THEN @ ELSE l]

\* The UPDATE by id of a quiz: no row when the quiz is gone, and then no foreign key to check.
Updatable(z, row) == z \in DOMAIN quizzes => Exists({row.course, row.lesson})
Update(z, row) == IF z \in DOMAIN quizzes THEN Put(quizzes, z, row) ELSE quizzes

\* The unique index of the revisions: another edit of this version was accepted.
Superseded_NoIndex(z, version) == FALSE
Superseded(z, version) == <<z, version>> \in revisions

\* An error inside the transaction undoes the revision it had inserted.
RollBack_NoTransaction(z, version) ==
    revisions' = revisions \cup {<<z, version>>} /\ UNCHANGED quizzes
RollBack(z, version) == UNCHANGED <<revisions, quizzes>>

\* The transaction of an update: it inserts the revision of the version it read, then updates
\* the row.  The patch may name any uuid as a parent.
EditQuiz(r) ==
    /\ At(r, "edit")
    /\ \E c \in CourseIds \cup {NULL}, l \in LessonIds \cup {NULL} :
          LET z       == handler[r].quiz
              version == handler[r].row.version
              merged  == Edited(handler[r].row, c, l)
          IN  \/ /\ ~ Superseded(z, version) /\ Updatable(z, merged)
                 /\ revisions' = revisions \cup {<<z, version>>}
                 /\ quizzes' = Update(z, merged)
                 /\ Reply(r, "ok")
              \/ /\ Superseded(z, version) \/ ~ Updatable(z, merged)
                 /\ RollBack(z, version)
                 /\ Reply(r, "error")
    /\ UNCHANGED <<courses, lessons, questions, attempts, usedIds, home>>

-------------------------------------------------------------------------------
(* Questions.                                                                  *)

\* Another question of quiz z holds the position.
Taken(z, position, q) ==
    \E other \in QuestionsOf(z) \ {q} : questions[other].position = position

\* createQuizQuestionSchema, then one INSERT: 409 for a position in use.
InsertQuestion(r) ==
    /\ At(r, "insertQuestion")
    /\ LET z == handler[r].quiz
       IN \E p \in Positions, n \in OptionCounts, k \in OptionIndices :
             \/ /\ ~ Fits(k, n) \/ Taken(z, p, NULL)
                /\ Reply(r, "rejected")
                /\ UNCHANGED <<questions, home>>
             \/ /\ Fits(k, n)
                /\ z \notin DOMAIN quizzes
                /\ Reply(r, "error")
                /\ UNCHANGED <<questions, home>>
             \/ /\ Fits(k, n)
                /\ z \in DOMAIN quizzes
                /\ ~ Taken(z, p, NULL)
                /\ \E q \in QuestionIds \ DOMAIN home :
                      /\ questions' = Put(questions, q, [quiz |-> z, position |-> p,
                                                         options |-> n, key |-> k])
                      /\ home' = Put(home, q, z)
                /\ Reply(r, "ok")
    /\ UNCHANGED <<courses, lessons, quizzes, attempts, revisions, usedIds>>

\* await listByQuiz: 404 unless the question of the URL is one of the quiz of the URL.
CheckQuestion(r) ==
    /\ At(r, "checkPatch") \/ At(r, "checkDelete")
    /\ \E q \in QuestionIds :
          \/ /\ q \notin QuestionsOf(handler[r].quiz)
             /\ Reply(r, "rejected")
          \/ /\ q \in QuestionsOf(handler[r].quiz)
             /\ Become(r, [at |-> IF At(r, "checkPatch") THEN "patch" ELSE "deleteQuestion",
                           quiz |-> handler[r].quiz, question |-> q])
    /\ UNCHANGED tables

\* updateQuizQuestionSchema compares the two fields only when both are sent.
Coherent_Inclusive(patch) ==
    NULL \notin {patch.key, patch.options} => patch.key <= patch.options
Coherent(patch) ==
    NULL \notin {patch.key, patch.options} => Fits(patch.key, patch.options)
Patched(row, patch) ==
    [row EXCEPT !.position = IF patch.position = NULL THEN @ ELSE patch.position,
                !.options  = IF patch.options = NULL THEN @ ELSE patch.options,
                !.key      = IF patch.key = NULL THEN @ ELSE patch.key]

\* One UPDATE by id: 404 when the question is gone, an error for a position in use.
PatchQuestion(r) ==
    /\ At(r, "patch")
    /\ LET q == handler[r].question
       IN \E patch \in QuestionPatch :
             \/ /\ ~ Coherent(patch) \/ q \notin DOMAIN questions
                /\ Reply(r, "rejected")
                /\ UNCHANGED questions
             \/ /\ Coherent(patch)
                /\ q \in DOMAIN questions
                /\ LET row == Patched(questions[q], patch)
                   IN  \/ /\ Taken(row.quiz, row.position, q)
                          /\ Reply(r, "error")
                          /\ UNCHANGED questions
                       \/ /\ ~ Taken(row.quiz, row.position, q)
                          /\ questions' = Put(questions, q, row)
                          /\ Reply(r, "ok")
    /\ UNCHANGED <<courses, lessons, quizzes, attempts, revisions, usedIds, home>>

DeleteQuestion(r) ==
    /\ At(r, "deleteQuestion")
    /\ questions' = Drop(questions, {handler[r].question})
    /\ Reply(r, "ok")
    /\ UNCHANGED <<courses, lessons, quizzes, attempts, revisions, usedIds, home>>

-------------------------------------------------------------------------------
(* Attempts.                                                                   *)

Graded(z, answers) ==
    LET correct == {i \in DOMAIN answers :
                       answers[i].choice = questions[answers[i].question].key}
    IN  [quiz |-> z, answers |-> answers, correct |-> correct, score |-> Cardinality(correct),
         total |-> Cardinality(QuestionsOf(z)), asked |-> QuestionsOf(z)]

\* submitQuizAttempt up to its insert, on one read of the questions: 404 for a quiz without
\* questions or a question of another quiz, 400 for another number of answers.
Grade(r) ==
    /\ At(r, "grade")
    /\ LET z == handler[r].quiz
       IN \/ Reply(r, "rejected")
          \/ \E answers \in Submission :
                /\ Len(answers) = Cardinality(QuestionsOf(z))
                /\ {answers[i].question : i \in DOMAIN answers} \subseteq QuestionsOf(z)
                /\ Become(r, [at |-> "record", attempt |-> Graded(z, answers)])
    /\ UNCHANGED tables

\* await record: one INSERT, an error when the quiz is gone.
RecordAttempt_NoKey(r) ==
    /\ At(r, "record")
    /\ attempts' = attempts \cup {handler[r].attempt}
    /\ Reply(r, "ok")
    /\ UNCHANGED <<courses, lessons, quizzes, questions, revisions, usedIds, home>>
RecordAttempt(r) ==
    /\ At(r, "record")
    /\ \/ /\ handler[r].attempt.quiz \notin DOMAIN quizzes
          /\ Reply(r, "error")
          /\ UNCHANGED attempts
       \/ /\ handler[r].attempt.quiz \in DOMAIN quizzes
          /\ attempts' = attempts \cup {handler[r].attempt}
          /\ Reply(r, "ok")
    /\ UNCHANGED <<courses, lessons, quizzes, questions, revisions, usedIds, home>>

-------------------------------------------------------------------------------
(* Every other error of a statement.                                           *)

\* A 500 for what these tables do not show: a number its column cannot hold, a patch of no
\* field, a lost connection.  The statement, or its transaction, has done nothing.
FailStatement(r) ==
    /\ handler[r].at \notin {"ok", "rejected", "error"}
    /\ Reply(r, "error")
    /\ UNCHANGED tables

-------------------------------------------------------------------------------

Step(r) ==
    \/ ResolveCourse(r) \/ InsertLesson(r) \/ DeleteLesson(r)
    \/ CreateQuiz(r) \/ FindQuiz(r) \/ EditQuiz(r)
    \/ ResolveQuiz(r) \/ InsertQuestion(r)
    \/ CheckQuestion(r) \/ PatchQuestion(r) \/ DeleteQuestion(r)
    \/ Grade(r) \/ RecordAttempt(r)
    \/ FailStatement(r)

Next ==
    \/ CreateCourse \/ RemoveCourse \/ RemoveQuiz
    \/ \E r \in Requests : Step(r)

Spec == Init /\ [][Next]_vars

-------------------------------------------------------------------------------
(* Correctness                                                                 *)

\* "Without this check the URL would lie about what it operates on" (app.ts): a question
\* stays in the quiz it was created in, and an edit that was let through by the URL of one
\* quiz never reaches a question of another, however late it runs.
QuestionsStayHome ==
    /\ \A q \in DOMAIN questions : q \in DOMAIN home /\ questions[q].quiz = home[q]
    /\ \A r \in Requests :
          handler[r].at \in {"patch", "deleteQuestion"} =>
             /\ handler[r].question \in DOMAIN home
             /\ home[handler[r].question] = handler[r].quiz

\* "A wrong or partial score written to quiz_attempts is a fabricated result"
\* (quiz-scoring.ts): an attempt has as many answers as its quiz had questions, all of them
\* questions of that quiz, and when no question is answered twice it answers every one.
AttemptIsWhole(a) ==
    LET answered == {a.answers[i].question : i \in DOMAIN a.answers}
    IN  /\ Len(a.answers) = a.total
        /\ a.correct \subseteq DOMAIN a.answers
        /\ a.score = Cardinality(a.correct)
        /\ \A q \in answered : q \in DOMAIN home /\ home[q] = a.quiz
        /\ Cardinality(answered) = a.total => answered = a.asked
AttemptsAreWhole ==
    /\ \A a \in attempts : AttemptIsWhole(a)
    /\ \A r \in Requests : At(r, "record") => AttemptIsWhole(handler[r].attempt)

\* What a handler holds was there when it read it and is at most out of date: its ids were
\* all generated once, and the quiz it edits has kept its slug and not gone back to an
\* earlier version.
ReadsLagBehind ==
    \A r \in Requests :
        LET h == handler[r] IN
        /\ h.at \in {"insertLesson", "deleteLesson"} => h.course \in usedIds
        /\ h.at \in {"edit", "insertQuestion", "checkPatch", "checkDelete", "grade",
                     "patch", "deleteQuestion"} => h.quiz \in usedIds
        /\ At(r, "record") => h.attempt.quiz \in usedIds
        /\ At(r, "edit") =>
              /\ {h.row.course, h.row.lesson} \ {NULL} \subseteq usedIds
              /\ h.quiz \in DOMAIN quizzes => /\ h.row.version <= quizzes[h.quiz].version
                                              /\ h.row.slug = quizzes[h.quiz].slug

\* The revisions of a quiz that exists are those of the versions it has left behind, whatever
\* failed halfway: one too many, of an edit that was refused for its parent, would answer
\* every later edit of the quiz with a 500; one too few would let a stale edit through.
HistoryIsWhole ==
    \A z \in DOMAIN quizzes, v \in 1..MaxVersion :
        <<z, v>> \in revisions <=> v < quizzes[z].version

\* No edit is lost: a quiz changes only by an edit that was merged into the row it replaces,
\* although the row was read before the transaction and other editors, the removal of the
\* quiz and that of its parents come in between.
EditsReplaceWhatTheyRead ==
    [][ \A z \in DOMAIN quizzes \cap DOMAIN quizzes' :
           quizzes'[z] # quizzes[z] =>
              /\ quizzes'[z].version = quizzes[z].version + 1
              /\ \E r \in Requests : At(r, "edit") /\ handler[r].quiz = z
                                                   /\ handler[r].row = quizzes[z] ]_vars

\* Only a patch of one of the two fields can leave a question whose key is none of its
\* options: creations and complete patches keep them together in any interleaving.
KeysBreakOnlyByHalfPatches ==
    [][ \A q \in DOMAIN questions' :
           BadKey(q)' => \/ q \in DOMAIN questions /\ BadKey(q)
                         \/ /\ q \in DOMAIN questions
                            /\ \/ questions'[q].key = questions[q].key
                               \/ questions'[q].options = questions[q].options ]_vars

\* Everything above that is a state predicate, with the types it rests on.
QuizInv ==
    /\ TypeOK
    /\ Present \subseteq usedIds
    /\ NoOrphans
    /\ NamesAreUnique
    /\ QuestionsStayHome
    /\ AttemptsAreWhole
    /\ ReadsLagBehind

===============================================================================
