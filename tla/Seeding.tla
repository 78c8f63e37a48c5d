-------------------------------- MODULE Seeding --------------------------------
(***************************************************************************)
(* services/education: seedEducationContent, the runs of which write the   *)
(* baseline categories, tags and content, each row after a read that did   *)
(* not find it, while admins edit the same tables.                         *)
(*                                                                         *)
(* Every repository call is one statement, and a step.  A run is not a     *)
(* transaction: it may stop between any two calls, and a later run takes   *)
(* up what it left.  An admin's request is one step here; EducationContent *)
(* and Quizzes have the interleavings of those.                            *)
(***************************************************************************)
EXTENDS Integers, Sequences, FiniteSetsExt, Tables

CONSTANTS
    Runs,         \* the runs at a time; one that is over gives its place to a later one
    MaxStarts,    \* bound on the runs of a behaviour
    MaxRows,      \* bound on the rows ever created under one name
    MaxEdits,     \* bound on what the admins do
    NoRow

ASSUME BoundsAssumption == MaxRows \in Nat \ {0} /\ MaxEdits \in Nat /\ MaxStarts \in Nat

-------------------------------------------------------------------------------
(* What is seeded: a row or two of every list, with a tag or none.  The        *)
(* iterations of a loop share nothing, so that one term, course, lesson and     *)
(* strategy stand for all.                                                     *)

CATEGORIES    == <<"technical-analysis">>
TAGS          == <<"charting">>
GLOSSARY_TERM == [slug |-> "moving-average", tags |-> <<"charting">>]
COURSE ==
    [slug |-> "intro", tags |-> <<"charting">>, lesson |-> "candlesticks",
     quiz |-> [slug |-> "intro-quiz", questions |-> <<"#0", "#1">>]]
STRATEGY      == [slug |-> "breakout", tags |-> <<>>]

\* list: what is written one by one, after the row if there is one.
Item(type, slug, tags) == [kind |-> "row", type |-> type, slug |-> slug, list |-> tags]

\* The order of seedEducationContent.
Work ==
    <<[kind |-> "categories", list |-> CATEGORIES],
      [kind |-> "tags", list |-> TAGS],
      Item("glossary_term", GLOSSARY_TERM.slug, GLOSSARY_TERM.tags),
      Item("course", COURSE.slug, COURSE.tags),
      Item("lesson", COURSE.lesson, <<>>),
      Item("quiz", COURSE.quiz.slug, <<>>),
      [kind |-> "questions", list |-> COURSE.quiz.questions],
      Item("strategy", STRATEGY.slug, STRATEGY.tags)>>

RowItems == {item \in Range(Work) : item.kind = "row"}
\* The seed gives no two rows one slug, so that a row is named by it.
Names == {item.slug : item \in RowItems}
TypeOf == [name \in Names |-> (CHOOSE item \in RowItems : item.slug = name).type]
Questions == Range(COURSE.quiz.questions)

\* The primary key of a row: it is the n-th that was created under its name.
RowIds == [name : Names, n : 1..MaxRows]

ASSUME NoRowAssumption == NoRow \notin RowIds

\* How many rows a complete run is about; attached tags are not counted.
AllRows ==
    Len(CATEGORIES) + Len(TAGS) + Cardinality(RowItems) + Len(COURSE.quiz.questions)

VARIABLES
    categories,    \* the slugs in education_categories
    tags,          \* the slugs in education_tags; no route deletes from either
    rows,          \* the five content tables: id -> the course it belongs to, or NoRow
    born,          \* how many rows were ever created under each name
    questions,     \* quiz_questions
    contentTags,   \* education_content_tags
    run,           \* each run of the seed
    starts,        \* how many runs have begun
    edits,         \* how often admins have acted
    overlapped,    \* history: the runs during which another run or an admin was active
    removed,       \* history: the names of which admins removed something since each run began
    torn           \* history: the quizzes whose questions a run left halfway, or an admin chose

tables == <<categories, tags, rows, born, questions, contentTags>>
seedVars == <<tables, run, starts, edits, overlapped, removed, torn>>

-------------------------------------------------------------------------------

\* Ids are of rows that were created, if not of rows that still are.
IsId(id) == id \in RowIds /\ id.n <= born[id.name]
IsIdOrNull(id) == id = NoRow \/ IsId(id)

Over == {"idle", "done", "failed"}
RunPhases == {"look", "create", "listTags", "write"}
\* todo: the positions left of the list; fresh: it began with something missing (history).
RunStates ==
    [at : Over \cup RunPhases, step : DOMAIN Work, todo : SUBSET Nat,
     row : RowIds \cup {NoRow}, course : RowIds \cup {NoRow},
     inserted : Nat, skipped : Nat, fresh : BOOLEAN]
IsRun(r) ==
    /\ r \in RunStates
    /\ r.todo \subseteq DOMAIN Work[r.step].list
    /\ IsIdOrNull(r.row) /\ IsIdOrNull(r.course)

\* contentId is no foreign key: the row of an attachment may be gone.
IsAttachment(x) == IsId(x.content) /\ x.tag \in Range(TAGS)

SeedTypeOK ==
    /\ categories \subseteq Range(CATEGORIES) /\ tags \subseteq Range(TAGS)
    /\ born \in [Names -> 0..MaxRows]
    /\ \A id \in DOMAIN rows : IsId(id) /\ IsIdOrNull(rows[id])
    /\ \A q \in questions : IsId(q.quiz) /\ q.orderIndex \in Questions
    /\ \A x \in contentTags : IsAttachment(x)
    /\ DOMAIN run = Runs /\ \A p \in Runs : IsRun(run[p])
    /\ starts \in 0..MaxStarts /\ edits \in 0..MaxEdits
    /\ overlapped \subseteq Runs
    /\ removed \in [Runs -> SUBSET Names]
    /\ \A id \in torn : IsId(id)

NotStarted ==
    [at |-> "idle", step |-> 1, todo |-> {}, row |-> NoRow, course |-> NoRow,
     inserted |-> 0, skipped |-> 0, fresh |-> FALSE]

SeedInit ==
    /\ categories = {} /\ tags = {}
    /\ rows = EmptyTable /\ born = [name \in Names |-> 0]
    /\ questions = {} /\ contentTags = {}
    /\ run = [p \in Runs |-> NotStarted]
    /\ starts = 0 /\ edits = 0 /\ overlapped = {} /\ removed = [p \in Runs |-> {}] /\ torn = {}

Active(p) == run[p].at \notin Over
Called(name) == {id \in DOMAIN rows : id.name = name}
QuestionsIn(id) == {q.orderIndex : q \in {x \in questions : x.quiz = id}}
TagsOf(id) == {x.tag : x \in {y \in contentTags : y.content = id}}

\* An item has all the seed gives it: its row, the tags of its row.
HasRow(item) == Called(item.slug) # {}
HasTags(item) ==
    \A id \in Called(item.slug) : Range(item.list) \subseteq TagsOf(id)
HasQuestions(id) == Questions \subseteq QuestionsIn(id)
Whole ==
    /\ categories = Range(CATEGORIES) /\ tags = Range(TAGS)
    /\ \A item \in RowItems : HasRow(item) /\ HasTags(item)
    /\ \A id \in DOMAIN rows : TypeOf[id.name] = "quiz" => HasQuestions(id)

-------------------------------------------------------------------------------
(* A run.                                                                      *)

Here(p) == Work[run[p].step]
At(p, where) == Active(p) /\ run[p].at = where
Become(p, r) == run' = [run EXCEPT ![p] = r]

\* On to the next item, or the end, where the counts are what is left of the run.
Advanced(r) ==
    IF r.step = Len(Work)
    THEN [NotStarted EXCEPT !.at = "done", !.inserted = r.inserted, !.skipped = r.skipped,
                            !.fresh = r.fresh]
    ELSE [r EXCEPT !.step = @ + 1, !.at = "look", !.todo = {}]
\* On with what is left of this one.
Left(r, todo) == IF todo = {} THEN Advanced(r) ELSE [r EXCEPT !.at = "write", !.todo = todo]
\* The positions of a list whose members are not there yet, and the next member to write.
Missing(list, there) == {i \in DOMAIN list : list[i] \notin there}
NextOf(p) == Here(p).list[Min(run[p].todo)]
RestOf(p) == run[p].todo \ {Min(run[p].todo)}

\* Whoever else is running overlaps with this run, and it with them.
Start(p) ==
    /\ ~ Active(p)
    /\ starts < MaxStarts /\ starts' = starts + 1
    /\ Become(p, [NotStarted EXCEPT !.at = "look", !.fresh = ~ Whole])
    /\ LET others == {q \in Runs \ {p} : Active(q)}
       IN overlapped' = (overlapped \ {p}) \cup others \cup (IF others # {} THEN {p} ELSE {})
    /\ removed' = [removed EXCEPT ![p] = {}]
    /\ UNCHANGED <<tables, edits, torn>>

\* list() of the categories or the tags: what is there is skipped.
ListReference(p) ==
    /\ At(p, "look") /\ Here(p).kind \in {"categories", "tags"}
    /\ LET list    == Here(p).list
           missing == Missing(list, IF Here(p).kind = "categories" THEN categories ELSE tags)
       IN Become(p, Left([run[p] EXCEPT !.skipped = @ + Len(list) - Cardinality(missing)], missing))
    /\ UNCHANGED <<tables, starts, edits, overlapped, removed, torn>>

\* A run that fails or stops among the questions of a quiz leaves them halfway.
Halfway(p) ==
    IF run[p].at = "write" /\ Here(p).kind = "questions" /\ run[p].todo # DOMAIN Here(p).list
    THEN {run[p].row}
    ELSE {}
Fail(p) ==
    /\ Become(p, [NotStarted EXCEPT !.at = "failed"])
    /\ torn' = torn \cup Halfway(p)
    /\ UNCHANGED tables
Written(p) ==
    /\ Become(p, Left([run[p] EXCEPT !.inserted = @ + 1], RestOf(p)))
    /\ UNCHANGED torn

\* create() of a category or a tag: SlugInUseError, which nobody catches, when another was quicker.
CreateReference(p) ==
    /\ At(p, "write") /\ Here(p).kind \in {"categories", "tags"}
    /\ LET slug == NextOf(p)
           category == Here(p).kind = "categories"
       IN \/ slug \in (IF category THEN categories ELSE tags) /\ Fail(p)
          \/ /\ \/ category /\ slug \notin categories
                   /\ categories' = categories \cup {slug} /\ UNCHANGED tags
                \/ ~ category /\ slug \notin tags
                   /\ tags' = tags \cup {slug} /\ UNCHANGED categories
             /\ UNCHANGED <<rows, born, questions, contentTags>>
             /\ Written(p)
    /\ UNCHANGED <<starts, edits, overlapped, removed>>

\* The row of the item is known: its tags are next, if it has any.
WithRow(r, item, id) ==
    LET known == [r EXCEPT !.row = id, !.course = IF item.type = "course" THEN id ELSE @]
    IN IF item.list = <<>> THEN Advanced(known) ELSE [known EXCEPT !.at = "listTags"]

\* getBySlug, of a lesson within the course of this run.
Found(p) ==
    {id \in Called(Here(p).slug) :
        Here(p).type = "lesson" => rows[id] = run[p].course}
LookForRow_NoTags(p) ==
    /\ At(p, "look") /\ Here(p).kind = "row"
    /\ \/ /\ Found(p) = {}
          /\ Become(p, [run[p] EXCEPT !.at = "create"])
       \/ \E id \in Found(p) :
             Become(p, WithRow([run[p] EXCEPT !.skipped = @ + 1], [Here(p) EXCEPT !.list = <<>>], id))
    /\ UNCHANGED <<tables, starts, edits, overlapped, removed, torn>>
LookForRow(p) ==
    /\ At(p, "look") /\ Here(p).kind = "row"
    /\ \/ /\ Found(p) = {}
          /\ Become(p, [run[p] EXCEPT !.at = "create"])
       \/ \E id \in Found(p) :
             Become(p, WithRow([run[p] EXCEPT !.skipped = @ + 1], Here(p), id))
    /\ UNCHANGED <<tables, starts, edits, overlapped, removed, torn>>

\* An INSERT of a content row under a name, unless the slug is taken.
InsertRow(name, course) ==
    LET id == [name |-> name, n |-> born[name] + 1]
    IN /\ rows' = Put(rows, id, course)
       /\ born' = [born EXCEPT ![name] = @ + 1]
       /\ UNCHANGED <<categories, tags, questions, contentTags>>

\* create() of the row: SlugInUseError, or a foreign key that is gone.
CreateRow(p) ==
    /\ At(p, "create")
    /\ LET item == Here(p)
           name == item.slug
           course == IF item.type \in {"lesson", "quiz"} THEN run[p].course ELSE NoRow
           gone == course # NoRow /\ course \notin DOMAIN rows
       IN \/ /\ Found(p) # {} \/ gone
             /\ Fail(p)
          \/ /\ Found(p) = {} /\ ~ gone
             /\ born[name] < MaxRows
             /\ InsertRow(name, course)
             /\ Become(p, WithRow([run[p] EXCEPT !.inserted = @ + 1], item,
                                  [name |-> name, n |-> born[name] + 1]))
             /\ UNCHANGED torn
    /\ UNCHANGED <<starts, edits, overlapped, removed>>

\* attachTags, listForContent: the tags not attached yet.
ListTags_All(p) ==
    /\ At(p, "listTags")
    /\ Become(p, Left(run[p], DOMAIN Here(p).list))
    /\ UNCHANGED <<tables, starts, edits, overlapped, removed, torn>>
ListTags(p) ==
    /\ At(p, "listTags")
    /\ Become(p, Left(run[p], Missing(Here(p).list, TagsOf(run[p].row))))
    /\ UNCHANGED <<tables, starts, edits, overlapped, removed, torn>>

\* attach(), whether or not the row is still there; a DuplicateError ends the run.
Attach(p) ==
    /\ At(p, "write") /\ Here(p).kind = "row"
    /\ LET new == [content |-> run[p].row, tag |-> NextOf(p)]
       IN \/ new \in contentTags /\ Fail(p)
          \/ /\ new \notin contentTags
             /\ contentTags' = contentTags \cup {new}
             /\ Become(p, Left(run[p], RestOf(p)))
             /\ UNCHANGED <<categories, tags, rows, born, questions, torn>>
    /\ UNCHANGED <<starts, edits, overlapped, removed>>

\* listByQuiz: a quiz that has any question is left as it is.
ListQuestions_OneSkip(p) ==
    /\ At(p, "look") /\ Here(p).kind = "questions"
    /\ LET existing == QuestionsIn(run[p].row)
       IN Become(p, IF existing # {}
                    THEN Advanced([run[p] EXCEPT !.skipped = @ + 1])
                    ELSE Left(run[p], DOMAIN Here(p).list))
    /\ UNCHANGED <<tables, starts, edits, overlapped, removed, torn>>
ListQuestions(p) ==
    /\ At(p, "look") /\ Here(p).kind = "questions"
    /\ LET existing == QuestionsIn(run[p].row)
       IN Become(p, IF existing # {}
                    THEN Advanced([run[p] EXCEPT !.skipped = @ + Cardinality(existing)])
                    ELSE Left(run[p], DOMAIN Here(p).list))
    /\ UNCHANGED <<tables, starts, edits, overlapped, removed, torn>>

\* create() of a question: a DuplicateError, or the quiz is gone.
CreateQuestion(p) ==
    /\ At(p, "write") /\ Here(p).kind = "questions"
    /\ LET new == [quiz |-> run[p].row, orderIndex |-> NextOf(p)]
       IN \/ /\ new \in questions \/ new.quiz \notin DOMAIN rows
             /\ Fail(p)
          \/ /\ new \notin questions /\ new.quiz \in DOMAIN rows
             /\ questions' = questions \cup {new}
             /\ UNCHANGED <<categories, tags, rows, born, contentTags>>
             /\ Written(p)
    /\ UNCHANGED <<starts, edits, overlapped, removed>>

\* The process ends, or the database does not answer; only what it wrote is left of the run.
Stop(p) ==
    /\ Active(p)
    /\ Become(p, NotStarted)
    /\ torn' = torn \cup Halfway(p)
    /\ overlapped' = overlapped \ {p}
    /\ removed' = [removed EXCEPT ![p] = {}]
    /\ UNCHANGED <<tables, starts, edits>>

-------------------------------------------------------------------------------
(* The admins.                                                                 *)

AdminActs(gone) ==
    /\ overlapped' = overlapped \cup {p \in Runs : Active(p)}
    /\ removed' = [p \in Runs |-> IF run[p].at \in {"idle", "failed"} THEN removed[p]
                                   ELSE removed[p] \cup gone]
    /\ UNCHANGED <<run, starts>>

\* POST of a row of their own with a slug the seed has; a quiz without a course.
AdminCreates(name) ==
    /\ born[name] < MaxRows
    /\ \/ /\ TypeOf[name] # "lesson" /\ Called(name) = {}
          /\ InsertRow(name, NoRow)
       \/ \E course \in DOMAIN rows :
             /\ TypeOf[name] = "lesson" /\ TypeOf[course.name] = "course"
             /\ \A id \in Called(name) : rows[id] # course
             /\ InsertRow(name, course)
    /\ AdminActs({})
    /\ UNCHANGED torn

\* DELETE of a row, and what its foreign keys cascade to: the lessons and quizzes of a
\* course, the questions of a quiz; tags stay attached to ids that are gone.
AdminRemoves_NoCascade(id) ==
    /\ rows' = Drop(rows, {id})
    /\ questions' = {q \in questions : q.quiz # id}
    /\ UNCHANGED <<categories, tags, born, contentTags, torn>>
    /\ AdminActs({id.name})
AdminRemoves(id) ==
    LET gone == {id} \cup {x \in DOMAIN rows : rows[x] = id}
    IN /\ rows' = Drop(rows, gone)
       /\ questions' = {q \in questions : q.quiz \notin gone}
       /\ UNCHANGED <<categories, tags, born, contentTags, torn>>
       /\ AdminActs({x.name : x \in gone})

\* POST and DELETE of a question.
AdminAddsQuestion(id, i) ==
    /\ TypeOf[id.name] = "quiz" /\ i \notin QuestionsIn(id)
    /\ questions' = questions \cup {[quiz |-> id, orderIndex |-> i]}
    /\ torn' = torn \cup {id}
    /\ UNCHANGED <<categories, tags, rows, born, contentTags>>
    /\ AdminActs({})
AdminRemovesQuestion(q) ==
    /\ questions' = questions \ {q}
    /\ torn' = torn \cup {q.quiz}
    /\ UNCHANGED <<categories, tags, rows, born, contentTags>>
    /\ AdminActs({})

\* POST and DELETE of a tag of a row.
AdminTags(id, tag) ==
    /\ tag \in tags \ TagsOf(id)
    /\ contentTags' = contentTags \cup {[content |-> id, tag |-> tag]}
    /\ UNCHANGED <<categories, tags, rows, born, questions, torn>>
    /\ AdminActs({})
AdminUntags(x) ==
    /\ contentTags' = contentTags \ {x}
    /\ UNCHANGED <<categories, tags, rows, born, questions, torn>>
    /\ AdminActs({x.content.name})

\* POST of a category or a tag of theirs.
AdminAddsReference ==
    /\ \/ \E slug \in Range(CATEGORIES) \ categories :
             categories' = categories \cup {slug} /\ UNCHANGED tags
       \/ \E slug \in Range(TAGS) \ tags : tags' = tags \cup {slug} /\ UNCHANGED categories
    /\ UNCHANGED <<rows, born, questions, contentTags, torn>>
    /\ AdminActs({})

-------------------------------------------------------------------------------

Admin ==
    /\ edits < MaxEdits /\ edits' = edits + 1
    /\ \/ AdminAddsReference
       \/ \E name \in Names : AdminCreates(name)
       \/ \E id \in DOMAIN rows :
             \/ AdminRemoves(id)
             \/ \E i \in Questions : AdminAddsQuestion(id, i)
             \/ \E tag \in tags : AdminTags(id, tag)
       \/ \E q \in questions : AdminRemovesQuestion(q)
       \/ \E x \in contentTags : AdminUntags(x)

SeedStep(p) ==
    \/ Start(p) \/ ListReference(p) \/ CreateReference(p)
    \/ LookForRow(p) \/ CreateRow(p) \/ ListTags(p) \/ Attach(p)
    \/ ListQuestions(p) \/ CreateQuestion(p)
    \/ Stop(p)

SeedNext == Admin \/ \E p \in Runs : SeedStep(p)

SeedSpec == SeedInit /\ [][SeedNext]_seedVars

-------------------------------------------------------------------------------
(* Correctness                                                                 *)

\* No lesson, quiz or question outlives what it belongs to, although the seed keeps the ids
\* of its course and quiz over many calls while admins remove them; and no two rows have one
\* slug, although the seed and the admins insert the same ones.
NoOrphans ==
    /\ \A id \in DOMAIN rows : rows[id] # NoRow => rows[id] \in DOMAIN rows
    /\ \A q \in questions : q.quiz \in DOMAIN rows
NamesAreUnique ==
    \A id \in DOMAIN rows : \A other \in Called(id.name) \ {id} :
        TypeOf[id.name] = "lesson" /\ rows[id] # rows[other]

SeedInv == SeedTypeOK /\ NoOrphans /\ NamesAreUnique

\* A run that ended well leaves every row of the seed with its tags and questions, whatever
\* earlier runs left behind, failed at or do at the same time, and whatever admins created
\* ("safe to run on every boot/deploy", seed.ts); what admins took away meanwhile excepted,
\* and a quiz whose questions another run left, or is still, halfway.
FinishedMeansSeeded ==
    \A p \in {x \in Runs : run[x].at = "done"} :
        /\ categories = Range(CATEGORIES) /\ tags = Range(TAGS)
        /\ \A item \in RowItems :
              item.slug \notin removed[p] =>
                  /\ HasRow(item) /\ HasTags(item)
                  /\ item.type = "quiz" =>
                        \A id \in Called(item.slug) :
                            \/ HasQuestions(id)
                            \/ id \in torn
                            \/ \E q \in Runs : Halfway(q) = {id} /\ Active(q)

\* A run fails only when another run or an admin was active during it: nothing an earlier
\* run has left, wherever it stopped, makes a run fail on its own.
AloneNeverFails == \A p \in Runs : run[p].at = "failed" => p \in overlapped

\* The counts of an undisturbed run add up to the rows of the seed, and one that began with
\* everything there inserts nothing (seed.ts: "a true row count on a re-run"); only a quiz
\* some run has left halfway, or an admin has changed, is counted by what it has.
CountsAddUp ==
    \A p \in Runs \ overlapped :
        run[p].at = "done" =>
            /\ torn = {} => run[p].inserted + run[p].skipped = AllRows
            /\ ~ run[p].fresh => run[p].inserted = 0

================================================================================
