# Tradosphere-OS in TLA+

TLA+ models of the parts of Tradosphere-OS that keep state and run concurrently,
the TLC configurations that check them on small instances, and TLAPS proofs that
hold for every value of the constants. `PROJECT.json` lists components, runs,
mutants, theorems, hazards, and for every definition the source lines it models.

    tlc -config AuthSessions.cfg MCAuthSessions      # a run
    tlapm AuthSessionsProofs.tla                     # a proof

Paths below are relative to the root of the repository.

## 1. The system

A gateway (`apps/api`) stands in front of five Fastify services (auth,
market-data, education, portfolio, analytics), which it proxies, and runs five
libraries in its own process (research, ai, cio, paper-trading, journal). They
share one PostgreSQL database (`packages/database`) and one Redis instance
(`packages/event-bus`). The web client (`apps/web`) reaches all of it through
`packages/sdk`.

Every service is single-threaded Node: a handler runs without interruption to
its next `await`, and handlers of concurrent requests (or of several replicas of
a service) interleave there. Almost every `await` is one SQL statement, atomic by
itself. So what is hard in this code is what happens *between* two statements,
and what the database's indexes, foreign keys and transactions make of it.

| Component | State | Operations | Interacts with | What makes it correct |
|---|---|---|---|---|
| auth service | `users`, `sessions`; refresh tokens that clients hold | signup, login, refresh, logout | all services verify its access tokens | one account per address; a session is opened once, replaced only after it is revoked, and never comes back; no race ends in a 500 |
| market data | `market_ticks` | live ticks, historical backfill, publication on Redis, tick stream | paper trading and portfolio query the latest tick | a stored tick never changes; latest is by exchange time; subscribers see what is stored |
| paper trading | none | placeOrder: validate, latest price, fill | gateway route | fills are at real and current ticks, never assumed |
| trading journal | `journal_entries` | create from a fill, record an outcome, list | gateway routes; portfolio and analytics read it | an outcome is written once, with the profit of the entry's own fill; entries outlive accounts |
| portfolio | `portfolio_snapshots` | positions, cash, P&L, summary, performance, allocation, risk, snapshot, history | reads journal and ticks | the two ways to compute equity agree, in what is stored and what is answered; prices are fresh; an incomplete valuation is never stored |
| education content | content tables, `education_content_revisions` | create, update, remove of versioned content | JWT of auth | histories are complete; no accepted edit is lost |
| courses and quizzes | courses, lessons, quizzes, `quiz_questions`, `quiz_attempts` | create, patch, delete; grading of an attempt | JWT of auth; the education screen | rows do not outlive their parents; an edit reaches the question it names; a score is the score of the quiz |
| education seed | the same tables, categories, tags | one pass at start-up, each row unless it is there | admins, other replicas | a run that ends well left everything; what an earlier run left makes none fail |
| education screen (web) | React state of two libraries; `education_user_progress` | select, answer, submit, mark progress | education through gateway and SDK | what is shown belongs to what is selected; nothing hangs; a completion is not taken back |
| order form (web) | React state of one form | submit (position check, order, fill), save to journal | portfolio, paper trading and journal routes | no fill is journaled twice; sells are covered; the form never stays disabled; labels tell the truth |
| journal page (web) | React state of the list and its forms | load, record an outcome | journal routes | every entry shown is one the journal has, with its outcome; nothing waits for ever |
| web session | `localStorage` session | login, logout, restoreSession with one refresh | auth service | a rejected session is not kept, a session once given up is not stored again, the screen agrees with the tokens |
| event bus, streams | Redis channels; sockets | publish, subscribe, unsubscribe; fan-out to sockets; reconnecting client | market data, CIO route, web | no handler goes silent; one live socket per client; a client reconnects |
| research, AI experts | `company_fundamentals` | ingest financials; nine opinions, three of them of other opinions | gateway routes | every opinion passes the framework's own schema; missing data is neutral without confidence |
| CIO engine | none | consensus, risk gate, trade idea, trace | gateway route, which publishes the verdict | an idea respects every limit at the prices it shows; the trace reproduces the verdict; each expert votes once |
| analytics | `analytics_reports` | statistics, breakdowns, stored reports | reads journal and snapshots | figures agree with each other; breakdowns lose no trade; later reports take nothing back |
| gateway proxy | none | forward a request, relay the answer | five services | 502 when a service is unreachable |

`apps/admin`, `apps/docs`, `apps/mobile`, `services/broker`,
`services/notifications`, `packages/ui`, `infrastructure` and `tests` are empty
placeholders.

### What is hard

* **Check, await, act.** signup (find, then insert), refresh (find, then revoke,
  then insert), recordOutcome (read, then update), education updates (read, then
  a transaction), snapshots (one journal read, one price read per position), the
  order form (position read, then order), quiz routes (slug resolved, then the id
  used), the seed (looked for, then inserted). Each leaves a window that an index, a
  condition in an UPDATE or nothing at all closes.
* **Partial work.** A handler can stop at every await: the connection drops, a
  query fails, the process is replaced. What it wrote stays, except inside the one
  transaction the code opens.
* **Order.** Ticks are stored out of order and twice; answers of overlapping
  calls reach the browser in any order.
* **Deletion under a request.** Accounts go away (CASCADE for sessions, SET NULL
  for journal entries and snapshots), courses and quizzes with all they contain,
  while handlers hold their ids.
* **Several ways to one number.** Equity, profit, breakdowns, confidence and
  risk-reward are each computed in two places, over data that moves between them.

## 2. The modules

    Tables                      a table as a function from keys to rows
    DataLemmas                  lemmas about tables, folds over places and sums over finite sets,
                                which all the proof modules use
    TokenLifecycle              abstract: a refresh token is fresh, then live, then dead
    AuthSessions                services/auth; implements TokenLifecycle
      MCAuthSessions, AuthSessionsProofs
    MarketTicks                 market_ticks: idempotent insert, latest price
    JournalBook                 abstract: the write-once book of trades
    TradeJournal                orders, fills, entries, outcomes; implements JournalBook
      MCTradeJournal, TradeJournalProofs
    Portfolio                   mark-to-market and snapshots over JournalBook and MarketTicks
      MCPortfolio, PortfolioProofs
    JournalList                 the web journal page
    OrderForm                   the web order form, extends JournalList: both screens over one journal
      WebPagesProofs            (with LearningCenter)
    VersionedContent            abstract: edits applied to the very version they replace
    EducationContent            versioned content and its revisions; implements VersionedContent
      MCEducationContent, EducationContentProofs
    Quizzes                     courses, lessons, quizzes, questions, attempts
      MCQuizzes, QuizzesProofs
    LearningCenter              the education screen: course and quiz libraries, progress
      MCLearningCenter, WebPagesProofs
    Seeding                     runs of the education seed
      MCSeeding, EducationContentProofs
    TradeStats                  operators: the statistics of a journal and an equity curve
    Analytics                   the analytics routes over a moving journal; uses TradeStats
      MCAnalytics, PortfolioProofs
    CioEngine                   operators: consensus, gate, idea, trace
    ExpertAgents                operators: the nine experts; extends CioEngine
    Council                     a client's calls of experts and verdicts; uses ExpertAgents
      MCCouncil
    MarketFeed                  ingestion, publication, gateway stream and web client, over MarketTicks
      MCMarketFeed, GatewayProofs
    WebSession                  login, logout and restoreSession in tabs of one browser
      WebPagesProofs            (with LearningCenter)

All service modules have one shape. A request is a process: `request[r]` is what
the client sent, `pc[r]` where its handler is or the reply it gave, and a further
variable holds the locals that survive an await. An action is the code between
two awaits together with the one statement it awaits. `Abort(r)` stops a handler
at any await and leaves what it wrote. Tables are functions from primary keys;
unique indexes and foreign keys are the conditions under which an insert fails.
Body validation and authentication happen before a handler's first await and
change nothing, so a request arrives already validated, except where the code
that rejects it is modelled (`validateOrder`, `validateOutcome`, the JWT).

### AuthSessions

| Model | Code |
|---|---|
| `users`, `sessions` | tables of `packages/database/src/schema.ts`; `revoked` is `revoked_at IS NOT NULL` |
| `issued` | the claims of every refresh token ever signed |
| `SignupFind`, `SignupCreate` | `signup()`, and `create()` mapping the unique violation to 409 |
| `LoginFind` | `login()`: the bcrypt comparison is decided by the row that was read |
| `Issue`, `InsertSession` | `issueTokens()`; the insert meets the foreign key and the unique hash |
| `RefreshFind`, `RefreshUser`, `RefreshRevoke` | `refresh()`, three awaits, then `issueTokens()` |
| `LogoutFind`, `LogoutRevoke` | `logout()` |
| `Tick`, `DeleteUser`, `Abort` | clock, operator, crash |

A token stands for its own hash. Clients present tokens some delivered reply
contained, or one the service never signed. An access token keeps no state and is
left out.

### TradeJournal

`OrderArrives`/`GetLatestPrice` are `placeOrder`; `CreateArrives`/`InsertEntry`
are `POST /v1/journal/entries`; `OutcomeArrives`/`FindEntry`/`CloseEntry` are
`recordOutcome`, whose UPDATE carries `status = 'open'`. The environment stores
ticks in any order, twice, and with conflicting prices (`IngestTick`), and deletes
accounts. **Assumption:** clients hand the journal fills that an order answered.
The route accepts any well-formed fill, so `FillsAreReal` and `FreshFills` say
what the services do, not what a client may claim.

### Portfolio

A request reads the journal (`ListTrades`), prices one position per await
(`PricePosition`), and answers or stores (`StoreOrAnswer`). The operators above
them translate `positions.ts`, `cash.ts`, `pnl.ts`, `mtm.ts`, `performance.ts`,
`allocation.ts` and `risk.ts`; `Answer` is what the read routes make of a valuation,
which may lack a position that has no tick. The journal is `JournalBook` (which `TradeJournal` is proved to
implement), so trades open and close between the reads. Prices and
quantities are positive integers, as the validators of orders, outcomes and ticks demand
of the numbers. `EntryValue` is `direction * quantity * averageEntryPrice`, multiplied out
before it is divided: the division is exact unless a symbol is held both ways, so
floating-point rounding is out of the model.

### OrderForm and JournalList

`handleSubmit` and `handleSaveToJournal` are async functions that share React
state. Each call is a process; `HandleSubmit` is guarded by `submitDisabled` exactly as
the button is, which leaves it enabled while a position check is pending. The position
is counted in shares: `Net` is the shares bought less those sold in open entries, which
is the sum `computePositions` takes, and `Holding` the same of the fills the user got and
has not closed. `overlap` is a history variable: it becomes true when a handler starts while
another runs or a trade is closed under one. Properties that hold only of
non-overlapping handlers say so.

The journal page is open in another tab of the same user: `Load` and its
answers are `load`, `SubmitOutcome` and its answers `submitOutcome`. Calls are
never cancelled, so up to `Loads` of them are in flight and answered in any order.
`doubtful` is a history variable: entries that were created or closed elsewhere
since the list was asked for, or whose loads overlapped, of which no page that
does not poll can know better.

### EducationContent

One content type stands for the glossary, course, strategy and quiz repositories,
which repeat the same code. `InsertRevision` and `UpdateContent` are the
transaction: PostgreSQL makes a second transaction that inserts the same revision
key wait (`Locked`), and nothing else of an open transaction is visible, so its
UPDATE and COMMIT are one step. `Abort` rolls an open transaction back.

### Quizzes

A handler is one record: `at` says which statement it awaits next, the other fields
are the ids it has resolved. Slugs are resolved in one step (`ResolveCourse`,
`ResolveQuiz`), the rest of a route runs on ids. Foreign keys and their cascades are
conditions and effects of the inserts and removals; an insert or update that meets
one, or a unique index, without its route mapping it, ends in `error` (a 500), and
`FailStatement` is any other 500. A body may name any uuid as a parent: an id no row
has stands for one that never existed. `EditQuiz` is the transaction of an update, the
revision (`Superseded` is its unique index, `RollBack` what an error undoes) and the row;
EducationContent takes its two statements apart, here it meets foreign keys and cascades.
`Grade` is `submitQuizAttempt` up to its insert, `RecordAttempt` the insert. `home`
(which quiz a question was created in) and `asked` (the questions at grading) are
history. A question is its position, its number of options and its key.

### LearningCenter

A call is a record in a slot, from the SDK's `fetch` through the gateway's proxy to
the service (`Service(s)`) and back (`Answered(s)`); it may fail on either way, so a
mark can be stored and still be shown as failed. Each answer does what its `.then`
or `.catch` does, after the check of `mounted` where the code has one. The initial
states are those of a learner with any earlier progress. `raced`, `mixed` and `late`
record which calls overlapped.

### Seeding

`Work` lists the phases of `seedEducationContent` in its order; a run is a program
counter over it with its counts, and every repository call is a step. Two runs at a
time are two replicas that boot together; a run that is over gives its place to a
later one. `Stop(p)` ends a run anywhere. An admin removes or creates a row under a
name of the seed in one step. `torn` is a history variable: quizzes that a run left
with part of their questions.

### TradeStats and Analytics

Each statistic is an operator over the entries or the curve it is given, in exact
fractions. Of Sharpe and Sortino only presence and sign are modelled
(`risk-adjusted-returns.ts` takes square roots). A request reads entries and
snapshots in two statements in either order, then answers, or stores the report of
the numbers. The breakdowns are functions from the keys of groups to rows; the table
of snapshots says how many copies there are of each, since two with the same `asOf` and
equity differ in nothing that is read, and a curve is a listing of the copies in the order
of `asOf`. Months have 31 days and time starts on a Sunday, so that hour, weekday
and month are divisions.

### CioEngine, ExpertAgents and Council

Scores are quotients of integers, confidences are rounded as `Math.round` does, prices
are in cents. A reference price is whole cents from the start: the route takes any
positive number, and `generateTradeIdea` computes stop and target of the unrounded price. `THROWN` is the exception that validation raises (a 500 or 400 of
the route). `Council` is a client: it asks experts (`AskTechnical` ... `AskRisk`), each
over inputs the gateway's validation admits, keeps the opinions, and posts them with
a context (`PostVerdict`); the gateway computes, publishes (`Publish`, `PublishFails`)
and replies. Financials are ingested between (`InsertFinancials`). Indicator readings
are inputs.

### MarketFeed

| Model | Code |
|---|---|
| `TickArrives`, `InsertTick`, `PublishTick` | `startLiveIngestion` and `handleTick`: one un-awaited handler per tick, so handlers interleave |
| `Sent`, `Accept`, `GatewayDown`, `GatewayUp` | `GatewayStreamServer`: `send` to the sockets it holds, handshake, `close`, restart |
| `Open`, `OpenEvent`, `TickEvent`, `CloseEvent`, `ScheduleReconnect`, `TimerFires` | `MarketStreamConnection`: one action per event listener and timer callback |
| `Mount`, `Unmount`, `shown` | the effect of `useMarketStream`, and `ticksBySymbol` |

`position` and `count` are history variables that number publications. Redis
delivers a channel in order to a connected subscriber, so a publication and the
fan-out are one step, which the gateway may miss. A socket is an object of the
browser; a closed one may be used again, which only saves identifiers: nothing of
a closed socket is read. The backoff's length is left out, only that a timer is
pending. A half-open connection, which neither side would notice since nobody
pings, is not modelled; `Reconnects` says nothing of it.

### WebSession

`current`, `status` and `seen` are each tab's module variable and React state;
`storage` is the `localStorage` they share. A session is identified by its refresh
token, and its access token is accepted until a 401 is seen. `LoadPage` is a page load
or reload with the synchronous start of `restoreSession`; `MeAnswered`,
`ServeRefresh`, `RefreshAnswered` and `RefreshFails` are its awaits: a refresh can
fail before the services see it (`at = "refresh"`) or after they served it
(`"served"`). `Login`/`LoginAnswered` and `Logout`/`LogoutAnswered` are the two
callbacks of the provider. `overlapped` is a history variable: a login was
submitted while something else was pending in the same tab. Abstracted: which
user a session is of; the second, concurrent effect of React's development mode;
the overlap of two refreshes at the services, where here the second is rejected
(`AuthSessions` shows that both may be accepted); unmounting the login page while
its login is pending.

## 3. The runs

| Run | Instance | Distinct states | Shows |
|---|---|---|---|
| AuthSessions | 1 address, 2 passwords, 2 ids, 3 tokens, 3 requests, TTL 2, clock 0..3 | 154 625 | the races of signup, refresh and logout; tokens die for ever |
| TradeJournal | 1 user, 1 symbol, 1 entry, 2 timestamps, 2 prices, 4 requests | 518 942 | racing outcomes, out-of-order ticks, deleted accounts |
| Portfolio | 1 user, 2 symbols, 2 entries, 4 fills, 2 timestamps, 1 request | 812 445 | equity reconciles, answers agree, valuations fresh, closing at market neutral |
| OrderForm | 2 submits, 2 entries, quantities 1 and 2, 2 loads, 2 outcomes | 714 035 | overlapping handlers of the form and of the journal page |
| EducationContent | 2 ids, 1 slug, 2 fields, 2 values, versions to 3, 4 requests | 511 815 | racing edits, removal and re-creation under an edit |
| Quizzes | 1 course id, 1 lesson, 2 quizzes, 2 questions, 2 quiz slugs, 2 requests, versions to 2 | 932 394 | removals, edits and grading between resolving a slug and using the id |
| LearningCenter | 1 course, 2 quizzes, 3 calls in flight, 2 attempts, 6 clicks | 1 117 344 | answers in any order over a screen that has moved on |
| Seeding | 2 runs at a time, 3 in all, 2 rows per name, 1 admin edit | 367 762 | interrupted, repeated and concurrent seeds |
| Analytics | 2 trades of 2 kinds, 4 events, 2 moments, 3 equities, 3 P&Ls, 2 periods, 2 requests | 968 106 | every journal and curve of that size, read while they change |
| Council | 3 opinions, 2 periods, 10 contexts | 1 479 583 | every council of three over all verdicts the experts can give |
| MarketFeed | 1 symbol, 3 ticks (two of one instant), 2 sockets | 60 746 | storing before showing, publication order across reconnects, one connection, silence after close, reconnection |
| WebSession | 2 tabs, 3 sessions | 430 049 | late answers and failures in tabs that share a session |

**Why these bounds.** Every race in this code is between two handlers about one
row, set up by at most one earlier request: a signup and two refreshes (three
requests), an order, an entry and two outcomes (four), a creation and two edits,
the second of which may read the first one's version, with a removal and a
re-creation (four). Two ids let an id be deleted and replaced. In AuthSessions a
third token lets each of two refreshes mint one from the signup's; TTL 2 with a
clock to 3 lets a token expire inside and outside a handler. Two timestamps with
two prices give an older tick stored after a newer one, and a conflicting
duplicate. In Portfolio the four fills include a symbol held long at two prices and
in both directions, and a short in another symbol; prices are set by ticks on both
sides of the entry price. Three
ticks are two in order and a conflicting duplicate; two sockets are the one that
closes and the next one. Two tabs and three sessions give a session both tabs hold,
the one that replaces it, and one more from a login. In Quizzes one request resolves
while the other removes, edits or grades; two quizzes and two questions let a URL
name one and a question be in the other, and two answers go to one question. In
LearningCenter three calls are a submit, its mark and a late answer of something
else. In Seeding a third run comes after two that overlapped or stopped. In Analytics
the fills are the last hour of a month and the first of the next; four events are
two trades opened and closed, or a trade and the three snapshots of a decline. Three opinions are a majority and a dissenter,
or one expert twice and another. The proofs of section 4 remove the bounds for the
parts they cover.

**Symmetry** is declared only for sets of model values that no definition tells
apart (requests, ids, slugs, tokens, passwords, field values, slots), never in a run with a
liveness property.

**Fairness.** Safety runs need none. `OrderForm` assumes weak fairness of
`Proceed(o)`: a pending fetch is answered or fails. The browser settles every
fetch, and the SDK neither retries nor waits on anything else. Nothing is assumed of
the user, and nothing of the answer's content. `WebSession` assumes the same of
the calls of `restoreSession` (`MeAnswered`; `RefreshAnswered` or `RefreshFails`).
`MarketFeed` assumes weak fairness of the handshake of a reachable gateway, of the
browser's `open` and `close` events and of its timers, per socket; not of ticks,
publications, or the gateway's coming back, which `Reconnects` has as a premise.

**Deadlock** checking is off: a behaviour ends when each of its finitely many
requests is served, when ids, sessions, rows or clicks run out, or when the component
is unmounted and all ticks are handled (MarketFeed).

**Bounds in guards:** `MaxTime` (AuthSessions, clock), `MaxVersion`
(EducationContent and Quizzes, versions), `MaxTokens` (WebSession, sessions),
`MaxSubmits` (JournalList, outcomes), `MaxAttempts` and `MaxClicks` (LearningCenter),
`MaxStarts`, `MaxRows` and `MaxEdits` (Seeding: runs, rows per name, admin requests),
`MaxTrades` and `MaxEvents` (Analytics: trades; trades, closes and snapshots together),
`MaxBatches` and `MaxOpinions` (Council). All other sets are finite constants.

### Properties

The invariants named `...Inv` and `SessionSafety` conjoin the type invariant with
safety properties that the modules state one by one; the names in parentheses are
those parts.

* `SessionSafety` (`OneAccountPerEmail`, `NoUnexplainedError`,
  `RevokedBeforeReissue`): the pre-check of signup races, the unique index decides,
  and its loser gets a 409; a 500 happens only when the account was deleted under the
  request; rotation never leaves the presented session live beside its replacement.
* `DeadTokensStayDead`, `ImplementsLifecycle`: a token that was spent, expired or
  orphaned when a request arrived opens nothing; over all interleavings a token moves
  fresh, live, dead and never back.
* `JournalInv` (`OutcomeStands`, `FillsAreReal`, `FreshFills`), `ImplementsBook`: two
  racing outcomes of one trade never both succeed, and the one accepted stays as
  written, through account deletion; late and duplicate ticks neither rewrite a price
  somebody was filled at nor make an order fill at an old one.
* `PortfolioInv` (`SnapshotsReconcile`, `AnswersAgree`), `ClosingIsNeutral`: the balance
  sheet (cash plus market value) equals the P&L walk-forward in every stored snapshot
  of an account that holds no symbol both ways; an answer that lacks a price differs by
  exactly the cost of that position; allocation and risk are of the same gross
  exposure; the journal's realized and the portfolio's unrealized profit agree at the
  moment of closing.
* `ValuesAreFresh`: an answer prices every position at least as recently as when it
  read the journal.
* `FillsAreKept` (`JournaledOnce`, `SavedIsSaved`, and what they rest on:
  `SavesFollowFills`, `HandlersAreAlone`), `LoadingEnds`: a fill is journaled once,
  whatever fails; "Saved to journal" is said of the fill that was saved unless handlers
  overlap; the form never stays disabled.
* `CheckedSellsAreCovered`: the position that a sell was checked against, two awaits and
  one service ago, is the shares the user holds, where handlers did not overlap, every
  fill was journaled and the position is not short.
* `JournalPageInv` (`PageWaits`, `ListTellsTruth`, `ListsLagBehind`): the page lists every
  entry with its outcome unless the entry changed elsewhere or loads overlapped, and
  whatever it shows as loading or saving has a call under way.
* `ContentInv` (`HistoryComplete`, `EditsLast`, `LosersLostARace`),
  `ImplementsVersioned`: the revision table's unique key is what makes the
  unconditional UPDATE a compare-and-set.
* `QuizInv` (`NoOrphans`, `NamesAreUnique`, `QuestionsStayHome`, `AttemptsAreWhole`,
  `ReadsLagBehind`): an
  edit let through by the URL of one quiz never reaches a question of another, however
  late it runs; an attempt is graded against the questions its quiz had, all of them
  if no question is answered twice.
* `HistoryIsWhole`, `EditsReplaceWhatTheyRead`: an edit of a quiz that fails for its parents
  leaves no revision that would block the next, and one that read a row since replaced never
  takes effect, whatever was removed or edited between its read and its transaction.
* `KeysBreakOnlyByHalfPatches`: a question without a correct option comes only of a patch of
  one of two fields.
* `ScreenTellsTruth`, `CenterInv` (`CompletionFollowsAttempt`, `WaitsForAnAnswer`, and what
  they rest on: `ServedIsStored`, `SelectionIsTracked`, `ProgressIsTracked`,
  `AttemptsAreTracked`), `UncompletedOnlyBlind`: what the education screen shows is of what is selected and
  as stored, wherever calls did not overlap; whatever overlaps, nothing hangs, nothing
  is completed that was not attempted; a completion is taken back only by a mark sent
  before the progress was known, or overlapping another call about the entry.
* `SeedInv`, `FinishedMeansSeeded`, `AloneNeverFails`, `CountsAddUp`: a seed run that ends
  well has left everything, whatever stopped or ran before or beside it, except in a quiz
  another run left halfway; it fails only beside another run or an admin; its counts are
  those of the rows.
* `StatsAgree`, `BreakdownsAddUp`, `DrawdownIsWorst`, `ReportsNeverForget`: the
  statistics are computed by separate passes over data read in two queries, and must
  give one picture: multiplied out, averages are the totals beside them; no trade falls
  between buckets; one pass with a running peak finds the worst decline; a later report
  of the full history takes nothing back.
* `OpinionsAreValid`: no rule of an expert ever produces an opinion the framework's own
  schema rejects, which would be a 500.
* `IdeasAreSound`: a trade idea holds at the *rounded* prices it shows: sides, minimum
  ratio, and every limit of the gate. The target is strictly on the winning side only where
  a minimum ratio above zero applies (1.5 by default): a request may ask for zero or less
  (`validation.ts:346`), and then a target that rounds to the entry passes the gate.
* `TraceExplains`, `VotesCountOnce`: the verdict can be worked out again from the trace
  alone; order, non-voters and the strategy expert's echo do not move it.
* `FeedInv` (`ShownIsStored`, `OneConnection`), `PublicationOrder`: nothing is shown that
  could not be stored; a mounted client has exactly one timer or one live socket; a
  client never falls back to a tick published before one it has shown, across any
  number of reconnects. It *may* show an older tick after a newer one: handlers
  interleave between insert and publish, and nothing orders by exchange time.
* `SilentAfterClose`, `Reconnects`: after `close()` nothing reaches the component;
  while mounted and the gateway stays up, it ends up open.
* `WebInv` (`RejectedIsDropped`, `ScreenMatchesStore`), `NoSessionReturns`, `RestoringEnds`:
  however late an answer of one tab comes, it never stores a session that was given up;
  a rejected session is dropped from storage, memory and screen; without overlapping
  actions a tab shows the user whose tokens it sends; restoring ends. A *new* session
  may be stored after a logout in another tab, by a refresh that was under way.

Every property has a mutant: a plausible bug in one mapped definition that makes
the same run fail.

## 4. The proofs

Proved with TLAPS for every value of the constants, from the named assumptions of
each module only (constants are disjoint from `NULL`, numbers are numbers, ids of
different tables differ):

| Module | Theorems |
|---|---|
| AuthSessionsProofs | `SessionInvariance`, `SessionsAreSafe`, `TypeCorrectness`, `SessionsAreOwned`, `SignupsAreUnique`, `ErrorsAreExplained`, `RotationRevokesFirst`, `DeadTokensStayRejected`, `Refinement` |
| TradeJournalProofs | `JournalInvariance`, `AcceptedOutcomesStand`, `FillsAreNeverFabricated`, `FillsAreFresh`, `Refinement`, `OutcomesAreWrittenOnce` |
| EducationContentProofs, content | `ContentInvariance`, `HistoriesAreComplete`, `AcceptedEditsLast`, `ErrorsAreLostRaces`, `Refinement` |
| EducationContentProofs, seed | `SeedInvariance`, `FinishedIsSeeded`, `FailsOnlyWhenDisturbed`, `CountsAlwaysAddUp` |
| GatewayProofs, market stream | `FeedInvariance`, `ShownTicksAreStored`, `ConnectionIsUnique`, `TicksAdvance`, `ClosedIsSilent` |
| GatewayProofs, verdicts | `CouncilInvariant`, `CouncilOpinions`, `CouncilIdeas`, `CouncilTraces`, `CouncilVotes` |
| PortfolioProofs, portfolio | `PortfolioInvariance`, `ValuesStayFresh`, `ClosingStaysNeutral` |
| PortfolioProofs, analytics | `AnalyticsInvariant`, `AnalyticsTypes`, `StatsDoAgree`, `BreakdownsDoAddUp`, `DrawdownsAreWorst`, `ReportsRemember` |
| QuizzesProofs | `Invariance`, `QuizInvariance`, `HistoriesAreWhole`, `NoEditIsLost`, `KeysBreakByHalfPatches` |
| WebPagesProofs, education screen | `CenterInvariance`, `ScreenIsTrue`, `CompletedStaysComplete` |
| WebPagesProofs, order form and journal page | `FormInvariance`, `FillsStayKept`, `JournalPageInvariance`, `SellsAreCovered` |
| WebPagesProofs, session | `WebInvariance`, `SessionsNeverReturn`, `RejectedSessionsAreDropped`, `ScreensMatchStores` |

`WebPagesProofs` extends `LearningCenter`, `OrderForm` and `WebSession`; they have no
variable in common and each of its theorems is about the specification of one of them.
So are those of `EducationContentProofs`, which extends `EducationContent` and `Seeding`, of
`GatewayProofs`, which extends `MarketFeed` and `Council`, and of `PortfolioProofs`, which
extends `Portfolio` and `Analytics`. `DataLemmas` has what they cite about tables, folds and
sums and no theorem about a specification.

Each module has the same argument: an inductive invariant that TLC checks first
(it is an invariant of the run, or was on the instance of the run), one lemma per action that it is preserved, the
properties as consequences, and the refinement by showing that each step is a step
or a stutter of the abstract module.

* **`SessionInv`.** None of the properties is inductive. That a revoked session
  stays with its token needs `PresentedOK` (a refresh past its revocation presented
  a token that is not live) and `PendingOK` (a minted token has no session until its
  own handler inserts it), which needs `DistinctWork` (no two handlers hold the same
  minted token: the jti). `DeadOK` carries "dead on arrival" to the lookup that
  rejects it. `AccountsOK` with `SignupsOK` gives one account per address, and
  `usedIds` (an id is never generated twice) keeps an orphaned token from meeting a
  new account.
* **`JournalInv`.** A closing handler computes the profit from the fill it read one
  await earlier. `HandlersOK` says that fill is still the entry's, which needs that
  entries are never removed and their fills never rewritten; `RowsOK` then gives the
  profit of closed rows. `SeenOK` (ticks an order has seen are still there) makes
  `FreshFills` inductive.
* **`ContentInv`.** The UPDATE has no condition on the version. `HandlersOK` bounds
  the row a handler has read by the current one; `LocksOK` says the revision an open
  transaction inserted is stored by nobody and wanted by no other open transaction;
  with `HistoryComplete` these force the current row to be the one it read
  (`CommitIsFresh`), so the merge is never stale. `RevisionsOK` gives the loser its
  winner.
* **`FeedInv`.** `PublicationOrder` needs that every wire is sorted by publication
  (`WiresOK`) and that whatever a live socket may still deliver was published after
  what is shown (`ShownOK`); the latter survives a reconnect because `OneConnection`
  leaves no second socket that could deliver. `ShownIsStored` needs `RowsOK`: a tick
  is published only once its row is there, and rows are never rewritten.
* **`WebInv`.** `NoSessionReturns` needs `PendingOK`: a session a refresh has answered
  and the browser not delivered was never stored and is awaited by one tab only.
  `RestoringOK` ties a pending restore to what the tab still holds, which a login
  that overlaps it breaks; hence `overlapped` in `ScreenMatchesStore`.
* **`QuizInv`.** Handlers hold ids they resolved earlier, of rows that others remove. Instead
  of comparing every two requests, the proof says once what no statement does
  (`TablesMoveOn`: ids never come back, versions never fall, a question never leaves its
  quiz), and that whatever a handler holds stays true under that (`HandlerFits`). The ids of
  the tables are disjoint and never reused (`IdsAssumption`, `usedIds`: they are random
  uuids), which is what makes a stale id harmless. `EditsReplaceWhatTheyRead` needs two facts
  together: a row of the version a handler read is the row it read (`FitsEdit`), and every
  version behind the present one has its revision (`HistoryOK`), so that the unique index
  admits only an edit of the present version (`AdmittedEditsAreFresh`).
* **`CenterInv`.** `ScreenTellsTruth` compares the screen with tables it learns about from
  answers that may come in any order. `ProgressIsTracked` and `AttemptsAreTracked` say that
  of an entry outside `raced` at most one call is in flight, and how far the screen is then
  behind: by one served mark, or one served submit. `UncompletedOnlyBlind` needs of the
  former that a mark of "in progress" finds no progress unless it is blind.
* **`FillsAreKept`, `JournalPageInv`.** An entry is created from a fill whose `save` is under
  way and never again idle (`SavesFollowFills`), whence `JournaledOnce`. Without overlap one
  handler runs, over the state it set itself and the position it was answered
  (`HandlersAreAlone`). `SellsAreCovered` then needs that the position the service computes
  from open entries is the number of shares the user holds: `NetIsHolding` shows it where
  every fill is journaled, by a bijection of the shares of open entries with those of open
  fills (`BalanceRenamed`), so that no induction over a sum is needed; entries and fills are
  finite sets because each step adds at most one (`TablesAreFinite`). `ListTellsTruth` is
  not inductive: `ListsLagBehind` says of every list shown or on its way that it lags behind
  by no more than the outcomes the page itself knows to be recorded.

* **`PortfolioInv`.** Its type invariant alone is not inductive: a profit is an integer only
  in a journal whose closed rows have one (`SoundTrades`), and an answer is about the journal
  as it was read (`SoundView`), which nothing rewrites (`SnapshotsAreAnswers`). Over one such
  journal, cash, realized profit, entry values and market values are sums over *trades*:
  sums over positions are regrouped by symbol (`OpenByPosition`), and `EquityReconciles` is
  then the sum of what each trade contributes. The laws of finite sums (`SumLinear`,
  `SumSplit`, `SumByGroups`, ...) are proved in `DataLemmas`: the library's induction theorems take an
  operator as a parameter, so a law is instead shown to have no smallest counterexample among
  the subsets of a finite set (`LeastSet`). `ValuesAreFresh` holds because ticks are only
  added (`TicksGrow`): a quote read later is of a tick that is no older. `ClosingIsNeutral`
  needs no invariant of the handlers, only of the journal: a trade closed at the mark of its
  symbol moves its gain from the unrealized to the realized profit (`ClosingMovesGain`).

* **The seed.** The theorems hold for any number of runs, starts, rows of a name and admin
  requests; what is seeded is one entry of each kind, as in the runs. `SeedInv` rests on
  `SeedShape`, which adds where a run may be (`Fits`: what it holds of rows and courses is
  known by its step) and that every lesson belongs to the course of the seed.
  `FinishedMeansSeeded` looks at all a run has passed: `Kept` says of each item a run is past,
  and of the row and the questions it is at, that they are there but for `removed`, and
  `QuizzesSettled` that a quiz with some questions has all of them, or is `torn`, or has a run
  halfway in it. `Changes` is what any step, of a run or an admin, does not do to them, so
  that each action says only what it adds. `AloneNeverFails` needs that what a run found
  missing still is (`Undisturbed`), for a run that overlaps with nobody. `CountsAddUp` needs
  both: a run counts the questions it finds, and there are two of them because no other run is
  halfway in the quiz; where a run is determines what it has counted (`CountedSoFar`).

* **`CouncilInv`.** The invariant itself is small: everything gathered is an opinion the
  schema accepts, and a verdict in publication is the one `buildCioVerdict` computes of it.
  The work is in the operators, which fold over sequences of any length. A fold is its last
  partial result (`FoldExists`), so that a law of sums is an induction over places
  (`PartialSums`, `InductionTo`: the least counterexample there is, `LeastNatural`, since the
  library's induction theorems take an operator). With `TotalReverse`, `TotalAppend` and
  `PartialVoters` the sums of a council do not depend on order or on experts without a vote.
  What is divided is then rounded: `Rounding` and `RoundBetween` bound a rounded average by
  its values, which keeps confidences in 0..100 (`OpinionsAreValid`) and verdicts between those
  of the voters; `RoundEchoes` and `LeastAndGreatest` make the strategy expert's echo
  harmless, and `RoundShrinks` a gap. `TraceExplains` holds because, where no voter speaks
  twice, the contribution kept by expert is the one of the opinion. The proof needs that
  `UNDEFINED` is no contribution (`GapsAssumption`).

* **`AnalyticsInv`.** That a later report takes nothing back compares two reports, each of a
  journal and of snapshots read at different moments. The invariant compares neither with
  the other but both with the tables: what a report on the full history counts, the journal
  still has (`Counts`), and its drawdown is the decline between two snapshots that are still
  there (`DrawdownKept`). A request that is loading keeps what it has read no less than the
  reports there were when it began (`LoadsRemember`), since rows are only added and closed
  trades do not change (`IsPart`). That what is read is a curve of the snapshots is a
  statement about every listing of their copies (`ReadCurves`).
  `DrawdownIsWorst` is about one pass with a running peak: `PartialWalks` unfolds the fold,
  `WalkFinds` is the induction over places (the peak is the greatest equity so far, the worst
  decline is one from a place to a later one, and no decline exceeds it), in fractions whose
  denominators are positive (`Transitive`, `HigherPeak`). `StatsAgree` splits the closed
  trades into winners, losers and the rest (`TradesAddUp`), and multiplies the expectancy out
  (`Rearranged`). In `BreakdownsAddUp` a count is a sum of ones (`CountIsSum`), so that a sum
  over rows is regrouped by their key (`GroupsAddUp`); that every entry has a window
  (`Windows`) and every closed trade a bucket, the largest the last one (`BucketsAddUp`), is
  arithmetic of remainders and quotients.

### What stays with TLC

* `OrderForm!LoadingEnds`, `WebSession!RestoringEnds`, `MarketFeed!Reconnects`: liveness
  under fairness.

## 5. Where the code and its documentation differ, and what the models showed

TLC produced counterexamples to the first four while the models were built; the
checked properties carry the condition that excludes each, and say so.

* **A refresh token is not strictly single-use.** The comment on `refresh()`
  (`services/auth/src/auth-logic.ts:84-88`) says the presented token is revoked "so it
  is single-use". The row is read, checked, and updated two awaits later without a
  condition on `revoked_at` (line 115), so two overlapping refreshes of one token, as
  two tabs make when they restore a session, both get a session.
* **A snapshot does not always reconcile.** `packages/database/src/portfolio-schema.ts:31-34`
  and `services/portfolio/src/mtm.ts:61-68` state an identity that fails when an account
  has open trades on both sides of one symbol (`positions.ts:77`): a buy of 1 at 6 and a
  sell of 1 at 12 leave cash 106, positions value 0 and total equity 100.
* **The form accepts a sell against a short position.** `order-form.tsx:3-4` says sells
  are validated against the position; the check (line 82) compares with the absolute
  quantity and ignores the direction.
* **A failed call can end a good session.** `apps/web/src/lib/auth-actions.ts:88-89` says
  that a network or 5xx failure should not silently log the user out. When `me()`
  answered 401 and the refresh after it fails, the inner `catch` (83-86) clears the
  session whatever the error was.
* **An interrupted seed leaves a quiz incomplete for good.** A quiz with any question is
  taken for seeded (`services/education/src/seed.ts:460`), although the seed calls itself
  safe to run on every boot; hence `torn`. Two seeds at once make one fail.
* **Duplicate answers.** `quiz-scoring.ts` counts answers; as many answers as questions, all
  for one question, are a full attempt. `AttemptsAreWhole` says what is left. A question
  edited or removed while an attempt is graded leaves a score of questions that are gone.
* **A request alone can get a 500.** `courseId` and `lessonId` of a quiz may be any uuid
  (`services/education/src/validation.ts:187-197`); one that no row has meets a foreign key
  that no route maps to a 4xx (`repository.ts:641-678`, `app.ts:467-489`). So does a PATCH
  that moves a question to a position in use, which POST answers with a 409. No property is
  stated about which requests get a 500 here.
* **A half PATCH breaks a key.** Shortening the options of a question without its
  `correctOptionIndex` (`validation.ts:232`) leaves no correct option.
* **Progress and tags of nothing.** `PUT /progress` and attaching a tag never look whether
  the content exists (`education-schema.ts:36-38` calls the pointer valid by construction).
* **The progress control is blind at first.** Before the progress list arrives it shows
  "Not started" and offers "Mark in progress" (`progress-control.tsx:4-7`), which takes a
  completion back; hence `UncompletedOnlyBlind`. A quiz result that comes late is shown
  under the quiz selected meanwhile.
* **The trace collapses an expert.** Two opinions of one expert share one contribution
  (`services/cio/src/trace.ts:37`), and the verdict may not be reproducible.
* **A verdict answered with 500 may have been broadcast**, and one that was computed not:
  the route awaits the publication (`apps/api/src/app.ts:440`).
* **Numbers.** A wide stop can put the target of a short idea below zero; a drawdown over negative equity takes the higher peak, not
  the larger fraction; two snapshots of one `asOf` have no defined order; the bounds of a
  report's range are both inclusive; the latest fundamentals of a company are the last
  *ingested*, whatever their period; with a price missing, a summary's total equity exceeds cash and positions by
  the cost of what is unpriced.
* **Display.** The panels of the CIO multiply a confidence of 0 to 100 by 100; the portfolio
  dashboard shows fractions with a percent sign. Read, not modelled.

## 6. Not modelled, and the plan

Not modelled, and not planned: floating-point indicators (research) and the values of
Sharpe and Sortino, the tutor's text, display components, SDK types, configuration and
logging, migrations, access tokens and roles. A half-open connection, the simulated
broker's timer after unsubscribing, and late answers of older queries in search and
filters are known from reading, but no property is stated about them; unsubscribing one
of several handlers of a Redis channel silences the others, but no process has two.

Planned next:

* **Verdict stream**: the second channel of the gateway's stream and the history the web
  client keeps, in `MarketFeed`'s conventions, composed with `Council`'s publication.
