------------------------------ MODULE JournalList -----------------------------
(***************************************************************************)
(* The journal page of the web app (journal-list.tsx): it lists the user's *)
(* entries and records the outcomes of open ones.                          *)
(*                                                                         *)
(* load and submitOutcome are async: a list may be asked for again while   *)
(* another is on its way, the user may cancel and reopen a form while its  *)
(* outcome is being saved, and entries change elsewhere meanwhile.         *)
(***************************************************************************)
EXTENDS Integers, FiniteSets, Tables

CONSTANTS
    EntryIds,    \* ids of journal entries
    Loads,       \* bound on the list requests in flight
    MaxSubmits   \* bound on the outcomes submitted

ASSUME MaxSubmitsAssumption == MaxSubmits \in Nat

VARIABLES
    entries,   \* journal entries: id -> a row, of which the page needs the status
    page,      \* state: the phase, and the statuses of the entries it lists
    forms,     \* openForms: the entries whose outcome form is open
    outcome,   \* submitStates
    posts,     \* the recordOutcome call of each entry: on its way, or how it was answered
    loads,     \* the listEntries calls: on their way, or what they were answered
    submits,   \* how many outcomes were submitted
    doubtful   \* history: entries of which the page cannot know what its list should say

pageVars == <<page, forms, outcome, posts, loads, submits, doubtful>>

-------------------------------------------------------------------------------

EntryStatuses == {"open", "closed"}
NoLoad == [at |-> "none"]

PageTypeOK ==
    /\ page.phase \in {"unmounted", "loading", "loaded", "error"}
    /\ IsTable(page.rows, EntryIds, EntryStatuses)
    /\ forms \subseteq EntryIds
    /\ outcome \in [EntryIds -> {"idle", "saving", "error"}]
    /\ posts \in [EntryIds -> {"none", "sent", "ok", "conflict"}]
    /\ DOMAIN loads = Loads
    /\ \A l \in Loads : /\ loads[l].at \in {"none", "sent", "served"}
                        /\ loads[l].at = "served" => IsTable(loads[l].rows, EntryIds, EntryStatuses)
    /\ submits \in 0..MaxSubmits
    /\ doubtful \subseteq EntryIds

PageInit ==
    /\ page = [phase |-> "unmounted", rows |-> EmptyTable]
    /\ forms = {}
    /\ outcome = [id \in EntryIds |-> "idle"]
    /\ posts = [id \in EntryIds |-> "none"]
    /\ loads = [l \in Loads |-> NoLoad]
    /\ submits = 0 /\ doubtful = {}

StatusOf(table) == [id \in DOMAIN table |-> table[id].status]
InFlight == {l \in Loads : loads[l].at # "none"}

\* load() up to its await; of two lists on their way, the older may arrive last.
Load(known) ==
    /\ page' = [phase |-> "loading", rows |-> EmptyTable]
    /\ \E l \in Loads \ InFlight : loads' = [loads EXCEPT ![l] = [at |-> "sent"]]
    /\ doubtful' = IF InFlight = {} THEN known ELSE EntryIds

Mount ==
    /\ page.phase = "unmounted"
    /\ Load({})
    /\ UNCHANGED <<entries, forms, outcome, posts, submits>>

\* GET /v1/journal/entries: the entries of the user as one query sees them.
ServeLoad(l) ==
    /\ loads[l].at = "sent"
    /\ loads' = [loads EXCEPT ![l] = [at |-> "served", rows |-> StatusOf(entries)]]
    /\ UNCHANGED <<entries, page, forms, outcome, posts, submits, doubtful>>

\* load() after its await: the list, or an error.
LoadAnswered(l) ==
    /\ loads[l].at # "none"
    /\ \/ loads[l].at = "served" /\ page' = [phase |-> "loaded", rows |-> loads[l].rows]
       \/ page' = [phase |-> "error", rows |-> EmptyTable]
    /\ loads' = [loads EXCEPT ![l] = NoLoad]
    /\ UNCHANGED <<entries, forms, outcome, posts, submits, doubtful>>

Listed(id) == id \in DOMAIN page.rows /\ page.rows[id] = "open"

\* The button of an open entry: Record outcome, or Cancel.
ToggleOutcomeForm(id) ==
    /\ Listed(id)
    /\ forms' = IF id \in forms THEN forms \ {id} ELSE forms \cup {id}
    /\ UNCHANGED <<entries, page, outcome, posts, loads, submits, doubtful>>

\* submitOutcome up to its await; the button is disabled while the entry's outcome is saved.
SubmitOutcome(id) ==
    /\ Listed(id) /\ id \in forms /\ outcome[id] # "saving"
    /\ submits < MaxSubmits /\ submits' = submits + 1
    /\ outcome' = [outcome EXCEPT ![id] = "saving"]
    /\ posts' = [posts EXCEPT ![id] = "sent"]
    /\ UNCHANGED <<entries, page, forms, loads, doubtful>>

\* POST .../outcome: the entry is closed, or the outcome refused when it already is.
ServeOutcome(id) ==
    /\ posts[id] = "sent"
    /\ \/ /\ entries[id].status = "open"
          /\ entries' = [entries EXCEPT ![id].status = "closed"]
          /\ posts' = [posts EXCEPT ![id] = "ok"]
       \/ /\ entries[id].status = "closed"
          /\ posts' = [posts EXCEPT ![id] = "conflict"]
          /\ UNCHANGED entries
    /\ UNCHANGED <<page, forms, outcome, loads, submits, doubtful>>

\* The outcome is recorded: the form goes away and the list is asked for again.
OutcomeRecorded_NoReload(id) ==
    /\ posts[id] = "ok"
    /\ outcome' = [outcome EXCEPT ![id] = "idle"]
    /\ posts' = [posts EXCEPT ![id] = "none"]
    /\ forms' = forms \ {id}
    /\ UNCHANGED <<entries, page, loads, submits, doubtful>>
OutcomeRecorded(id) ==
    /\ posts[id] = "ok"
    /\ outcome' = [outcome EXCEPT ![id] = "idle"]
    /\ posts' = [posts EXCEPT ![id] = "none"]
    /\ forms' = forms \ {id}
    /\ Load(doubtful)
    /\ UNCHANGED <<entries, submits>>

\* The 409 of another outcome, or no answer, to a request that was served or not.
OutcomeFails(id) ==
    /\ posts[id] # "none"
    /\ outcome' = [outcome EXCEPT ![id] = "error"]
    /\ posts' = [posts EXCEPT ![id] = "none"]
    /\ doubtful' = IF posts[id] = "ok" THEN doubtful \cup {id} ELSE doubtful
    /\ UNCHANGED <<entries, page, forms, loads, submits>>

\* An entry is created or closed by somebody else.
Elsewhere(id) ==
    /\ doubtful' = IF page.phase = "unmounted" THEN doubtful ELSE doubtful \cup {id}
    /\ UNCHANGED <<page, forms, outcome, posts, loads, submits>>

PageStep ==
    \/ Mount
    \/ \E l \in Loads : ServeLoad(l) \/ LoadAnswered(l)
    \/ \E id \in EntryIds : \/ ToggleOutcomeForm(id) \/ SubmitOutcome(id)
                            \/ ServeOutcome(id) \/ OutcomeRecorded(id) \/ OutcomeFails(id)

-------------------------------------------------------------------------------
(* Correctness *)

\* What the page shows as loading or saving waits for an answer that will end it.
PageWaits ==
    /\ page.phase = "loading" => InFlight # {}
    /\ \A id \in EntryIds : outcome[id] = "saving" <=> posts[id] # "none"

\* Entries listed as rows say were so when they were read, and have been closed since at most.
Lists(rows) ==
    \A id \in DOMAIN rows :
        id \in DOMAIN entries /\ (rows[id] = "closed" => entries[id].status = "closed")

\* An entry listed as closed is closed; and a list that is shown has every entry as it is
\* stored, those whose outcomes were recorded on the page while lists were on their way
\* included, but for entries somebody else changed, whose answer was lost, or that are being
\* saved, and for lists that overtook each other.
ListTellsTruth ==
    page.phase = "loaded" =>
        /\ Lists(page.rows)
        /\ \A id \in DOMAIN entries \ doubtful :
              posts[id] = "none" => id \in DOMAIN page.rows /\ page.rows[id] = entries[id].status

\* What that rests on: a list, shown or on its way, lags behind by no more than the outcomes
\* the page knows to be recorded, and asks for again.
ListsLagBehind ==
    LET Current(rows) ==
            \A id \in DOMAIN entries \ doubtful :
                posts[id] # "ok" => id \in DOMAIN rows /\ rows[id] = entries[id].status
    IN  /\ page.phase = "loaded" => Current(page.rows)
        /\ \A l \in Loads :
              loads[l].at = "served" => Lists(loads[l].rows) /\ Current(loads[l].rows)
        /\ page.phase = "unmounted" => InFlight = {}

===============================================================================
