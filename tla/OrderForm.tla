------------------------------- MODULE OrderForm ------------------------------
(***************************************************************************)
(* The order form of the web app (order-form.tsx) for one symbol, with the *)
(* services behind it: it checks a sell against the position the portfolio *)
(* computes from the journal, places the order, shows the fill, and saves  *)
(* it to the journal when the user asks.  The journal page, in which the   *)
(* user closes trades, is open in another tab (JournalList).               *)
(*                                                                         *)
(* handleSubmit and handleSaveToJournal are async: each call is a process  *)
(* that shares the component's state with the others between two awaits.   *)
(***************************************************************************)
EXTENDS JournalList

CONSTANTS
    Orders,      \* the calls of handleSubmit; each fills at most one order
    Quantities,  \* what the quantity field may hold when the form accepts it
    NoFill

ASSUME QuantitiesAssumption == Quantities \subseteq Nat \ {0}

VARIABLES
    shown,     \* orderState: phase and the order whose fill is displayed
    saveShown, \* journalState.phase
    placing,   \* the calls of handleSubmit
    save,      \* the calls of handleSaveToJournal, by the order whose fill they post
    fills,     \* the fills the form received: order -> side and quantity
    overlap    \* history: two handlers, or a handler and a closed trade, overlapped

handlerVars == <<shown, saveShown, placing, save, fills, overlap>>
formVars == <<entries, handlerVars, pageVars>>

-------------------------------------------------------------------------------

Sides == {"buy", "sell"}

NoSubmit == [pc |-> "idle"]

FormTypeOK ==
    /\ shown \in [phase : {"idle", "loading", "result", "error"}, fill : Orders \cup {NoFill}]
    /\ shown.phase = "result" => shown.fill \in DOMAIN fills
    /\ saveShown \in {"idle", "saving", "saved", "error"}
    /\ placing \in [Orders ->
          {NoSubmit} \cup [pc : {"check", "answer", "place", "done"}, side : Sides,
                           quantity : Quantities, owned : Nat]]
    /\ save \in [Orders -> {"idle", "post", "answer", "done"}]
    /\ IsTable(fills, Orders, [side : Sides, quantity : Quantities])
    /\ IsTable(entries, EntryIds, [order : Orders, status : {"open", "closed"}])
    /\ overlap \in BOOLEAN
    /\ PageTypeOK

FormInit ==
    /\ shown = [phase |-> "idle", fill |-> NoFill]
    /\ saveShown = "idle"
    /\ placing = [o \in Orders |-> NoSubmit]
    /\ save = [o \in Orders |-> "idle"]
    /\ fills = EmptyTable
    /\ entries = EmptyTable
    /\ overlap = FALSE
    /\ PageInit

Submitting == {o \in Orders : placing[o].pc \notin {"idle", "done"}}
Saving     == {o \in Orders : save[o] \notin {"idle", "done"}}

Show(phase, o) == shown' = [phase |-> phase, fill |-> o]

\* setOrderState({ phase: 'error' }), and the handler returns.
Refuse(o) ==
    /\ Show("error", NoFill)
    /\ placing' = [placing EXCEPT ![o].pc = "done"]

-------------------------------------------------------------------------------
(* The position of services/portfolio, from the entries that are open.          *)

\* Shares, one by one: those of the fill of of[x], for each x in DOMAIN of.
Shares(of, side) ==
    UNION {{x} \X (1..fills[of[x]].quantity) : x \in {y \in DOMAIN of : fills[of[y]].side = side}}
Balance(of) == Cardinality(Shares(of, "buy")) - Cardinality(Shares(of, "sell"))

OpenEntries == {id \in DOMAIN entries : entries[id].status = "open"}
Net == Balance([id \in OpenEntries |-> entries[id].order])

\* pos.quantity is the absolute value of the net; no position owns nothing.
PositionQuantity == IF Net < 0 THEN -Net ELSE Net

-------------------------------------------------------------------------------
(* handleSubmit *)

\* submitDisabled only while an order is loading: a position check leaves the button enabled.
\* A buy goes on to placeOrder at once, a sell awaits the position.
HandleSubmit(o) ==
    \E side \in Sides, q \in Quantities :
        /\ placing[o].pc = "idle"
        /\ shown.phase # "loading"
        /\ placing' = [placing EXCEPT ![o] =
               [pc |-> IF side = "buy" THEN "place" ELSE "check",
                side |-> side, quantity |-> q, owned |-> 0]]
        /\ IF side = "buy"
           THEN Show("loading", NoFill) /\ saveShown' = "idle"
           ELSE UNCHANGED <<shown, saveShown>>
        /\ overlap' = (overlap \/ Submitting \cup Saving # {})
        /\ UNCHANGED <<save, fills, entries, pageVars>>

\* The portfolio service answers sdk.portfolio.summary(), or the call fails.
ReadPosition(o) ==
    /\ placing[o].pc = "check"
    /\ \/ /\ placing' = [placing EXCEPT ![o].pc = "answer", ![o].owned = PositionQuantity]
          /\ UNCHANGED shown
       \/ Refuse(o)
    /\ UNCHANGED <<saveShown, save, fills, entries, overlap, pageVars>>

\* checkPositionBeforeSell returns: refused without a position or beyond it, whatever its
\* direction; else the order is placed.
CheckPosition_AnyQuantity(o) ==
    /\ placing[o].pc = "answer"
    /\ \/ /\ placing[o].owned = 0
          /\ Refuse(o)
          /\ UNCHANGED saveShown
       \/ /\ placing[o].owned > 0
          /\ Show("loading", NoFill)
          /\ saveShown' = "idle"
          /\ placing' = [placing EXCEPT ![o].pc = "place"]
    /\ UNCHANGED <<save, fills, entries, overlap, pageVars>>
CheckPosition(o) ==
    /\ placing[o].pc = "answer"
    /\ \/ /\ placing[o].quantity > placing[o].owned
          /\ Refuse(o)
          /\ UNCHANGED saveShown
       \/ /\ placing[o].quantity <= placing[o].owned
          /\ Show("loading", NoFill)
          /\ saveShown' = "idle"
          /\ placing' = [placing EXCEPT ![o].pc = "place"]
    /\ UNCHANGED <<save, fills, entries, overlap, pageVars>>

\* placeOrder resolves with a fill, which nothing but the form knows of, or throws.
PlaceOrder_NoCatch(o) ==
    /\ placing[o].pc = "place"
    /\ placing' = [placing EXCEPT ![o].pc = "done"]
    /\ \/ /\ fills' = Put(fills, o, [side |-> placing[o].side, quantity |-> placing[o].quantity])
          /\ Show("result", o)
       \/ UNCHANGED <<fills, shown>>
    /\ UNCHANGED <<saveShown, save, entries, overlap, pageVars>>
PlaceOrder(o) ==
    /\ placing[o].pc = "place"
    /\ \/ /\ fills' = Put(fills, o, [side |-> placing[o].side, quantity |-> placing[o].quantity])
          /\ Show("result", o)
          /\ placing' = [placing EXCEPT ![o].pc = "done"]
       \/ /\ Refuse(o)
          /\ UNCHANGED fills
    /\ UNCHANGED <<saveShown, save, entries, overlap, pageVars>>

-------------------------------------------------------------------------------
(* handleSaveToJournal *)

\* The button is there while a fill is shown and journalState is idle.
ClickSave_Retry ==
    /\ shown.phase = "result" /\ saveShown \in {"idle", "error"}
    /\ save' = [save EXCEPT ![shown.fill] = "post"]
    /\ saveShown' = "saving"
    /\ overlap' = (overlap \/ Submitting \cup Saving # {})
    /\ UNCHANGED <<shown, placing, fills, entries, pageVars>>
ClickSave ==
    /\ shown.phase = "result" /\ saveShown = "idle"
    /\ save' = [save EXCEPT ![shown.fill] = "post"]
    /\ saveShown' = "saving"
    /\ overlap' = (overlap \/ Submitting \cup Saving # {})
    /\ UNCHANGED <<shown, placing, fills, entries, pageVars>>

\* POST /v1/journal/entries stores the entry, or fails before it does.
CreateEntry(o) ==
    /\ save[o] = "post"
    /\ \/ /\ \E id \in EntryIds \ DOMAIN entries :
                /\ entries' = Put(entries, id, [order |-> o, status |-> "open"])
                /\ Elsewhere(id)
          /\ save' = [save EXCEPT ![o] = "answer"]
          /\ UNCHANGED saveShown
       \/ /\ save' = [save EXCEPT ![o] = "done"]
          /\ saveShown' = "error"
          /\ UNCHANGED <<entries, pageVars>>
    /\ UNCHANGED <<shown, placing, fills, overlap>>

\* Its answer arrives, or is lost.
SaveAnswered(o) ==
    /\ save[o] = "answer"
    /\ save' = [save EXCEPT ![o] = "done"]
    /\ saveShown' \in {"saved", "error"}
    /\ UNCHANGED <<shown, placing, fills, entries, overlap, pageVars>>

-------------------------------------------------------------------------------

\* The user records outcomes on the journal page, or with another device.
JournalPage ==
    /\ PageStep
    /\ overlap' = (overlap \/ (Submitting # {} /\ entries' # entries))
    /\ UNCHANGED <<shown, saveShown, placing, save, fills>>

CloseTrade(id) ==
    /\ id \in DOMAIN entries
    /\ entries[id].status = "open"
    /\ entries' = [entries EXCEPT ![id].status = "closed"]
    /\ Elsewhere(id)
    /\ overlap' = (overlap \/ Submitting # {})
    /\ UNCHANGED <<shown, saveShown, placing, save, fills>>

\* What a call of handleSubmit does once it is made.
Proceed(o) == ReadPosition(o) \/ CheckPosition(o) \/ PlaceOrder(o)

FormNext ==
    \/ \E o \in Orders : HandleSubmit(o) \/ Proceed(o) \/ CreateEntry(o) \/ SaveAnswered(o)
    \/ ClickSave
    \/ JournalPage
    \/ \E id \in EntryIds : CloseTrade(id)

\* A fetch settles: the services answer or the connection fails.
Fairness == \A o \in Orders : WF_formVars(Proceed(o))

FormSpec == FormInit /\ [][FormNext]_formVars /\ Fairness

-------------------------------------------------------------------------------
(* Correctness *)

\* No fill is journaled twice, although creating an entry is not idempotent, its answer
\* may be lost, and late answers change the button's state: a fill is offered once.
JournaledOnce ==
    \A id, other \in DOMAIN entries : entries[id].order = entries[other].order => id = other

Journaled(o) == \E id \in DOMAIN entries : entries[id].order = o

\* While no two handlers overlap, "Saved to journal" is said of the fill that was saved.
SavedIsSaved ==
    ~overlap /\ shown.phase = "result" /\ saveShown = "saved" => Journaled(shown.fill)

\* What they rest on: a fill that can be saved was not, a fill that is being saved is not
\* journaled before the service creates the entry, and is from then on.
SavesFollowFills ==
    /\ \A o \in DOMAIN fills : placing[o].pc = "done"
    /\ \A o \in Orders : save[o] # "idle" => o \in DOMAIN fills
    /\ \A id \in DOMAIN entries : save[entries[id].order] \in {"answer", "done"}
    /\ \A o \in Orders : save[o] = "answer" => Journaled(o)
    /\ shown.phase = "result" /\ saveShown = "idle" => save[shown.fill] = "idle"

\* And while no two handlers overlap: one runs at a time, over the state that it has set and
\* the position it was answered.
HandlersAreAlone ==
    ~ overlap =>
        /\ \A o, p \in Submitting \cup Saving : o = p
        /\ \A o \in Saving : shown.phase = "result" => shown.fill = o
        /\ \A o \in Submitting :
              /\ placing[o].pc = "place" => saveShown = "idle"
              /\ placing[o].side = "sell" /\ placing[o].pc \in {"answer", "place"} =>
                    placing[o].owned = PositionQuantity
              /\ placing[o].side = "sell" /\ placing[o].pc = "place" =>
                    placing[o].quantity <= placing[o].owned

\* A fill goes to the journal once, and the form says so of that fill.
FillsAreKept == JournaledOnce /\ SavedIsSaved /\ SavesFollowFills /\ HandlersAreAlone

Sold(o) == o \in DOMAIN fills' \ DOMAIN fills /\ fills'[o].side = "sell"

Unsaved == {o \in DOMAIN fills : ~Journaled(o)}

\* The shares the user holds: what was filled and not closed, journaled or not.
Closed(o) == \E id \in DOMAIN entries : entries[id].order = o /\ entries[id].status = "closed"
Holding == Balance([o \in {p \in DOMAIN fills : ~Closed(p)} |-> o])

\* A sell is covered by the shares the user holds when handlers do not overlap, every fill was
\* journaled and the position is not short: what the position check needs to be right.
CheckedSellsAreCovered ==
    [][\A o \in Orders :
          Sold(o) /\ ~overlap /\ Unsaved = {} /\ Holding >= 0
              => fills'[o].quantity <= Holding]_formVars

\* The journal page in the other tab tells the truth, and what it waits for comes.
JournalPageInv == FormTypeOK /\ PageWaits /\ ListTellsTruth /\ ListsLagBehind

\* The form never stays disabled: every loading order is answered, however the calls of
\* handleSubmit overwrite one another's state.
LoadingEnds == shown.phase = "loading" ~> shown.phase # "loading"

===============================================================================
