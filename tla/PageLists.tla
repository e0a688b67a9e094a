------------------------------- MODULE PageLists -------------------------------
(***************************************************************************)
(* The list at the top of every page of the client (stock, products,       *)
(* movements, receptions, expeditions, counts): its filters, its search    *)
(* box, its pages, and the requests that fill it, which are answered in    *)
(* any order and which nothing cancels while the page is open.             *)
(***************************************************************************)
EXTENDS Integers, SequencesExt

CONSTANTS
    Filters,        \* values of the filters of a list
    Texts,          \* texts of its search box
    LastPage,       \* bound: pages the user turns to
    MaxCalls,       \* bound: requests in flight
    None

ASSUME ListsHaveFilters == Filters # {} /\ Texts # {} /\ None \notin Texts
ASSUME PagesArePositive == LastPage \in Nat \ {0} /\ MaxCalls \in Nat

VARIABLES
    page,   \* the page that is open
    calls,  \* the requests it is waiting for, any of which may be answered next
    list    \* its list

\* A request; what it is about says what its answer will be used for.
Call(kind, about) == [kind |-> kind, about |-> about]
Waits(kind) == \E k \in DOMAIN calls : calls[k].kind = kind
Answered(k, kind) == k \in DOMAIN calls /\ calls[k].kind = kind
Rest(k) == RemoveAt(calls, k)

\* bound
Room == Len(calls) < MaxCalls

\* What is asked for; typing is that the text was still to be let through.
Query(l) == [filter |-> l.filter, text |-> l.text, page |-> l.page, typing |-> l.due]

\* emitted is what the search last let through, due that it is about to let
\* something through; rows is the query whose answer is shown, and latest that
\* no other was asked for after it.
NoRows == [filter |-> None, text |-> None, page |-> 0, typing |-> FALSE]
ClosedList(f, t) ==
    [filter |-> f, text |-> t, page |-> 1, rows |-> NoRows, latest |-> FALSE,
     loading |-> FALSE, emitted |-> None, due |-> FALSE]

Loading(l) == [l EXCEPT !.loading = TRUE, !.latest = FALSE]

\* load: the request joins those that are still unanswered.
Outdated(cs) ==
    [k \in DOMAIN cs |->
        IF cs[k].kind = "list" THEN [cs[k] EXCEPT !.about.latest = FALSE] ELSE cs[k]]

Ask(l, cs) ==
    Append(Outdated(cs), Call("list", [query |-> Query(l), latest |-> TRUE]))

Load(l, cs) == list' = Loading(l) /\ calls' = Ask(l, cs)

FirstPage(l) == [l EXCEPT !.page = 1]

\* The filters, and clearFilters.
OnFilter(f) ==
    /\ f # list.filter
    /\ Load([FirstPage(list) EXCEPT !.filter = f], calls)

\* The pages are hidden while the list loads.
GoToPage(p) ==
    /\ ~list.loading
    /\ p \in 1..LastPage /\ p \in {list.page - 1, list.page + 1}
    /\ Load([list EXCEPT !.page = p], calls)

OnSearch(t) ==
    /\ t # list.text
    /\ list' = [list EXCEPT !.text = t, !.due = TRUE]
    /\ UNCHANGED calls

\* Mutation: a search is not sent while the list is loading.
DebouncedIdle ==
    /\ list.due
    /\ LET l == [list EXCEPT !.due = FALSE, !.emitted = list.text]
       IN  IF list.emitted = list.text \/ list.loading THEN list' = l /\ UNCHANGED calls
           ELSE Load(FirstPage(l), calls)

\* debounceTime, then distinctUntilChanged.
Debounced ==
    /\ list.due
    /\ LET l == [list EXCEPT !.due = FALSE, !.emitted = list.text]
       IN  IF list.emitted = list.text THEN list' = l /\ UNCHANGED calls
           ELSE Load(FirstPage(l), calls)

\* Mutation: an error leaves the spinner.
ShownSpinning(l, about, ok) ==
    IF ok THEN [l EXCEPT !.rows = about.query, !.latest = about.latest, !.loading = FALSE]
    ELSE l

Shown(l, about, ok) ==
    IF ok THEN [l EXCEPT !.rows = about.query, !.latest = about.latest, !.loading = FALSE]
    ELSE [l EXCEPT !.loading = FALSE]

HearList(k, ok) ==
    /\ Answered(k, "list")
    /\ list' = Shown(list, calls[k].about, ok)
    /\ calls' = Rest(k)

ListInit ==
    LET l == ClosedList(CHOOSE f \in Filters : TRUE, CHOOSE t \in Texts : TRUE)
    IN  list = Loading(l) /\ calls = Ask(l, <<>>)
=============================================================================
