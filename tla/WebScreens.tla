------------------------------ MODULE WebScreens ------------------------------
(***************************************************************************)
(* The pages of the client that list, register, count and edit: one of     *)
(* them is open, and its list, its dialogs and its requests are the only   *)
(* ones there are.                                                         *)
(***************************************************************************)
EXTENDS MovementForms, CountScreen, EditDialogs

CONSTANTS
    OpenPages,      \* bound: the pages that are opened
    BrowsedPages    \* bound: those whose list, the same on all, is filtered

ASSUME PagesExist ==
    BrowsedPages \cup OpenPages \subseteq {"stock", "movements", "inventory"} \cup FormPages \cup EditPages

vars == <<page, calls, list, pick, options, form, applied, detail, items, dialog>>

Init ==
    /\ page \in OpenPages
    /\ ListInit
    /\ pick = NoPick /\ options = NoOptions
    /\ FormInit /\ CountInit /\ EditInit

\* The page behind an open dialog cannot be used; only two have a search.
UseList ==
    /\ Room /\ page \in BrowsedPages
    /\ ~form.shown /\ ~detail.showCreate /\ NoDialog
    /\ \/ \E f \in Filters : OnFilter(f)
       \/ \E p \in 1..LastPage : GoToPage(p)
       \/ \E t \in Texts : page \in {"stock", "products"} /\ OnSearch(t)
    /\ UNCHANGED <<page, pick, options, formVars, detail, editVars>>

\* What the list hears on every page but that of the counts, which has more
\* to do with it.
KeepList ==
    /\ page # "inventory"
    /\ Debounced \/ \E k \in DOMAIN calls, ok \in BOOLEAN : HearList(k, ok)
    /\ UNCHANGED <<page, pick, options, formVars, detail, editVars>>

Next ==
    \/ UseList \/ KeepList
    \/ page \notin EditPages \cup {"inventory"} /\ FormNext /\ UNCHANGED <<detail, editVars>>
    \/ CountNext /\ UNCHANGED <<formVars, editVars>>
    \/ EditNext /\ UNCHANGED <<pick, options, formVars, detail>>

Spec == Init /\ [][Next]_vars

-----------------------------------------------------------------------------
(* Properties. *)

\* A page that shows a spinner is waiting for an answer that will take it
\* away, whatever answers were overtaken, failed or dropped with a dialog.
SpinnersEnd ==
    /\ list.loading => Waits("list")
    /\ detail.loading => Waits("detail")
    /\ form.loadingEntries => Waits("entries")

\* Nothing on a page waits, or keeps a button disabled, for an answer that is
\* not to come.
WaitingEnds == SpinnersEnd /\ SavingEnds

\* While the answer that is shown is the last one asked for, the list is of
\* the filter and the page on the screen, and of the text of the search box
\* or one that has still to be let through.  The one exception is a query
\* that was sent with a text before it was let through: if that is typed back
\* to the text before, distinctUntilChanged sees no change, and the rows of
\* the text in between stay.  An older answer that comes last is shown
\* instead of the last one asked for, and nothing is said of it here.
ListFollowsFilters ==
    list.latest =>
        /\ list.rows.filter = list.filter /\ list.rows.page = list.page
        /\ \/ list.rows.text = list.text \/ list.due
           \/ list.rows.typing /\ list.emitted = list.text

\* No form is sent again while it is being saved.
WritesAreSingle == OneSubmission /\ OneWriteEach

\* What is reported as saved was saved to the last line, with its image.
SuccessIsWhole == SuccessMeansApplied /\ SavesAreWhole
=============================================================================
