----------------------------- MODULE MovementForms -----------------------------
(***************************************************************************)
(* The pages that register movements: receptions and expeditions, whose    *)
(* form sends one request for each of its lines and waits for all of them, *)
(* and transfers, whose origin is one of the product's stock entries.  A   *)
(* form can be closed at any moment; what it has sent goes on.             *)
(***************************************************************************)
EXTENDS Cascade

CONSTANTS
    Products, StockAt,  \* the locations where a product has stock
    MaxLines,           \* bound: lines of a form
    MaxSubmissions      \* bound: times a form is sent

ASSUME StockIsSomewhere == StockAt \in [Products -> SUBSET Locations]
ASSUME FormBounds == MaxLines \in Nat \ {0} /\ MaxSubmissions \in Nat

VARIABLES
    form,       \* the dialog and the flags the page keeps for it
    applied     \* movements that the API registered

formVars == <<form, applied>>

FormPages == {"receptions", "expeditions"}

\* Whether each line has its product; a transfer is of one product, and has
\* no lines.  submission numbers the last time the form was sent, lines then.
NewForm ==
    [shown |-> FALSE, lines |-> <<FALSE>>, product |-> None, entries |-> {}, from |-> None,
     loadingEntries |-> FALSE, saving |-> FALSE, succeeded |-> FALSE, submission |-> 0, sent |-> 0]
Closed(f) ==
    [NewForm EXCEPT !.saving = f.saving, !.succeeded = f.succeeded,
                    !.submission = f.submission, !.sent = f.sent]

\* Closing destroys the dialog, and with it the options it was waiting for.
\* The order of what stays is free: any of it may be answered next.
FormKinds == {"zones", "aisles", "locs", "entries"}
WithoutForm(cs) ==
    LET kept == SetToSeq({k \in DOMAIN cs : cs[k].kind \notin FormKinds})
    IN  [j \in DOMAIN kept |-> cs[kept[j]]]
CloseForm(cs) == pick' = NoPick /\ options' = NoOptions /\ calls' = WithoutForm(cs)

Editing == form.shown /\ ~form.succeeded

OpenModal ==
    /\ page \in FormPages \cup {"movements"} /\ ~form.shown
    /\ form' = [form EXCEPT !.shown = TRUE]
    /\ UNCHANGED <<calls, list, pick, options, applied>>

CloseModal ==
    /\ form.shown
    /\ form' = [Closed(form) EXCEPT !.succeeded = FALSE]
    /\ CloseForm(calls)
    /\ UNCHANGED <<list, applied>>

-----------------------------------------------------------------------------
(* Filling the form *)

\* The selects that depend on the warehouse appear with its zones.
PickPlace ==
    /\ \/ \E z \in Zones \cup {None} : OnZoneChange(z)
       \/ \E a \in Aisles \cup {None} : OnAisleChange(a) /\ (page = "movements" => pick.zone # None)
       \/ \E l \in Locations \cup {None} :
             OnLocationChange(l) /\ (page = "movements" => pick.aisle # None)
    /\ UNCHANGED <<list, formVars>>

OnPlaceChange ==
    /\ Editing
    /\ IF page = "movements" THEN form.from # None ELSE options.zones # {}
    /\ PickPlace

OnWarehouseChange(w) ==
    /\ Editing /\ page \in FormPages
    /\ w # pick.wh /\ OnWarehouse(w, calls)
    /\ UNCHANGED <<list, formVars>>

Rewrite(lines) ==
    /\ Editing /\ page \in FormPages
    /\ form' = [form EXCEPT !.lines = lines]
    /\ UNCHANGED <<calls, list, pick, options, applied>>

AddLine == Len(form.lines) < MaxLines /\ Rewrite(Append(form.lines, FALSE))
RemoveLine(i) == Len(form.lines) > 1 /\ Rewrite(RemoveAt(form.lines, i))

\* The product of a line, chosen or scanned
FillLine(i) == Rewrite([form.lines EXCEPT ![i] = TRUE])

OnProductChange(p) ==
    /\ Editing /\ page = "movements"
    /\ p # form.product
    /\ form' = [form EXCEPT !.product = p, !.entries = {}, !.from = None,
                            !.loadingEntries = (p # None)]
    /\ pick' = NoPick /\ options' = NoOptions
    /\ calls' = IF p = None THEN calls ELSE Append(calls, Call("entries", [product |-> p]))
    /\ UNCHANGED <<list, applied>>

HearEntries(k, ok) ==
    /\ Answered(k, "entries")
    /\ form' = [form EXCEPT !.loadingEntries = FALSE,
                            !.entries = IF ok THEN StockAt[calls[k].about.product] ELSE @]
    /\ calls' = Rest(k)
    /\ UNCHANGED <<list, pick, options, applied>>

\* An entry that is no longer offered leaves no warehouse.
OnOriginChange(e) ==
    /\ Editing /\ page = "movements" /\ form.product # None /\ ~form.loadingEntries
    /\ e \in (form.entries \cup {None}) \ {form.from}
    /\ form' = [form EXCEPT !.from = e]
    /\ OnWarehouse(IF e = None THEN None ELSE WarehouseOf(e), calls)
    /\ UNCHANGED <<list, applied>>

-----------------------------------------------------------------------------
(* Sending it *)

IsFormValid ==
    IF page = "movements"
    THEN form.from \in form.entries /\ pick.loc \notin {None, form.from}
    ELSE pick.wh # None /\ pick.loc # None /\ \A i \in DOMAIN form.lines : form.lines[i]

Post(i) ==
    Call("post", [submission |-> form.submission + 1, line |-> i, wh |-> pick.wh,
                  from |-> CASE page = "receptions" -> None
                             [] page = "expeditions" -> pick.loc
                             [] page = "movements" -> form.from,
                  to |-> IF page = "expeditions" THEN None ELSE pick.loc,
                  awaited |-> TRUE])

SubmitEnabled == ~form.saving

Submit ==
    /\ Editing /\ SubmitEnabled /\ IsFormValid
    /\ form.submission < MaxSubmissions
    /\ LET n == IF page = "movements" THEN 1 ELSE Len(form.lines)
       IN  /\ form' = [form EXCEPT !.saving = TRUE, !.submission = @ + 1, !.sent = n]
           /\ calls' = calls \o [i \in 1..n |-> Post(i)]
    /\ UNCHANGED <<list, pick, options, applied>>

\* The API's check of the locations of a movement
PlacesOf(p) == \A l \in {p.from, p.to} \ {None} : WarehouseOf(l) = p.wh

Registered(p) == [submission |-> p.submission, line |-> p.line]

\* The API registers a movement or refuses it, for its places or otherwise.
Serve(p, registered) ==
    /\ registered => PlacesOf(p)
    /\ applied' = applied \cup IF registered THEN {Registered(p)} ELSE {}

\* A request that nobody awaits any more
ServeOther(k, registered) ==
    /\ Answered(k, "post") /\ ~calls[k].about.awaited
    /\ Serve(calls[k].about, registered)
    /\ calls' = Rest(k)
    /\ UNCHANGED <<list, pick, options, form>>

Awaited(cs) == {k \in DOMAIN cs : cs[k].kind = "post" /\ cs[k].about.awaited}

\* Mutation: the first answer is taken for all.
FirstAnswered(k) == TRUE

AllAnswered(k) == Awaited(calls) = {k}

\* forkJoin unsubscribes from the others; as they are sent, they are
\* carried out nevertheless.
Unsubscribed(cs) ==
    [k \in DOMAIN cs |->
        IF cs[k].kind = "post" THEN [cs[k] EXCEPT !.about.awaited = FALSE] ELSE cs[k]]

\* An answer and what the API did are one step, as nobody looks at one before
\* the other; an error may be the loss of an answer.
Heard(k, ok) ==
    /\ Answered(k, "post") /\ calls[k].about.awaited
    /\ \E registered \in {TRUE, ok} : Serve(calls[k].about, registered)

\* The others are still to come.
HearPost(k) ==
    /\ Heard(k, TRUE) /\ ~AllAnswered(k)
    /\ calls' = Rest(k)
    /\ UNCHANGED <<list, pick, options, form>>

HearPosted(k) ==
    /\ Heard(k, TRUE) /\ AllAnswered(k) /\ page \in FormPages
    /\ Load(FirstPage(list), Rest(k))
    /\ form' = [form EXCEPT !.saving = FALSE, !.succeeded = TRUE]
    /\ UNCHANGED <<pick, options>>

\* The dialog is closed, be it the one that sent the transfer or not.
HearTransferred(k) ==
    /\ Heard(k, TRUE) /\ page = "movements"
    /\ list' = Loading(FirstPage(list))
    /\ form' = [Closed(form) EXCEPT !.saving = FALSE]
    /\ CloseForm(Ask(FirstPage(list), Rest(k)))

HearPostError(k) ==
    /\ Heard(k, FALSE)
    /\ calls' = Unsubscribed(Rest(k))
    /\ form' = [form EXCEPT !.saving = FALSE]
    /\ UNCHANGED <<list, pick, options>>

-----------------------------------------------------------------------------
FormInit == form = NewForm /\ applied = {}

FillForm ==
    \/ OpenModal \/ CloseModal \/ AddLine \/ OnPlaceChange \/ Submit
    \/ \E i \in DOMAIN form.lines : RemoveLine(i) \/ FillLine(i)
    \/ \E w \in Warehouses \cup {None} : OnWarehouseChange(w)
    \/ \E p \in Products \cup {None} : OnProductChange(p)
    \/ \E e \in Locations \cup {None} : OnOriginChange(e)

HearForm ==
    \E k \in DOMAIN calls, ok \in BOOLEAN :
        \/ HearOptions(k, ok) /\ UNCHANGED <<list, formVars>>
        \/ HearEntries(k, ok)
        \/ ServeOther(k, ok)
        \/ HearPost(k) \/ HearPosted(k) \/ HearTransferred(k) \/ HearPostError(k)

FormNext ==
    /\ (Room /\ FillForm) \/ HearForm
    /\ UNCHANGED page

-----------------------------------------------------------------------------
(* Properties. *)

\* The success page is shown only if every line of the last submission was
\* registered, though the requests of a submission are answered separately
\* and the dialog may have been closed and opened again in between.
SuccessMeansApplied ==
    form.succeeded =>
        \A i \in 1..form.sent :
            \E p \in applied : p.submission = form.submission /\ p.line = i

\* Two submissions are never awaited together, whatever happened to the
\* dialog: the button is disabled exactly while one is.  Requests that an
\* error of another line left unawaited do not count; the API may still
\* carry them out beside the next submission.
OneSubmission ==
    /\ form.saving <=> Awaited(calls) # {}
    /\ \A k \in Awaited(calls) : calls[k].about.submission = form.submission

\* The choices and the options of a form are of one branch of the tree.
Coherent ==
    /\ options.zones \subseteq Under(pick.wh) /\ pick.zone \in options.zones \cup {None}
    /\ options.aisles \subseteq Under(pick.zone) /\ pick.aisle \in options.aisles \cup {None}
    /\ options.locs \subseteq Under(pick.aisle) /\ pick.loc \in options.locs \cup {None}
    /\ form.from # None => pick.wh = WarehouseOf(form.from)

\* The choice under which an answer lists is no longer the one it was asked for.
Overtaken(c) ==
    \/ c.kind = "zones" /\ c.about.wh # pick.wh
    \/ c.kind = "aisles" /\ c.about.zone # pick.zone
    \/ c.kind = "locs" /\ c.about.aisle # pick.aisle

Posts == {calls[k] : k \in Awaited(calls)}

\* Each choice clears what depends on it, in the form and among its options,
\* also when dialogs are closed, products and origins changed and answers
\* late: only an answer to a choice that has been changed since can mix two
\* branches.  A form without such a mixture sends locations of the warehouse
\* that it names.
PlacesFollowChoices ==
    [][page # "inventory" /\ Coherent =>
         /\ Coherent' \/ \E k \in DOMAIN calls : Overtaken(calls[k]) /\ HearOptions(k, TRUE)
         /\ \A c \in Posts' \ Posts : PlacesOf(c.about)]_<<calls, pick, options, form>>
=============================================================================
