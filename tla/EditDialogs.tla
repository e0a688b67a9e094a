------------------------------ MODULE EditDialogs ------------------------------
(***************************************************************************)
(* The pages whose rows are edited in dialogs: the products, the accounts  *)
(* (users, and companies) and the labels (categories, and brands).  One    *)
(* dialog is a form that creates or edits a row, the other confirms that   *)
(* one is removed, or switched off and on.  Both can be closed while their *)
(* request is in flight; what is heard then acts on the dialog of that     *)
(* time.                                                                   *)
(***************************************************************************)
EXTENDS PageLists

CONSTANTS Items     \* rows, as the SKU, email or name that is typed tells them apart

VARIABLES
    items,      \* what the API has of each
    dialog      \* the dialogs and the flags the page keeps for them

editVars == <<items, dialog>>

EditPages == {"products", "accounts", "labels"}
Present == {"bare", "pictured"}
New == "new"

\* form is the row of the form, or New; pictured is history: the rows whose
\* form was sent with an image and reported as saved.
ClosedDialogs ==
    [form |-> None, confirm |-> None, saving |-> FALSE, deleting |-> FALSE, pictured |-> {}]

NoDialog == dialog.form = None /\ dialog.confirm = None

\* A row of the list, under no backdrop; what it shows may have gone since.
Clickable(i) == NoDialog /\ ~list.loading /\ items[i] # "absent"

-----------------------------------------------------------------------------
(* Opening and closing *)

Show(new) == dialog' = new /\ UNCHANGED <<calls, list, items>>

OpenCreate == NoDialog /\ Show([dialog EXCEPT !.form = New])
OpenEdit(i) == Clickable(i) /\ Show([dialog EXCEPT !.form = i])
Confirm(i) == Clickable(i) /\ Show([dialog EXCEPT !.confirm = i])
CloseDialog == ~NoDialog /\ Show([dialog EXCEPT !.form = None, !.confirm = None])

-----------------------------------------------------------------------------
(* Sending.  The labels have a flag for each dialog, the others one for    *)
(* both; a button is disabled by its flag.                                 *)

\* Mutation: a flag of its own for the confirmation, on every page.
OwnFlag(d, on) == [d EXCEPT !.deleting = on]

ConfirmFlag(d, on) ==
    IF page = "labels" THEN [d EXCEPT !.deleting = on] ELSE [d EXCEPT !.saving = on]

Sent(kind, i, file) ==
    calls' = Append(calls, Call(kind, [item |-> i, create |-> dialog.form = New, file |-> file]))

\* The row i, typed or edited, with a file or without.
SubmitForm(i, file) ==
    /\ dialog.form \in {New, i} /\ ~dialog.saving
    /\ file => page = "products"
    /\ Sent("row", i, file)
    /\ dialog' = [dialog EXCEPT !.saving = TRUE]
    /\ UNCHANGED <<list, items>>

Execute ==
    /\ dialog.confirm # None /\ dialog # ConfirmFlag(dialog, TRUE)
    /\ Sent("confirm", dialog.confirm, FALSE)
    /\ dialog' = ConfirmFlag(dialog, TRUE)
    /\ UNCHANGED <<list, items>>

-----------------------------------------------------------------------------
(* The API: a name is taken once, what is gone is not found; the SKU of a  *)
(* removed product stays taken, a removed label leaves nothing.            *)

Accepts(kind, w) ==
    IF kind = "row" /\ w.create
    THEN items[w.item] = "absent" \/ (page = "labels" /\ items[w.item] = "removed")
    ELSE items[w.item] \in Present

After(kind, w) ==
    CASE kind = "row" -> IF w.create THEN "bare" ELSE items[w.item]
      [] kind = "image" -> "pictured"
      [] kind = "confirm" -> IF page = "accounts" THEN items[w.item] ELSE "removed"

\* A request is carried out and answered; an error may hide that it was.
Carried(k, kind, ok) ==
    /\ Answered(k, kind)
    /\ LET w == calls[k].about
       IN  \E done \in {TRUE, ok} :
             /\ done => Accepts(kind, w)
             /\ items' = IF done THEN [items EXCEPT ![w.item] = After(kind, w)] ELSE items

-----------------------------------------------------------------------------
(* Hearing *)

HasImage(w) == w.file

\* switchMap: with a file, the row is followed by its image.
HearRow(k) ==
    /\ Carried(k, "row", TRUE) /\ HasImage(calls[k].about)
    /\ calls' = [calls EXCEPT ![k].kind = "image"]
    /\ UNCHANGED <<list, dialog>>

HearSaved(k) ==
    /\ \/ Carried(k, "row", TRUE) /\ ~HasImage(calls[k].about)
       \/ Carried(k, "image", TRUE)
    /\ dialog' = [dialog EXCEPT !.saving = FALSE, !.form = None,
           !.pictured = @ \cup {i \in {calls[k].about.item} : calls[k].about.file}]
    /\ Load(list, Rest(k))

HearSaveError(k) ==
    /\ \E kind \in {"row", "image"} : Carried(k, kind, FALSE)
    /\ dialog' = [dialog EXCEPT !.saving = FALSE]
    /\ calls' = Rest(k)
    /\ UNCHANGED list

HearConfirmed(k) ==
    /\ Carried(k, "confirm", TRUE)
    /\ dialog' = [ConfirmFlag(dialog, FALSE) EXCEPT !.confirm = None]
    /\ Load(list, Rest(k))

\* The products leave the question open.
HearConfirmError(k) ==
    /\ Carried(k, "confirm", FALSE)
    /\ dialog' = [ConfirmFlag(dialog, FALSE) EXCEPT
           !.confirm = IF page = "products" THEN @ ELSE None]
    /\ calls' = Rest(k)
    /\ UNCHANGED list

-----------------------------------------------------------------------------
\* The other pages say nothing of the items.
EditInit ==
    /\ items \in [Items -> IF page \in EditPages THEN {"absent", "bare"} ELSE {"bare"}]
    /\ dialog = ClosedDialogs

UseDialogs ==
    \/ OpenCreate \/ CloseDialog \/ Execute
    \/ \E i \in Items : OpenEdit(i) \/ Confirm(i) \/ \E file \in BOOLEAN : SubmitForm(i, file)

HearEdits ==
    \E k \in DOMAIN calls :
        \/ HearRow(k) \/ HearSaved(k) \/ HearSaveError(k)
        \/ HearConfirmed(k) \/ HearConfirmError(k)

EditNext ==
    /\ page \in EditPages
    /\ (Room /\ UseDialogs) \/ HearEdits
    /\ UNCHANGED page

-----------------------------------------------------------------------------
(* Properties. *)

\* One flag may stand for both dialogs, which can be closed and opened again
\* at any moment, and a save may be two requests: a button is disabled exactly
\* while one write of its flag is unanswered, so no form is sent twice.
Pending(kinds) == {k \in DOMAIN calls : calls[k].kind \in kinds}

OneWriteEach ==
    page \in EditPages =>
        LET Fits(flag, kinds) ==
                IF flag THEN \E k \in Pending(kinds) : Pending(kinds) = {k} ELSE Pending(kinds) = {}
            save == {"row", "image"}
        IN  IF page = "labels"
            THEN Fits(dialog.saving, save) /\ Fits(dialog.deleting, {"confirm"})
            ELSE Fits(dialog.saving, save \cup {"confirm"})

\* A product is reported as saved only with its image, though the image is a
\* request of its own that may fail after the row was written, and the form
\* may have been closed, or sent again for another row, in between.
SavesAreWhole == \A i \in dialog.pictured : items[i] \in {"pictured", "removed"}
=============================================================================
