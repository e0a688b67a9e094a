--------------------------- MODULE WebScreensProofs ---------------------------
(***************************************************************************)
(* What the pages of the client keep for every number of requests in       *)
(* flight, answered in any order, failed, or dropped with their dialog.    *)
(***************************************************************************)
EXTENDS WebScreens, FiniteSetTheorems, SequenceTheorems, TLAPS

-----------------------------------------------------------------------------
(* The calls *)

\* The answer an entry of calls is waited for with: a write that no button
\* waits for, and a movement that nobody does, are told from those one does.
Tag(c) ==
    IF c.kind = "write" /\ c.about.op = "updateLine" THEN "update"
    ELSE IF c.kind = "post" /\ c.about.awaited THEN "awaited"
    ELSE c.kind

Has(cs, T) == \E k \in DOMAIN cs : Tag(cs[k]) \in T
One(cs, T) == \A j, k \in DOMAIN cs : Tag(cs[j]) \in T /\ Tag(cs[k]) \in T => j = k

Kinds ==
    {"list", "zones", "aisles", "locs", "entries", "post", "detail", "write",
     "lookup", "scannedAisles", "scannedLocs", "row", "image", "confirm"}

QueryType ==
    [filter: Filters \cup {None}, text: Texts \cup {None}, page: Int, typing: BOOLEAN]

\* What each answer is used for, as far as the handlers of answers look at it.
CallOK(c, p) ==
    /\ c \in [kind: Kinds, about: {c.about}]
    /\ c.kind = "list" => c.about \in [query: QueryType, latest: BOOLEAN]
    /\ c.kind = "entries" => c.about.product \in Products
    /\ c.kind = "post" =>
           c.about \in [submission: Nat, line: Nat, wh: {c.about.wh}, from: {c.about.from},
                        to: {c.about.to}, awaited: BOOLEAN]
    /\ c.kind = "detail" => c.about.count \in Counts
    /\ c.kind = "write" => c.about.op \in Ops /\ c.about.count \in Counts
    /\ c.kind \in {"row", "image", "confirm"} =>
           /\ c.about \in [item: Items, create: BOOLEAN, file: BOOLEAN]
           /\ c.about.file => p = "products"

CallsOK(cs, p) ==
    /\ Len(cs) \in Nat /\ cs = [k \in 1..Len(cs) |-> cs[k]]
    /\ \A k \in DOMAIN cs : CallOK(cs[k], p)

-----------------------------------------------------------------------------
(* The list *)

\* A text that is not due has been let through, but for the first one.
ListType ==
    {l \in [filter: Filters, text: Texts, page: Int, rows: QueryType, latest: BOOLEAN,
            loading: BOOLEAN, emitted: Texts \cup {None}, due: BOOLEAN] :
        l.due \/ l.emitted \in {None, l.text}}

\* A query that no other has been sent after is the current one, but for a text
\* that is due, or that it was sent with before it was let through.
Current(q, l) ==
    /\ q.filter = l.filter /\ q.page = l.page
    /\ q.typing \/ l.emitted \in {None, q.text}
    /\ q.text = l.text \/ l.due \/ (q.typing /\ l.emitted = l.text)

LatestIsCurrent(cs, l) ==
    /\ l.latest => Current(l.rows, l)
    /\ \A k \in DOMAIN cs :
           cs[k].kind = "list" /\ cs[k].about.latest => Current(cs[k].about.query, l)

ListOK(cs, l) ==
    /\ l \in ListType /\ LatestIsCurrent(cs, l)
    /\ l.loading => Has(cs, {"list"})

-----------------------------------------------------------------------------
(* The forms of movements; a transfer is one movement. *)

FormType ==
    [shown: BOOLEAN, lines: Seq(BOOLEAN) \ {<<>>}, product: Products \cup {None},
     entries: SUBSET Locations, from: Locations \cup {None}, loadingEntries: BOOLEAN,
     saving: BOOLEAN, succeeded: BOOLEAN, submission: Nat, sent: Nat]

\* The movements that are awaited are of the last submission, and each of its
\* lines is registered, or awaited, or was refused and the form not saved.
PostsOK(cs, f, done) ==
    /\ f.saving <=> Has(cs, {"awaited"})
    /\ \A k \in DOMAIN cs : Tag(cs[k]) = "awaited" => cs[k].about.submission = f.submission
    /\ f.saving => \A i \in 1..f.sent :
           \/ \E p \in done : p.submission = f.submission /\ p.line = i
           \/ \E k \in DOMAIN cs : Tag(cs[k]) = "awaited" /\ cs[k].about.line = i
    /\ f.succeeded => \A i \in 1..f.sent :
           \E p \in done : p.submission = f.submission /\ p.line = i

FormOK(cs, f, done, p) ==
    /\ f \in FormType /\ PostsOK(cs, f, done)
    /\ f.loadingEntries => Has(cs, {"entries"})
    /\ p = "movements" => One(cs, {"awaited"})

-----------------------------------------------------------------------------
(* The counts and the edited rows *)

DetailType ==
    [selected: Counts \cup {None}, loading: BOOLEAN, saving: BOOLEAN, showCreate: BOOLEAN]

CountOK(cs, d) ==
    /\ d \in DetailType
    /\ d.loading => Has(cs, {"detail"})
    /\ d.saving => Has(cs, {"write"})

DialogType ==
    [form: Items \cup {None, New}, confirm: Items \cup {None}, saving: BOOLEAN,
     deleting: BOOLEAN, pictured: SUBSET Items]

\* A flag is set while there is a call of its tags, and then just one.
FlagFits(flag, cs, T) == One(cs, T) /\ (flag <=> Has(cs, T))

Saves == {"row", "image"}

FlagsFit(saving, deleting, cs, p) ==
    IF p = "labels"
    THEN FlagFits(saving, cs, Saves) /\ FlagFits(deleting, cs, {"confirm"})
    ELSE FlagFits(saving, cs, Saves \cup {"confirm"})

EditOK(cs, d, have, p) ==
    /\ d \in DialogType
    /\ have \in [Items -> {"absent", "bare", "pictured", "removed"}]
    /\ d.pictured # {} => p = "products"
    /\ \A i \in d.pictured : have[i] \in {"pictured", "removed"}
    /\ FlagsFit(d.saving, d.deleting, cs, p)

IInv ==
    /\ CallsOK(calls, page) /\ ListOK(calls, list) /\ FormOK(calls, form, applied, page)
    /\ CountOK(calls, detail) /\ EditOK(calls, dialog, items, page)

-----------------------------------------------------------------------------
(* Sequences of calls *)

\* What a change of the calls leaves as it was: the calls of these tags.
Same(new, old, T) ==
    /\ \A i \in DOMAIN old : Tag(old[i]) \in T => \E j \in DOMAIN new : new[j] = old[i]
    /\ \A j \in DOMAIN new : Tag(new[j]) \in T => \E i \in DOMAIN old : old[i] = new[j]
    /\ \A S \in SUBSET T : One(old, S) => One(new, S)

LEMMA SameTransitive ==
    ASSUME NEW a, NEW b, NEW c, NEW T, Same(b, a, T), Same(c, b, T)
    PROVE  Same(c, a, T)
<1>1. \A S \in SUBSET T : One(a, S) => One(c, S)
  BY DEF Same
<1>2. \A i \in DOMAIN a : Tag(a[i]) \in T => \E j \in DOMAIN c : c[j] = a[i]
  <2>. SUFFICES ASSUME NEW i \in DOMAIN a, Tag(a[i]) \in T PROVE \E j \in DOMAIN c : c[j] = a[i]
    OBVIOUS
  <2>1. PICK j \in DOMAIN b : b[j] = a[i]
    BY DEF Same
  <2>2. \E l \in DOMAIN c : c[l] = b[j]
    BY <2>1 DEF Same
  <2>. QED
    BY <2>1, <2>2
<1>3. \A j \in DOMAIN c : Tag(c[j]) \in T => \E i \in DOMAIN a : a[i] = c[j]
  <2>. SUFFICES ASSUME NEW i \in DOMAIN c, Tag(c[i]) \in T PROVE \E j \in DOMAIN a : a[j] = c[i]
    OBVIOUS
  <2>1. PICK j \in DOMAIN b : b[j] = c[i]
    BY DEF Same
  <2>2. \E l \in DOMAIN a : a[l] = b[j]
    BY <2>1 DEF Same
  <2>. QED
    BY <2>1, <2>2
<1>. QED
  BY <1>1, <1>2, <1>3 DEF Same

LEMMA SameFewer ==
    ASSUME NEW a, NEW b, NEW T, NEW S \in SUBSET T, Same(b, a, T)
    PROVE  Same(b, a, S)
  BY DEF Same

LEMMA SameReflexive ==
    ASSUME NEW a, NEW T
    PROVE  Same(a, a, T)
  BY DEF Same

LEMMA SameTags ==
    ASSUME NEW a, NEW b, NEW T, NEW S \in SUBSET T, Same(b, a, T)
    PROVE  (Has(b, S) <=> Has(a, S)) /\ (One(a, S) => One(b, S))
<1>1. Has(b, S) => Has(a, S)
  BY DEF Same, Has
<1>2. Has(a, S) => Has(b, S)
  BY DEF Same, Has
<1>. QED
  BY <1>1, <1>2 DEF Same

LEMMA OwnSequence ==
    ASSUME NEW cs, NEW p, CallsOK(cs, p)
    PROVE  /\ cs \in Seq({cs[k] : k \in DOMAIN cs})
           /\ Len(cs) \in Nat /\ DOMAIN cs = 1..Len(cs)
<1>. DEFINE R == {cs[k] : k \in DOMAIN cs}
<1>1. Len(cs) \in Nat /\ cs = [k \in 1..Len(cs) |-> cs[k]]
  BY DEF CallsOK
<1>2. DOMAIN cs = 1..Len(cs)
  BY <1>1
<1>3. cs \in [1..Len(cs) -> R]
  BY <1>1, <1>2
<1>. QED
  BY <1>1, <1>2, <1>3, SeqDef

LEMMA SequenceOfCalls ==
    ASSUME NEW p, NEW T, NEW s \in Seq(T), \A k \in 1..Len(s) : CallOK(s[k], p)
    PROVE  CallsOK(s, p)
<1>1. Len(s) \in Nat /\ s \in [1..Len(s) -> T] /\ DOMAIN s = 1..Len(s)
  BY LenProperties
<1>2. s = [k \in 1..Len(s) |-> s[k]]
  BY <1>1
<1>. QED
  BY <1>1, <1>2 DEF CallsOK

\* A call is sent.
LEMMA Sending ==
    ASSUME NEW cs, NEW p, CallsOK(cs, p), NEW c, CallOK(c, p)
    PROVE  /\ CallsOK(Append(cs, c), p)
           /\ \A T : Tag(c) \notin T => Same(Append(cs, c), cs, T)
           /\ \A T : Tag(c) \in T => Has(Append(cs, c), T)
           /\ \A T : ~Has(cs, T) => One(Append(cs, c), T)
           /\ \A k \in DOMAIN cs : k \in DOMAIN Append(cs, c) /\ Append(cs, c)[k] = cs[k]
           /\ \A j \in DOMAIN Append(cs, c) :
                  Append(cs, c)[j] = c \/ (j \in DOMAIN cs /\ Append(cs, c)[j] = cs[j])
<1>. DEFINE R == {cs[k] : k \in DOMAIN cs} \cup {c}
            new == Append(cs, c)
            n == Len(cs) + 1
<1>1. cs \in Seq({cs[k] : k \in DOMAIN cs}) /\ Len(cs) \in Nat /\ DOMAIN cs = 1..Len(cs)
  BY OwnSequence
<1>2. cs \in Seq(R) /\ c \in R
  BY <1>1, SeqMonotonic
<1>3. /\ new \in Seq(R) /\ Len(new) = n
      /\ \A i \in 1..Len(cs) : new[i] = cs[i]
      /\ new[n] = c
  BY <1>1, <1>2, AppendProperties
<1>4. DOMAIN new = 1..n
  BY <1>3, LenProperties
<1>5. /\ \A i \in DOMAIN cs : i \in DOMAIN new /\ new[i] = cs[i]
      /\ n \in DOMAIN new /\ new[n] = c /\ n \notin DOMAIN cs
      /\ \A j \in DOMAIN new : j = n \/ j \in DOMAIN cs
  BY <1>1, <1>3, <1>4
<1>. HIDE DEF new, n, R
<1>6. CallsOK(new, p)
  <2>1. \A k \in 1..Len(new) : CallOK(new[k], p)
    BY <1>3, <1>4, <1>5 DEF CallsOK
  <2>. QED
    BY <1>3, <2>1, SequenceOfCalls
<1>7. ASSUME NEW T, Tag(c) \notin T
      PROVE  Same(new, cs, T)
  BY <1>5, <1>7 DEF Same, One
<1>8. ASSUME NEW T
      PROVE  (Tag(c) \in T => Has(new, T)) /\ (~Has(cs, T) => One(new, T))
  BY <1>5, <1>8 DEF Has, One
<1>9. /\ \A k \in DOMAIN cs : k \in DOMAIN new /\ new[k] = cs[k]
      /\ \A j \in DOMAIN new : new[j] = c \/ (j \in DOMAIN cs /\ new[j] = cs[j])
  BY <1>5
<1>. QED
  BY <1>6, <1>7, <1>8, <1>9 DEF new

\* What is left of a sequence is where it was, or one place up.
LEMMA Removing ==
    ASSUME NEW R, NEW cs \in Seq(R), NEW n \in Nat, n = Len(cs), NEW k \in 1..n
    PROVE  /\ RemoveAt(cs, k) \in Seq(R)
           /\ Len(RemoveAt(cs, k)) = n - 1 /\ DOMAIN RemoveAt(cs, k) = 1..(n - 1)
           /\ \A i \in 1..(n - 1) : RemoveAt(cs, k)[i] = IF i < k THEN cs[i] ELSE cs[i + 1]
<1>. DEFINE s1 == SubSeq(cs, 1, k - 1)
            s2 == SubSeq(cs, k + 1, n)
            new == RemoveAt(cs, k)
<1>1. cs \in [1..n -> R]
  BY LenProperties
<1>3. /\ s1 \in Seq(R) /\ Len(s1) = k - 1 /\ \A i \in 1..(k - 1) : s1[i] = cs[i]
  <2>1. \A i \in 1..(k - 1) : cs[i] \in R
    BY <1>1
  <2>2. /\ s1 \in Seq(R) /\ Len(s1) = (IF 1 <= k - 1 THEN k - 1 - 1 + 1 ELSE 0)
        /\ \A i \in 1..(k - 1 - 1 + 1) : s1[i] = cs[1 + i - 1]
    BY <1>1, <2>1, SubSeqProperties
  <2>. QED
    BY <1>1, <2>2
<1>4. /\ s2 \in Seq(R) /\ Len(s2) = n - k /\ \A i \in 1..(n - k) : s2[i] = cs[k + i]
  <2>1. \A i \in (k + 1)..n : cs[i] \in R
    BY <1>1
  <2>2. /\ s2 \in Seq(R) /\ Len(s2) = (IF k + 1 <= n THEN n - (k + 1) + 1 ELSE 0)
        /\ \A i \in 1..(n - (k + 1) + 1) : s2[i] = cs[(k + 1) + i - 1]
    BY <1>1, <2>1, SubSeqProperties
  <2>4. (IF k + 1 <= n THEN n - (k + 1) + 1 ELSE 0) = n - k
    OBVIOUS
  <2>5. ASSUME NEW i \in 1..(n - k)
        PROVE  s2[i] = cs[k + i]
    <3>1. i \in 1..(n - (k + 1) + 1) /\ (k + 1) + i - 1 = k + i
      OBVIOUS
    <3>2. s2[i] = cs[(k + 1) + i - 1]
      BY <2>2, <3>1
    <3>. QED
      BY <3>1, <3>2
  <2>. QED
    BY <2>2, <2>4, <2>5
<1>5. /\ new \in Seq(R) /\ Len(new) = n - 1 /\ DOMAIN new = 1..(n - 1)
      /\ \A i \in 1..(n - 1) : new[i] = IF i < k THEN cs[i] ELSE cs[i + 1]
  <2>1. new = s1 \o s2
    BY DEF RemoveAt
  <2>2. /\ new \in Seq(R) /\ Len(new) = (k - 1) + (n - k)
        /\ \A i \in 1..((k - 1) + (n - k)) :
               new[i] = IF i <= k - 1 THEN s1[i] ELSE s2[i - (k - 1)]
    <3>1. /\ s1 \o s2 \in Seq(R) /\ Len(s1 \o s2) = Len(s1) + Len(s2)
          /\ \A i \in 1..(Len(s1) + Len(s2)) :
                 (s1 \o s2)[i] = IF i <= Len(s1) THEN s1[i] ELSE s2[i - Len(s1)]
      BY <1>3, <1>4, ConcatProperties
    <3>2. Len(s1) = k - 1 /\ Len(s2) = n - k
      BY <1>3, <1>4
    <3>. QED
      BY <2>1, <3>1, <3>2
  <2>3. Len(new) = n - 1 /\ DOMAIN new = 1..(n - 1)
    BY <1>1, <2>2, LenProperties
  <2>4. ASSUME NEW i \in 1..(n - 1)
        PROVE  new[i] = IF i < k THEN cs[i] ELSE cs[i + 1]
    <3>1. CASE i < k
      BY <1>1, <1>3, <2>2, <3>1
    <3>2. CASE ~(i < k)
      <4>1. new[i] = s2[i - (k - 1)] /\ i - (k - 1) \in 1..(n - k) /\ k + (i - (k - 1)) = i + 1
        BY <1>1, <2>2, <3>2
      <4>. QED
        BY <1>4, <3>2, <4>1
    <3>. QED
      BY <3>1, <3>2
  <2>. QED
    BY <2>2, <2>3, <2>4
<1>. QED
  BY <1>5

\* A call is answered: the others move up.
LEMMA Answering ==
    ASSUME NEW cs, NEW p, CallsOK(cs, p), NEW k \in DOMAIN cs
    PROVE  /\ CallsOK(RemoveAt(cs, k), p)
           /\ \A T : Tag(cs[k]) \notin T => Same(RemoveAt(cs, k), cs, T)
           /\ \A T : One(cs, T) /\ Tag(cs[k]) \in T => ~Has(RemoveAt(cs, k), T)
           /\ \A i \in DOMAIN cs \ {k} : \E j \in DOMAIN RemoveAt(cs, k) : RemoveAt(cs, k)[j] = cs[i]
           /\ \A j \in DOMAIN RemoveAt(cs, k) :
                  \E i \in DOMAIN cs \ {k} : cs[i] = RemoveAt(cs, k)[j]
<1>. DEFINE R == {cs[i] : i \in DOMAIN cs}
            new == RemoveAt(cs, k)
<1>1. cs \in Seq(R)
  BY OwnSequence
<1>2. PICK n \in Nat : n = Len(cs) /\ DOMAIN cs = 1..n
  BY OwnSequence
<1>3. k \in 1..n
  BY <1>2
<1>5. /\ new \in Seq(R) /\ Len(new) = n - 1 /\ DOMAIN new = 1..(n - 1)
      /\ \A i \in 1..(n - 1) : new[i] = IF i < k THEN cs[i] ELSE cs[i + 1]
  <2>1. n = Len(cs) /\ n \in Nat
    BY <1>2
  <2>. HIDE DEF R
  <2>2. new \in Seq(R)
    BY <1>1, <1>3, <2>1, Removing
  <2>3. DOMAIN new = 1..(n - 1)
    BY <1>1, <1>3, <2>1, Removing
  <2>4. Len(new) = n - 1
    BY <1>1, <1>3, <2>1, Removing
  <2>5. \A i \in 1..(n - 1) : new[i] = IF i < k THEN cs[i] ELSE cs[i + 1]
    BY <1>1, <1>3, <2>1, Removing
  <2>. QED
    BY <2>2, <2>3, <2>4, <2>5
<1>. DEFINE old(j) == IF j < k THEN j ELSE j + 1
<1>6. /\ \A j \in DOMAIN new : old(j) \in DOMAIN cs \ {k} /\ new[j] = cs[old(j)]
      /\ \A j, l \in DOMAIN new : old(j) = old(l) => j = l
  BY <1>2, <1>3, <1>5
<1>7. \A i \in DOMAIN cs \ {k} : \E j \in DOMAIN new : old(j) = i
  <2>. SUFFICES ASSUME NEW i \in DOMAIN cs \ {k} PROVE \E j \in DOMAIN new : old(j) = i
    OBVIOUS
  <2>1. CASE i < k
    <3>1. i \in DOMAIN new /\ old(i) = i
      BY <1>2, <1>3, <1>5, <2>1
    <3>. QED
      BY <3>1
  <2>2. CASE ~(i < k)
    <3>1. i - 1 \in DOMAIN new /\ old(i - 1) = i
      BY <1>2, <1>3, <1>5, <2>2
    <3>. QED
      BY <3>1
  <2>. QED
    BY <2>1, <2>2
<1>. HIDE DEF old, new
<1>8. CallsOK(new, p)
  <2>1. \A j \in 1..Len(new) : CallOK(new[j], p)
    BY <1>5, <1>6 DEF CallsOK
  <2>. QED
    BY <1>5, <2>1, SequenceOfCalls
<1>9. /\ \A i \in DOMAIN cs \ {k} : \E j \in DOMAIN new : new[j] = cs[i]
      /\ \A j \in DOMAIN new : \E i \in DOMAIN cs \ {k} : cs[i] = new[j]
  BY <1>6, <1>7
<1>10. \A T : One(cs, T) => One(new, T)
  BY <1>6 DEF One
<1>11. ASSUME NEW T, Tag(cs[k]) \notin T
       PROVE  Same(new, cs, T)
  <2>1. \A i \in DOMAIN cs : Tag(cs[i]) \in T => i \in DOMAIN cs \ {k}
    BY <1>11
  <2>. QED
    BY <1>9, <1>10, <2>1 DEF Same
<1>12. ASSUME NEW T, One(cs, T), Tag(cs[k]) \in T
       PROVE  ~Has(new, T)
  BY <1>6, <1>12 DEF One, Has
<1>. QED
  BY <1>8, <1>9, <1>11, <1>12 DEF new

-----------------------------------------------------------------------------
(* What the handlers do with the calls *)

LEMMA TagsAreKinds ==
    ASSUME NEW c
    PROVE  /\ c.kind \notin {"write", "post"} => Tag(c) = c.kind
           /\ c.kind = "write" => Tag(c) \in {"write", "update"}
           /\ c.kind = "post" => Tag(c) \in {"post", "awaited"}
  BY DEF Tag

\* Calls that no flag waits for
Told == {"list", "entries", "awaited", "detail", "write", "row", "image", "confirm"}

LEMMA UntoldCall ==
    ASSUME NEW kind, NEW about, NEW p,
           kind \in {"zones", "aisles", "locs", "lookup", "scannedAisles", "scannedLocs"}
    PROVE  CallOK(Call(kind, about), p) /\ Tag(Call(kind, about)) \notin Told
  BY DEF CallOK, Call, Tag, Told, Kinds

LEMMA OutdatedCall ==
    ASSUME NEW Q, NEW c \in [kind: {"list"}, about: [query: Q, latest: BOOLEAN]]
    PROVE  /\ [c EXCEPT !.about.latest = FALSE] \in [kind: {"list"}, about: [query: Q, latest: BOOLEAN]]
           /\ ~[c EXCEPT !.about.latest = FALSE].about.latest
  OBVIOUS

LEMMA UnsubscribedCall ==
    ASSUME NEW W, NEW F, NEW T,
           NEW c \in [kind: {"post"}, about: [submission: Nat, line: Nat, wh: W, from: F, to: T,
                                             awaited: BOOLEAN]]
    PROVE  /\ [c EXCEPT !.about.awaited = FALSE]
                  \in [kind: {"post"}, about: [submission: Nat, line: Nat, wh: W, from: F, to: T,
                                              awaited: BOOLEAN]]
           /\ ~[c EXCEPT !.about.awaited = FALSE].about.awaited
  OBVIOUS

\* One call becomes another that is waited for with the same tag, or with none.
LEMMA Outdating ==
    ASSUME NEW cs, NEW p, CallsOK(cs, p)
    PROVE  /\ CallsOK(Outdated(cs), p)
           /\ \A T : "list" \notin T => Same(Outdated(cs), cs, T)
           /\ \A k \in DOMAIN Outdated(cs) :
                  Outdated(cs)[k].kind = "list" => ~Outdated(cs)[k].about.latest
<1>. DEFINE new == Outdated(cs)
            R == {new[k] : k \in DOMAIN cs}
<1>1. PICK n \in Nat : n = Len(cs) /\ DOMAIN cs = 1..n
  BY OwnSequence
<1>2. new = [k \in DOMAIN cs |->
                IF cs[k].kind = "list" THEN [cs[k] EXCEPT !.about.latest = FALSE] ELSE cs[k]]
  BY DEF Outdated
<1>3. DOMAIN new = DOMAIN cs
  BY <1>2
<1>4. ASSUME NEW k \in DOMAIN cs
      PROVE  /\ CallOK(new[k], p) /\ new[k].kind = cs[k].kind /\ Tag(new[k]) = Tag(cs[k])
             /\ cs[k].kind # "list" => new[k] = cs[k]
             /\ cs[k].kind = "list" => ~new[k].about.latest
  <2>1. CallOK(cs[k], p)
    BY DEF CallsOK
  <2>2. CASE cs[k].kind = "list"
    <3>1. cs[k] \in [kind: {"list"}, about: [query: QueryType, latest: BOOLEAN]]
      BY <2>1, <2>2 DEF CallOK
    <3>2. new[k] = [cs[k] EXCEPT !.about.latest = FALSE]
      BY <1>2, <2>2
    <3>3. /\ new[k] \in [kind: {"list"}, about: [query: QueryType, latest: BOOLEAN]]
          /\ ~new[k].about.latest
      BY <3>1, <3>2, OutdatedCall
    <3>4. CallOK(new[k], p)
      BY <3>3 DEF CallOK, Kinds
    <3>5. new[k].kind = "list" /\ Tag(new[k]) = "list" /\ Tag(cs[k]) = "list"
      BY <2>2, <3>3, TagsAreKinds
    <3>. QED
      BY <2>2, <3>3, <3>4, <3>5
  <2>3. CASE cs[k].kind # "list"
    BY <1>2, <2>1, <2>3
  <2>. QED
    BY <2>2, <2>3
<1>. HIDE DEF new, R
<1>5. CallsOK(new, p)
  <2>1. new \in Seq(R) /\ Len(new) = n
    <3>1. new \in [1..n -> R] /\ DOMAIN new = 1..n
      BY <1>1, <1>2, <1>3 DEF R
    <3>2. new \in Seq(R)
      BY <3>1, SeqDef
    <3>. QED
      BY <3>1, <3>2, LenProperties
  <2>. QED
    BY <1>1, <1>4, <2>1, SequenceOfCalls
<1>6. ASSUME NEW T, "list" \notin T
      PROVE  Same(new, cs, T)
  <2>1. \A k \in DOMAIN cs : Tag(cs[k]) \in T => new[k] = cs[k]
    BY <1>4, <1>6, TagsAreKinds
  <2>2. \A S \in SUBSET T : One(cs, S) => One(new, S)
    BY <1>3, <1>4 DEF One
  <2>. QED
    BY <1>3, <1>4, <2>1, <2>2 DEF Same
<1>. QED
  BY <1>3, <1>4, <1>5, <1>6 DEF new

\* A list is asked for; no other request for one is the latest any more.
LEMMA Asking ==
    ASSUME NEW cs, NEW p, CallsOK(cs, p), NEW l \in ListType
    PROVE  /\ CallsOK(Ask(l, cs), p)
           /\ \A T : "list" \notin T => Same(Ask(l, cs), cs, T)
           /\ ListOK(Ask(l, cs), Loading(l))
<1>. DEFINE old == Outdated(cs)
            c == Call("list", [query |-> Query(l), latest |-> TRUE])
            new == Ask(l, cs)
<1>1. /\ CallsOK(old, p)
      /\ \A T : "list" \notin T => Same(old, cs, T)
      /\ \A k \in DOMAIN old : old[k].kind = "list" => ~old[k].about.latest
  BY Outdating
<1>2. /\ c.kind = "list" /\ Tag(c) = "list" /\ CallOK(c, p)
      /\ c.about.query = Query(l)
  BY DEF Call, Tag, CallOK, Kinds, Query, QueryType, ListType
<1>. HIDE DEF old, c
<1>3. new = Append(old, c)
  BY DEF Ask, old, c
<1>4. /\ CallsOK(new, p)
      /\ \A T : Tag(c) \notin T => Same(new, old, T)
      /\ \A T : Tag(c) \in T => Has(new, T)
      /\ \A j \in DOMAIN new : new[j] = c \/ (j \in DOMAIN old /\ new[j] = old[j])
  BY <1>1, <1>2, <1>3, Sending
<1>. HIDE DEF new
<1>5. \A T : "list" \notin T => Same(new, cs, T)
  BY <1>1, <1>2, <1>4, SameTransitive
<1>6. ListOK(new, Loading(l))
  <2>. DEFINE m == Loading(l)
  <2>1. m \in ListType /\ ~m.latest /\ Query(l) = Query(m)
    BY DEF ListType, Loading, Query
  <2>2. Current(Query(m), m)
    BY <2>1 DEF Query, Current, ListType
  <2>. HIDE DEF m
  <2>3. ASSUME NEW k \in DOMAIN new, new[k].kind = "list", new[k].about.latest
        PROVE  Current(new[k].about.query, m)
    <3>1. new[k] = c
      BY <1>1, <1>4, <2>3
    <3>. QED
      BY <1>2, <2>1, <2>2, <3>1
  <2>4. Has(new, {"list"})
    BY <1>2, <1>4
  <2>. QED
    BY <2>1, <2>3, <2>4 DEF ListOK, LatestIsCurrent, m
<1>. QED
  BY <1>4, <1>5, <1>6 DEF new

\* Nobody awaits the movements any more.
LEMMA Unsubscribing ==
    ASSUME NEW cs, NEW p, CallsOK(cs, p)
    PROVE  /\ CallsOK(Unsubscribed(cs), p)
           /\ Same(Unsubscribed(cs), cs, Told \ {"awaited"})
           /\ ~Has(Unsubscribed(cs), {"awaited"})
<1>. DEFINE new == Unsubscribed(cs)
            R == {new[k] : k \in DOMAIN cs}
<1>1. PICK n \in Nat : n = Len(cs) /\ DOMAIN cs = 1..n
  BY OwnSequence
<1>2. new = [k \in DOMAIN cs |->
                IF cs[k].kind = "post" THEN [cs[k] EXCEPT !.about.awaited = FALSE] ELSE cs[k]]
  BY DEF Unsubscribed
<1>3. DOMAIN new = DOMAIN cs
  BY <1>2
<1>4. ASSUME NEW k \in DOMAIN cs
      PROVE  /\ CallOK(new[k], p) /\ new[k].kind = cs[k].kind /\ Tag(new[k]) # "awaited"
             /\ cs[k].kind # "post" => new[k] = cs[k]
  <2>1. CallOK(cs[k], p)
    BY DEF CallsOK
  <2>2. CASE cs[k].kind = "post"
    <3>. DEFINE W == {cs[k].about.wh}
                F == {cs[k].about.from}
                U == {cs[k].about.to}
    <3>1. cs[k] \in [kind: {"post"}, about: [submission: Nat, line: Nat, wh: W, from: F, to: U,
                                            awaited: BOOLEAN]]
      BY <2>1, <2>2 DEF CallOK
    <3>2. new[k] = [cs[k] EXCEPT !.about.awaited = FALSE]
      BY <1>2, <2>2
    <3>. HIDE DEF W, F, U
    <3>3. /\ new[k] \in [kind: {"post"}, about: [submission: Nat, line: Nat, wh: W, from: F, to: U,
                                                 awaited: BOOLEAN]]
          /\ ~new[k].about.awaited
      BY <3>1, <3>2, UnsubscribedCall
    <3>4. CallOK(new[k], p)
      BY <3>3 DEF CallOK, Kinds
    <3>5. new[k].kind = "post" /\ Tag(new[k]) = "post"
      BY <3>3 DEF Tag
    <3>. QED
      BY <2>2, <3>4, <3>5
  <2>3. CASE cs[k].kind # "post"
    <3>1. new[k] = cs[k] /\ cs[k].kind \in Kinds
      BY <1>2, <2>1, <2>3 DEF CallOK
    <3>2. Tag(cs[k]) # "awaited"
      BY <2>3, <3>1, TagsAreKinds DEF Kinds
    <3>. QED
      BY <2>1, <2>3, <3>1, <3>2
  <2>. QED
    BY <2>2, <2>3
<1>. HIDE DEF new, R
<1>5. CallsOK(new, p)
  <2>1. new \in Seq(R) /\ Len(new) = n
    <3>1. new \in [1..n -> R] /\ DOMAIN new = 1..n
      BY <1>1, <1>2, <1>3 DEF R
    <3>2. new \in Seq(R)
      BY <3>1, SeqDef
    <3>. QED
      BY <3>1, <3>2, LenProperties
  <2>. QED
    BY <1>1, <1>4, <2>1, SequenceOfCalls
<1>6. Same(new, cs, Told \ {"awaited"})
  <2>. DEFINE T == Told \ {"awaited"}
  <2>1. \A k \in DOMAIN cs : Tag(cs[k]) \in T \/ Tag(new[k]) \in T => new[k] = cs[k]
    BY <1>4, TagsAreKinds DEF Told
  <2>2. \A S \in SUBSET T : One(cs, S) => One(new, S)
    BY <1>3, <2>1 DEF One
  <2>. QED
    BY <1>3, <2>1, <2>2 DEF Same
<1>7. ~Has(new, {"awaited"})
  BY <1>3, <1>4 DEF Has
<1>. QED
  BY <1>5, <1>6, <1>7 DEF new

LEMMA Enumerating ==
    ASSUME NEW n \in Nat, NEW K \in SUBSET (1..n)
    PROVE  \E m \in Nat : SetToSeq(K) \in Bijection(1..m, K)
<1>1. IsFiniteSet(1..n)
  BY FS_Interval
<1>2. IsFiniteSet(K)
  BY <1>1, FS_Subset
<1>3. PICK m \in Nat : ExistsBijection(1..m, K)
  BY <1>2, FS_NatBijection
<1>4. Cardinality(K) = m
  BY <1>3, FS_CountingElements
<1>5. PICK g : g \in Injection(1..m, K)
  BY <1>3 DEF ExistsBijection, Bijection
<1>6. g \in [1..m -> K] /\ IsInjective(g)
  BY <1>5 DEF Injection
<1>7. SetToSeq(K) \in [1..m -> K] /\ IsInjective(SetToSeq(K))
  BY <1>4, <1>6 DEF SetToSeq
<1>8. SetToSeq(K) \in Injection(1..m, K)
  BY <1>7 DEF Injection
<1>9. Cardinality(1..m) = m
  BY FS_Interval
<1>10. SetToSeq(K) \in Surjection(1..m, K)
  BY <1>2, <1>4, <1>8, <1>9, FS_Injection
<1>. QED
  BY <1>8, <1>10 DEF Bijection

\* The dialog is closed, and what it was waiting for is dropped.
LEMMA Dropping ==
    ASSUME NEW cs, NEW p, CallsOK(cs, p)
    PROVE  CallsOK(WithoutForm(cs), p) /\ Same(WithoutForm(cs), cs, Told \ {"entries"})
<1>. DEFINE K == {k \in DOMAIN cs : cs[k].kind \notin FormKinds}
            kept == SetToSeq(K)
            new == WithoutForm(cs)
            R == {cs[k] : k \in DOMAIN cs}
<1>1. PICK n \in Nat : n = Len(cs) /\ DOMAIN cs = 1..n
  BY OwnSequence
<1>2. PICK m \in Nat : kept \in Bijection(1..m, K)
  BY <1>1, Enumerating
<1>3. /\ kept \in [1..m -> K]
      /\ \A a, b \in 1..m : kept[a] = kept[b] => a = b
      /\ \A k \in K : \E j \in 1..m : kept[j] = k
  <2>1. kept \in Injection(1..m, K) /\ kept \in Surjection(1..m, K)
    BY <1>2 DEF Bijection
  <2>. QED
    BY <2>1 DEF Injection, Surjection, IsInjective
<1>4. new = [j \in DOMAIN kept |-> cs[kept[j]]]
  BY DEF WithoutForm
<1>5. \A k \in K : k \in DOMAIN cs /\ cs[k].kind \notin FormKinds
  OBVIOUS
<1>6. \A k \in DOMAIN cs : k \notin K => cs[k].kind \in FormKinds
  OBVIOUS
<1>. HIDE DEF K, kept, new, R
<1>7. /\ new \in [1..m -> R] /\ DOMAIN new = 1..m
      /\ \A j \in 1..m : kept[j] \in K /\ new[j] = cs[kept[j]]
  BY <1>3, <1>4, <1>5 DEF R
<1>8. new \in Seq(R) /\ Len(new) = m
  <2>1. new \in Seq(R)
    BY <1>7, SeqDef
  <2>. QED
    BY <1>7, <2>1, LenProperties
<1>9. CallsOK(new, p)
  <2>1. \A j \in 1..m : CallOK(new[j], p)
    BY <1>5, <1>7 DEF CallsOK
  <2>. QED
    BY <1>8, <2>1, SequenceOfCalls
<1>10. Same(new, cs, Told \ {"entries"})
  <2>. DEFINE T == Told \ {"entries"}
  <2>1. \A k \in DOMAIN cs : Tag(cs[k]) \in T => \E j \in DOMAIN new : new[j] = cs[k]
    <3>1. \A k \in DOMAIN cs : Tag(cs[k]) \in T => k \in K
      BY <1>6, TagsAreKinds DEF Told, FormKinds
    <3>. QED
      BY <1>3, <1>7, <3>1
  <2>2. \A j \in DOMAIN new : \E k \in DOMAIN cs : cs[k] = new[j]
    BY <1>5, <1>7
  <2>3. ASSUME NEW S, One(cs, S)
        PROVE  One(new, S)
    BY <1>3, <1>5, <1>7, <2>3 DEF One
  <2>. QED
    BY <2>1, <2>2, <2>3 DEF Same
<1>. QED
  BY <1>9, <1>10 DEF new

Joined(new, cs, s, n) ==
    /\ \A i \in 1..n : \E j \in DOMAIN new : new[j] = s[i]
    /\ \A j \in DOMAIN new :
           (\E k \in DOMAIN cs : new[j] = cs[k]) \/ \E i \in 1..n : new[j] = s[i]

\* The movements of a form are sent.
LEMMA Posting ==
    ASSUME NEW cs, NEW p, CallsOK(cs, p), NEW n \in Nat, NEW s, s = [i \in 1..n |-> s[i]],
           \A i \in 1..n : CallOK(s[i], p) /\ Tag(s[i]) = "awaited"
    PROVE  /\ CallsOK(cs \o s, p)
           /\ Same(cs \o s, cs, Told \ {"awaited"})
           /\ n # 0 => Has(cs \o s, {"awaited"})
           /\ n = 1 /\ ~Has(cs, {"awaited"}) => One(cs \o s, {"awaited"})
           /\ Joined(cs \o s, cs, s, n)
<1>. DEFINE new == cs \o s
            R == {cs[k] : k \in DOMAIN cs} \cup {s[i] : i \in 1..n}
<1>1. PICK m \in Nat : m = Len(cs) /\ DOMAIN cs = 1..m
  BY OwnSequence
<1>2. cs \in Seq(R)
  <2>1. cs \in Seq({cs[k] : k \in DOMAIN cs})
    BY OwnSequence
  <2>2. {cs[k] : k \in DOMAIN cs} \subseteq R
    OBVIOUS
  <2>. QED
    BY <2>1, <2>2, SeqMonotonic
<1>3. s \in Seq(R) /\ Len(s) = n
  <2>1. \A i \in 1..n : s[i] \in R
    OBVIOUS
  <2>. HIDE DEF R
  <2>2. s \in [1..n -> R] /\ DOMAIN s = 1..n
    BY <2>1
  <2>3. s \in Seq(R)
    BY <2>2, SeqDef
  <2>. QED
    BY <2>2, <2>3, LenProperties
<1>. HIDE DEF R
<1>5. /\ new \in Seq(R) /\ Len(new) = m + n
      /\ \A i \in 1..(m + n) : new[i] = IF i <= m THEN cs[i] ELSE s[i - m]
  <2>1. /\ new \in Seq(R) /\ Len(new) = Len(cs) + Len(s)
        /\ \A i \in 1..(Len(cs) + Len(s)) :
               new[i] = IF i <= Len(cs) THEN cs[i] ELSE s[i - Len(cs)]
    BY <1>2, <1>3, ConcatProperties
  <2>. QED
    BY <1>1, <1>3, <2>1
<1>. HIDE DEF new
<1>6. DOMAIN new = 1..(m + n)
  BY <1>5, LenProperties
<1>7. \A i \in DOMAIN cs : i \in DOMAIN new /\ new[i] = cs[i]
  <2>1. \A i \in 1..m : i \in 1..(m + n) /\ i <= m
    OBVIOUS
  <2>2. \A i \in 1..m : i \in DOMAIN new /\ new[i] = cs[i]
    BY <1>5, <1>6, <2>1
  <2>. QED
    BY <1>1, <2>2
<1>8. ASSUME NEW i \in 1..n
      PROVE  m + i \in DOMAIN new /\ m + i \notin DOMAIN cs /\ new[m + i] = s[i]
  <2>1. m + i \in 1..(m + n) /\ ~(m + i <= m) /\ (m + i) - m = i
    BY <1>1
  <2>2. new[m + i] = s[(m + i) - m]
    BY <1>5, <2>1
  <2>. QED
    BY <1>1, <1>6, <2>1, <2>2
<1>9. ASSUME NEW j \in DOMAIN new, j \notin DOMAIN cs
      PROVE  j - m \in 1..n /\ j = m + (j - m) /\ new[j] = s[j - m]
  <2>1. j \in 1..(m + n) /\ j \notin 1..m
    BY <1>1, <1>6, <1>9
  <2>2. \A i \in 1..(m + n) : i \notin 1..m => ~(i <= m) /\ i - m \in 1..n /\ i = m + (i - m)
    OBVIOUS
  <2>3. ~(j <= m) /\ j - m \in 1..n /\ j = m + (j - m)
    BY <2>1, <2>2
  <2>. QED
    BY <1>5, <2>1, <2>3
<1>10. CallsOK(new, p)
  <2>1. \A j \in DOMAIN new : CallOK(new[j], p)
    BY <1>7, <1>9 DEF CallsOK
  <2>. QED
    BY <1>5, <1>6, <2>1, SequenceOfCalls
<1>11. Same(new, cs, Told \ {"awaited"})
  <2>1. \A j \in DOMAIN new : Tag(new[j]) \in Told \ {"awaited"} => j \in DOMAIN cs
    BY <1>9
  <2>. QED
    BY <1>7, <2>1 DEF Same, One
<1>12. n # 0 => Has(new, {"awaited"})
  <2>1. n # 0 => 1 \in 1..n
    OBVIOUS
  <2>. QED
    BY <1>8, <2>1 DEF Has
<1>13. n = 1 /\ ~Has(cs, {"awaited"}) => One(new, {"awaited"})
  <2>. SUFFICES ASSUME n = 1, ~Has(cs, {"awaited"}) PROVE One(new, {"awaited"})
    OBVIOUS
  <2>1. ASSUME NEW j \in DOMAIN new, Tag(new[j]) = "awaited"
        PROVE  j = m + 1
    <3>1. j \notin DOMAIN cs
      BY <1>7, <2>1 DEF Has
    <3>2. j - m \in 1..1 /\ j = m + (j - m)
      BY <1>9, <3>1
    <3>. QED
      BY <3>2
  <2>. QED
    BY <2>1 DEF One
<1>14. Joined(new, cs, s, n)
  BY <1>7, <1>8, <1>9 DEF Joined
<1>. QED
  BY <1>10, <1>11, <1>12, <1>13, <1>14 DEF new

LEMMA TurnedCall ==
    ASSUME NEW A, NEW c \in [kind: {"row"}, about: A]
    PROVE  /\ [c EXCEPT !.kind = "image"] \in [kind: {"image"}, about: A]
           /\ [c EXCEPT !.kind = "image"].about = c.about
  OBVIOUS

\* A row was written, and is followed by its image.
LEMMA Turning ==
    ASSUME NEW cs, NEW p, CallsOK(cs, p), NEW k \in DOMAIN cs, cs[k].kind = "row"
    PROVE  LET new == [cs EXCEPT ![k].kind = "image"]
           IN  /\ CallsOK(new, p)
               /\ Same(new, cs, Told \ {"row", "image"})
               /\ \A T : "row" \in T /\ "image" \in T => (Has(new, T) <=> Has(cs, T))
               /\ \A T : "row" \in T /\ "image" \in T => (One(cs, T) => One(new, T))
<1>. DEFINE new == [cs EXCEPT ![k].kind = "image"]
            R == {new[j] : j \in DOMAIN cs}
<1>1. PICK n \in Nat : n = Len(cs) /\ DOMAIN cs = 1..n
  BY OwnSequence
<1>2. DOMAIN new = DOMAIN cs
  OBVIOUS
<1>3. \A j \in DOMAIN cs : j # k => new[j] = cs[j]
  OBVIOUS
<1>4. new[k] = [cs[k] EXCEPT !.kind = "image"]
  OBVIOUS
<1>. HIDE DEF new
<1>5. /\ CallOK(new[k], p) /\ Tag(new[k]) = "image" /\ Tag(cs[k]) = "row"
  <2>1. CallOK(cs[k], p)
    BY DEF CallsOK
  <2>. DEFINE A == {cs[k].about}
  <2>2. cs[k] \in [kind: {"row"}, about: A]
    BY <2>1 DEF CallOK
  <2>. HIDE DEF A
  <2>3. new[k] \in [kind: {"image"}, about: A] /\ new[k].about = cs[k].about
    BY <1>4, <2>2, TurnedCall
  <2>4. CallOK(new[k], p)
    BY <2>1, <2>3 DEF CallOK, Kinds
  <2>. QED
    BY <2>3, <2>4, TagsAreKinds
<1>6. CallsOK(new, p)
  <2>1. new \in Seq(R) /\ Len(new) = n
    <3>1. new \in [1..n -> R] /\ DOMAIN new = 1..n
      <4>1. \A j \in DOMAIN new : new[j] \in R
        BY <1>2
      <4>2. new = [j \in DOMAIN new |-> new[j]]
        BY DEF new
      <4>. HIDE DEF R
      <4>. QED
        BY <1>1, <1>2, <4>1, <4>2
    <3>. HIDE DEF R
    <3>2. new \in Seq(R)
      BY <3>1, SeqDef
    <3>. QED
      BY <3>1, <3>2, LenProperties
  <2>2. \A j \in DOMAIN cs : CallOK(new[j], p)
    BY <1>3, <1>5 DEF CallsOK
  <2>. HIDE DEF R
  <2>. QED
    BY <1>1, <2>1, <2>2, SequenceOfCalls
<1>7. Same(new, cs, Told \ {"row", "image"})
  BY <1>2, <1>3, <1>5 DEF Same, One
<1>8. ASSUME NEW T, "row" \in T, "image" \in T
      PROVE  (Has(new, T) <=> Has(cs, T)) /\ (One(cs, T) => One(new, T))
  <2>1. \A j \in DOMAIN cs : Tag(new[j]) \in T <=> Tag(cs[j]) \in T
    BY <1>3, <1>5, <1>8
  <2>. QED
    BY <1>2, <2>1 DEF Has, One
<1>. QED
  BY <1>6, <1>7, <1>8 DEF new

-----------------------------------------------------------------------------
(* What a page keeps while none of its calls come or go *)

ListTags == {"list"}
FormTags == {"entries", "awaited"}
CountTags == {"detail", "write"}
EditTags == Saves \cup {"confirm"}

\* No movement is awaited that was not before.
NoneSent(new, old) ==
    \A j \in DOMAIN new : Tag(new[j]) = "awaited" => \E i \in DOMAIN old : old[i] = new[j]

LEMMA SameSendsNone ==
    ASSUME NEW a, NEW b, NEW T, Same(b, a, T), "awaited" \in T
    PROVE  NoneSent(b, a)
  BY DEF Same, NoneSent

LEMMA ListKept ==
    ASSUME NEW a, NEW b, Same(b, a, ListTags), NEW l, ListOK(a, l)
    PROVE  ListOK(b, l)
<1>1. Has(b, {"list"}) <=> Has(a, {"list"})
  BY SameTags DEF ListTags
<1>2. ASSUME NEW k \in DOMAIN b, b[k].kind = "list", b[k].about.latest
      PROVE  Current(b[k].about.query, l)
  <2>1. Tag(b[k]) = "list"
    BY <1>2, TagsAreKinds
  <2>2. PICK i \in DOMAIN a : a[i] = b[k]
    BY <2>1 DEF Same, ListTags
  <2>. QED
    BY <1>2, <2>2 DEF ListOK, LatestIsCurrent
<1>. QED
  BY <1>1, <1>2 DEF ListOK, LatestIsCurrent

\* A form that was sent when another was, whose movements are the same.
LEMMA FormLike ==
    ASSUME NEW a, NEW b, Same(b, a, {"awaited"}), NEW done, NEW more, done \subseteq more,
           NEW p, NEW f, FormOK(a, f, done, p), NEW g \in FormType,
           g.saving = f.saving, g.submission = f.submission, g.sent = f.sent,
           g.succeeded => f.succeeded, g.loadingEntries => Has(b, {"entries"})
    PROVE  FormOK(b, g, more, p)
<1>1. (Has(b, {"awaited"}) <=> Has(a, {"awaited"})) /\ (One(a, {"awaited"}) => One(b, {"awaited"}))
  BY SameTags
<1>2. /\ f.saving <=> Has(a, {"awaited"})
      /\ \A k \in DOMAIN a : Tag(a[k]) = "awaited" => a[k].about.submission = f.submission
      /\ f.saving => \A i \in 1..f.sent :
             \/ \E m \in done : m.submission = f.submission /\ m.line = i
             \/ \E k \in DOMAIN a : Tag(a[k]) = "awaited" /\ a[k].about.line = i
      /\ f.succeeded => \A i \in 1..f.sent :
             \E m \in done : m.submission = f.submission /\ m.line = i
      /\ p = "movements" => One(a, {"awaited"})
  BY DEF FormOK, PostsOK
<1>3. g.saving <=> Has(b, {"awaited"})
  BY <1>1, <1>2
<1>4. ASSUME NEW k \in DOMAIN b, Tag(b[k]) = "awaited"
      PROVE  b[k].about.submission = g.submission
  <2>1. PICK j \in DOMAIN a : a[j] = b[k]
    BY <1>4 DEF Same
  <2>. QED
    BY <1>2, <1>4, <2>1
<1>5. ASSUME g.saving, NEW i \in 1..g.sent
      PROVE  \/ \E m \in more : m.submission = g.submission /\ m.line = i
             \/ \E k \in DOMAIN b : Tag(b[k]) = "awaited" /\ b[k].about.line = i
  <2>1. CASE \E m \in done : m.submission = f.submission /\ m.line = i
    BY <2>1
  <2>2. CASE \E k \in DOMAIN a : Tag(a[k]) = "awaited" /\ a[k].about.line = i
    <3>1. PICK k \in DOMAIN a : Tag(a[k]) = "awaited" /\ a[k].about.line = i
      BY <2>2
    <3>2. PICK j \in DOMAIN b : b[j] = a[k]
      BY <3>1 DEF Same
    <3>. QED
      BY <3>1, <3>2
  <2>. QED
    BY <1>2, <1>5, <2>1, <2>2
<1>6. ASSUME g.succeeded, NEW i \in 1..g.sent
      PROVE  \E m \in more : m.submission = g.submission /\ m.line = i
  BY <1>2, <1>6
<1>. QED
  BY <1>1, <1>2, <1>3, <1>4, <1>5, <1>6 DEF FormOK, PostsOK

LEMMA FormKept ==
    ASSUME NEW a, NEW b, Same(b, a, FormTags), NEW f, NEW done, NEW p, FormOK(a, f, done, p)
    PROVE  FormOK(b, f, done, p)
<1>1. Same(b, a, {"awaited"})
  BY SameFewer DEF FormTags
<1>2. Has(b, {"entries"}) <=> Has(a, {"entries"})
  BY SameTags DEF FormTags
<1>3. f \in FormType /\ (f.loadingEntries => Has(b, {"entries"}))
  BY <1>2 DEF FormOK
<1>. QED
  BY <1>1, <1>3, FormLike

LEMMA CountKept ==
    ASSUME NEW a, NEW b, Same(b, a, CountTags), NEW d, CountOK(a, d)
    PROVE  CountOK(b, d)
<1>1. Has(b, {"detail"}) <=> Has(a, {"detail"})
  BY SameTags DEF CountTags
<1>2. Has(b, {"write"}) <=> Has(a, {"write"})
  BY SameTags DEF CountTags
<1>. QED
  BY <1>1, <1>2 DEF CountOK

LEMMA FlagKept ==
    ASSUME NEW a, NEW b, NEW T, Same(b, a, T), NEW flag, FlagFits(flag, a, T)
    PROVE  FlagFits(flag, b, T)
<1>1. (Has(b, T) <=> Has(a, T)) /\ (One(a, T) => One(b, T))
  BY SameTags
<1>. QED
  BY <1>1 DEF FlagFits

LEMMA FlagsKept ==
    ASSUME NEW a, NEW b, Same(b, a, EditTags), NEW s, NEW d, NEW p, FlagsFit(s, d, a, p)
    PROVE  FlagsFit(s, d, b, p)
<1>1. Same(b, a, Saves) /\ Same(b, a, {"confirm"}) /\ Same(b, a, Saves \cup {"confirm"})
  <2>1. Saves \in SUBSET EditTags /\ {"confirm"} \in SUBSET EditTags
        /\ Saves \cup {"confirm"} = EditTags
    BY DEF EditTags
  <2>. QED
    BY <2>1, SameFewer
<1>. QED
  BY <1>1, FlagKept DEF FlagsFit

LEMMA EditKept ==
    ASSUME NEW a, NEW b, Same(b, a, EditTags), NEW d, NEW have, NEW p, EditOK(a, d, have, p)
    PROVE  EditOK(b, d, have, p)
  BY FlagsKept DEF EditOK

-----------------------------------------------------------------------------
(* The steps of the list *)

LEMMA FirstPageIsAList ==
    ASSUME NEW l \in ListType
    PROVE  FirstPage(l) \in ListType
  BY DEF ListType, FirstPage

LEMMA ListSteps ==
    ASSUME CallsOK(calls, page), ListOK(calls, list),
           \/ \E f \in Filters : OnFilter(f)
           \/ \E p \in 1..LastPage : GoToPage(p)
           \/ \E t \in Texts : OnSearch(t)
           \/ Debounced
           \/ \E k \in DOMAIN calls, ok \in BOOLEAN : HearList(k, ok)
    PROVE  /\ CallsOK(calls', page) /\ Same(calls', calls, Told \ {"list"})
           /\ ListOK(calls', list')
<1>. DEFINE Goal == /\ CallsOK(calls', page) /\ Same(calls', calls, Told \ {"list"})
                    /\ ListOK(calls', list')
<1>0. list \in ListType
  BY DEF ListOK
<1>1. ASSUME NEW l \in ListType, Load(l, calls)
      PROVE  Goal
  BY <1>1, Asking DEF Load
<1>2. ASSUME calls' = calls, list' \in ListType, LatestIsCurrent(calls, list'),
             list'.loading = list.loading
      PROVE  Goal
  BY <1>2, SameReflexive DEF ListOK
<1>3. ASSUME NEW f \in Filters, OnFilter(f)
      PROVE  Goal
  <2>1. [FirstPage(list) EXCEPT !.filter = f] \in ListType
    BY <1>0, FirstPageIsAList DEF ListType
  <2>. QED
    BY <1>1, <1>3, <2>1 DEF OnFilter
<1>4. ASSUME NEW p \in 1..LastPage, GoToPage(p)
      PROVE  Goal
  <2>1. [list EXCEPT !.page = p] \in ListType
    BY <1>0 DEF ListType
  <2>. QED
    BY <1>1, <1>4, <2>1 DEF GoToPage
<1>5. ASSUME NEW t \in Texts, OnSearch(t)
      PROVE  Goal
  <2>1. list' = [list EXCEPT !.text = t, !.due = TRUE] /\ calls' = calls
    BY <1>5 DEF OnSearch
  <2>2. list' \in ListType
    BY <1>0, <2>1 DEF ListType
  <2>3. /\ list'.filter = list.filter /\ list'.page = list.page /\ list'.due
        /\ list'.rows = list.rows /\ list'.latest = list.latest
        /\ list'.loading = list.loading /\ list'.emitted = list.emitted
    BY <1>0, <2>1 DEF ListType
  <2>4. LatestIsCurrent(calls, list')
    BY <2>3 DEF ListOK, LatestIsCurrent, Current
  <2>. QED
    BY <1>2, <2>1, <2>2, <2>3, <2>4
<1>6. ASSUME Debounced
      PROVE  Goal
  <2>. DEFINE l == [list EXCEPT !.due = FALSE, !.emitted = list.text]
  <2>1. l \in ListType /\ FirstPage(l) \in ListType
    <3>1. l \in ListType
      BY <1>0 DEF ListType
    <3>. QED
      BY <3>1, FirstPageIsAList
  <2>2. CASE list.emitted = list.text
    <3>1. list' = l /\ calls' = calls
      BY <1>6, <2>2 DEF Debounced
    <3>2. /\ l.filter = list.filter /\ l.page = list.page /\ l.emitted = l.text
          /\ l.emitted = list.emitted /\ l.text = list.text /\ l.text # None
          /\ l.rows = list.rows /\ l.latest = list.latest /\ l.loading = list.loading
      BY <1>0, <2>2, ListsHaveFilters DEF ListType
    <3>. HIDE DEF l
    <3>3. LatestIsCurrent(calls, l)
      BY <3>2 DEF ListOK, LatestIsCurrent, Current
    <3>. QED
      BY <1>2, <2>1, <3>1, <3>2, <3>3
  <2>3. CASE list.emitted # list.text
    <3>1. Load(FirstPage(l), calls)
      BY <1>6, <2>3 DEF Debounced
    <3>. HIDE DEF l
    <3>. QED
      BY <1>1, <2>1, <3>1
  <2>. QED
    BY <2>2, <2>3
<1>7. ASSUME NEW k \in DOMAIN calls, NEW ok \in BOOLEAN, HearList(k, ok)
      PROVE  Goal
  <2>1. /\ calls[k].kind = "list" /\ calls' = RemoveAt(calls, k)
        /\ list' = Shown(list, calls[k].about, ok)
    BY <1>7 DEF HearList, Answered, Rest
  <2>2. Tag(calls[k]) = "list" /\ calls[k].about \in [query: QueryType, latest: BOOLEAN]
    BY <2>1, TagsAreKinds DEF CallsOK, CallOK
  <2>3. /\ CallsOK(calls', page) /\ Same(calls', calls, Told \ {"list"})
        /\ \A j \in DOMAIN calls' : \E i \in DOMAIN calls : calls[i] = calls'[j]
    BY <2>1, <2>2, Answering
  <2>4. /\ list' \in ListType /\ ~list'.loading
        /\ list'.filter = list.filter /\ list'.page = list.page /\ list'.text = list.text
        /\ list'.due = list.due /\ list'.emitted = list.emitted
        /\ \/ list'.rows = list.rows /\ list'.latest = list.latest
           \/ list'.rows = calls[k].about.query /\ list'.latest = calls[k].about.latest
    BY <1>0, <2>1, <2>2 DEF Shown, ListType
  <2>5. \A q : Current(q, list') <=> Current(q, list)
    BY <2>4 DEF Current
  <2>6. list'.latest => Current(list'.rows, list')
    BY <2>1, <2>4, <2>5 DEF ListOK, LatestIsCurrent
  <2>7. LatestIsCurrent(calls', list')
    BY <2>3, <2>5, <2>6 DEF ListOK, LatestIsCurrent
  <2>. QED
    BY <2>3, <2>4, <2>7 DEF ListOK
<1>. QED
  BY <1>3, <1>4, <1>5, <1>6, <1>7

-----------------------------------------------------------------------------
(* The steps of the cascade, and of the forms that register movements *)

LEMMA CascadeSteps ==
    ASSUME CallsOK(calls, page),
           \/ \E w : OnWarehouse(w, calls)
           \/ \E z \in Zones \cup {None} : OnZoneChange(z)
           \/ \E a \in Aisles \cup {None} : OnAisleChange(a)
           \/ \E l \in Locations \cup {None} : OnLocationChange(l)
           \/ \E k \in DOMAIN calls, ok \in BOOLEAN : HearOptions(k, ok)
    PROVE  CallsOK(calls', page) /\ Same(calls', calls, Told)
<1>1. CASE \E k \in DOMAIN calls, ok \in BOOLEAN : HearOptions(k, ok)
  <2>1. PICK k \in DOMAIN calls, ok \in BOOLEAN : HearOptions(k, ok)
    BY <1>1
  <2>2. calls[k].kind \in {"zones", "aisles", "locs"} /\ calls' = RemoveAt(calls, k)
    BY <2>1 DEF HearOptions, Rest
  <2>3. Tag(calls[k]) \notin Told
    BY <2>2, TagsAreKinds DEF Told
  <2>. QED
    BY <2>2, <2>3, Answering
<1>2. CASE calls' = calls
  BY <1>2, SameReflexive
<1>3. CASE \E kind \in {"zones", "aisles", "locs"}, about \in {pick'} : calls' = Append(calls, Call(kind, about))
  BY <1>3, UntoldCall, Sending
<1>4. CASE \E w : OnWarehouse(w, calls)
  BY <1>2, <1>3, <1>4 DEF OnWarehouse, AskOptions
<1>5. CASE \E z \in Zones \cup {None} : OnZoneChange(z)
  BY <1>2, <1>3, <1>5 DEF OnZoneChange, AskOptions
<1>6. CASE \E a \in Aisles \cup {None} : OnAisleChange(a)
  BY <1>2, <1>3, <1>6 DEF OnAisleChange, AskOptions
<1>7. CASE \E l \in Locations \cup {None} : OnLocationChange(l)
  BY <1>2, <1>7 DEF OnLocationChange
<1>. QED
  BY <1>1, <1>4, <1>5, <1>6, <1>7

\* The list and the form when no call of theirs comes or goes.
LEMMA FormPageKept ==
    ASSUME CallsOK(calls', page), Same(calls', calls, Told \ {"entries"}),
           ListOK(calls, list), FormOK(calls, form, applied, page), list' = list,
           applied \subseteq applied',
           form' \in FormType, form'.saving = form.saving, form'.submission = form.submission,
           form'.sent = form.sent, form'.succeeded => form.succeeded,
           form'.loadingEntries => Has(calls', {"entries"})
    PROVE  /\ Same(calls', calls, CountTags \cup EditTags)
           /\ ListOK(calls', list') /\ FormOK(calls', form', applied', page)
           /\ NoneSent(calls', calls)
<1>1. /\ Same(calls', calls, CountTags \cup EditTags) /\ Same(calls', calls, ListTags)
      /\ Same(calls', calls, {"awaited"})
  <2>1. CountTags \cup EditTags \in SUBSET (Told \ {"entries"})
        /\ ListTags \in SUBSET (Told \ {"entries"}) /\ {"awaited"} \in SUBSET (Told \ {"entries"})
    BY DEF Told, CountTags, EditTags, ListTags, Saves
  <2>. QED
    BY <2>1, SameFewer
<1>2. ListOK(calls', list')
  BY <1>1, ListKept
<1>3. FormOK(calls', form', applied', page)
  BY <1>1, FormLike
<1>. QED
  BY <1>1, <1>2, <1>3, SameSendsNone

LEMMA ClosedForm ==
    ASSUME NEW f \in FormType
    PROVE  /\ Closed(f) \in FormType /\ Closed(f).saving = f.saving
           /\ Closed(f).succeeded = f.succeeded /\ Closed(f).submission = f.submission
           /\ Closed(f).sent = f.sent /\ ~Closed(f).loadingEntries
<1>1. NewForm \in FormType /\ ~NewForm.loadingEntries
  <2>1. <<FALSE>> \in Seq(BOOLEAN) /\ <<FALSE>> # <<>>
    OBVIOUS
  <2>. QED
    BY <2>1 DEF NewForm, FormType
<1>. QED
  BY <1>1 DEF Closed, FormType

LEMMA FormsAreFilled ==
    ASSUME CallsOK(calls, page), ListOK(calls, list), FormOK(calls, form, applied, page),
           \/ OpenModal \/ CloseModal \/ AddLine \/ OnPlaceChange
           \/ \E i \in DOMAIN form.lines : RemoveLine(i) \/ FillLine(i)
           \/ \E w \in Warehouses \cup {None} : OnWarehouseChange(w)
           \/ \E p \in Products \cup {None} : OnProductChange(p)
           \/ \E e \in Locations \cup {None} : OnOriginChange(e)
    PROVE  /\ CallsOK(calls', page) /\ Same(calls', calls, CountTags \cup EditTags)
           /\ ListOK(calls', list') /\ FormOK(calls', form', applied', page)
           /\ applied' = applied /\ NoneSent(calls', calls)
<1>. DEFINE Goal == /\ CallsOK(calls', page) /\ Same(calls', calls, CountTags \cup EditTags)
                    /\ ListOK(calls', list') /\ FormOK(calls', form', applied', page)
                    /\ applied' = applied /\ NoneSent(calls', calls)
<1>0. form \in FormType /\ (form.loadingEntries => Has(calls, {"entries"}))
  BY DEF FormOK
<1>1. ASSUME CallsOK(calls', page), Same(calls', calls, Told), list' = list, applied' = applied,
             form' \in FormType, form'.saving = form.saving, form'.submission = form.submission,
             form'.sent = form.sent, form'.succeeded => form.succeeded,
             form'.loadingEntries => form.loadingEntries
      PROVE  Goal
  <2>1. Told \ {"entries"} \in SUBSET Told /\ {"entries"} \in SUBSET Told
    BY DEF Told
  <2>2. Same(calls', calls, Told \ {"entries"}) /\ (Has(calls', {"entries"}) <=> Has(calls, {"entries"}))
    BY <1>1, <2>1, SameFewer, SameTags
  <2>. QED
    BY <1>0, <1>1, <2>2, FormPageKept
<1>2. ASSUME OpenModal
      PROVE  Goal
  <2>1. form' = [form EXCEPT !.shown = TRUE] /\ calls' = calls /\ list' = list /\ applied' = applied
    BY <1>2 DEF OpenModal
  <2>2. /\ form' \in FormType /\ form'.saving = form.saving /\ form'.submission = form.submission
        /\ form'.sent = form.sent /\ form'.succeeded = form.succeeded
        /\ form'.loadingEntries = form.loadingEntries
    BY <1>0, <2>1 DEF FormType
  <2>3. Same(calls', calls, Told)
    BY <2>1, SameReflexive
  <2>. QED
    BY <1>1, <2>1, <2>2, <2>3
<1>3. ASSUME CloseModal
      PROVE  Goal
  <2>1. /\ form' = [Closed(form) EXCEPT !.succeeded = FALSE] /\ calls' = WithoutForm(calls)
        /\ list' = list /\ applied' = applied
    BY <1>3 DEF CloseModal, CloseForm
  <2>2. /\ form' \in FormType /\ form'.saving = form.saving /\ form'.submission = form.submission
        /\ form'.sent = form.sent /\ ~form'.succeeded /\ ~form'.loadingEntries
    BY <1>0, <2>1, ClosedForm DEF FormType
  <2>3. CallsOK(calls', page) /\ Same(calls', calls, Told \ {"entries"})
    BY <2>1, Dropping
  <2>. QED
    BY <2>1, <2>2, <2>3, FormPageKept
<1>4. ASSUME NEW lines \in Seq(BOOLEAN) \ {<<>>}, Rewrite(lines)
      PROVE  Goal
  <2>1. form' = [form EXCEPT !.lines = lines] /\ calls' = calls /\ list' = list /\ applied' = applied
    BY <1>4 DEF Rewrite
  <2>2. /\ form' \in FormType /\ form'.saving = form.saving /\ form'.submission = form.submission
        /\ form'.sent = form.sent /\ form'.succeeded = form.succeeded
        /\ form'.loadingEntries = form.loadingEntries
    BY <1>0, <2>1 DEF FormType
  <2>3. Same(calls', calls, Told)
    BY <2>1, SameReflexive
  <2>. QED
    BY <1>1, <2>1, <2>2, <2>3
<1>5. form.lines \in Seq(BOOLEAN) /\ form.lines # <<>>
  BY <1>0 DEF FormType
<1>6. PICK n \in Nat : n = Len(form.lines) /\ DOMAIN form.lines = 1..n /\ form.lines \in [1..n -> BOOLEAN]
  BY <1>5, LenProperties
<1>7. ASSUME AddLine
      PROVE  Goal
  <2>1. Append(form.lines, FALSE) \in Seq(BOOLEAN) /\ Append(form.lines, FALSE) # <<>>
    <3>1. /\ Append(form.lines, FALSE) \in Seq(BOOLEAN)
          /\ Len(Append(form.lines, FALSE)) = Len(form.lines) + 1
      BY <1>5, AppendProperties
    <3>2. Len(Append(form.lines, FALSE)) = n + 1 /\ n + 1 # 0
      BY <1>6, <3>1
    <3>. QED
      BY <3>1, <3>2, EmptySeq
  <2>. QED
    BY <1>4, <1>7, <2>1 DEF AddLine
<1>8. ASSUME NEW i \in DOMAIN form.lines, RemoveLine(i)
      PROVE  Goal
  <2>1. n > 1 /\ Rewrite(RemoveAt(form.lines, i))
    BY <1>6, <1>8 DEF RemoveLine
  <2>2. RemoveAt(form.lines, i) \in Seq(BOOLEAN) /\ Len(RemoveAt(form.lines, i)) = n - 1
    <3>1. i \in 1..n
      BY <1>6
    <3>2. n = Len(form.lines)
      BY <1>6
    <3>3. RemoveAt(form.lines, i) \in Seq(BOOLEAN)
      BY <1>5, <3>1, <3>2, Removing
    <3>4. Len(RemoveAt(form.lines, i)) = n - 1
      BY <1>5, <3>1, <3>2, Removing
    <3>. QED
      BY <3>3, <3>4
  <2>3. RemoveAt(form.lines, i) # <<>>
    <3>1. n - 1 # 0
      BY <2>1
    <3>. QED
      BY <2>2, <3>1, EmptySeq
  <2>. QED
    BY <1>4, <2>1, <2>2, <2>3
<1>9. ASSUME NEW i \in DOMAIN form.lines, FillLine(i)
      PROVE  Goal
  <2>. DEFINE new == [form.lines EXCEPT ![i] = TRUE]
  <2>1. new \in [1..n -> BOOLEAN]
    BY <1>6
  <2>2. new \in Seq(BOOLEAN)
    BY <2>1, SeqDef
  <2>3. new # <<>>
    <3>1. DOMAIN new = DOMAIN form.lines /\ i \in DOMAIN form.lines
      OBVIOUS
    <3>. QED
      BY <3>1
  <2>4. Rewrite(new)
    BY <1>9 DEF FillLine
  <2>. QED
    BY <1>4, <2>2, <2>3, <2>4
<1>10. ASSUME OnPlaceChange
       PROVE  Goal
  <2>1. CallsOK(calls', page) /\ Same(calls', calls, Told)
    BY <1>10, CascadeSteps DEF OnPlaceChange, PickPlace
  <2>2. list' = list /\ applied' = applied /\ form' = form
    BY <1>10 DEF OnPlaceChange, PickPlace, formVars
  <2>. QED
    BY <1>0, <1>1, <2>1, <2>2
<1>11. ASSUME NEW w \in Warehouses \cup {None}, OnWarehouseChange(w)
       PROVE  Goal
  <2>1. CallsOK(calls', page) /\ Same(calls', calls, Told)
    BY <1>11, CascadeSteps DEF OnWarehouseChange
  <2>2. list' = list /\ applied' = applied /\ form' = form
    BY <1>11 DEF OnWarehouseChange, formVars
  <2>. QED
    BY <1>0, <1>1, <2>1, <2>2
<1>12. ASSUME NEW p \in Products \cup {None}, OnProductChange(p)
       PROVE  Goal
  <2>1. /\ form' = [form EXCEPT !.product = p, !.entries = {}, !.from = None,
                                !.loadingEntries = (p # None)]
        /\ calls' = IF p = None THEN calls ELSE Append(calls, Call("entries", [product |-> p]))
        /\ list' = list /\ applied' = applied
    BY <1>12 DEF OnProductChange
  <2>2. /\ form' \in FormType /\ form'.saving = form.saving /\ form'.submission = form.submission
        /\ form'.sent = form.sent /\ form'.succeeded = form.succeeded
        /\ form'.loadingEntries = (p # None)
    BY <1>0, <2>1 DEF FormType
  <2>3. CASE p = None
    <3>1. CallsOK(calls', page) /\ Same(calls', calls, Told) /\ ~form'.loadingEntries
      BY <2>1, <2>2, <2>3, SameReflexive
    <3>. QED
      BY <1>1, <2>1, <2>2, <3>1
  <2>4. CASE p # None
    <3>. DEFINE c == Call("entries", [product |-> p])
    <3>1. CallOK(c, page) /\ Tag(c) = "entries"
      BY <1>12, <2>4 DEF CallOK, Call, Kinds, Tag
    <3>2. calls' = Append(calls, c)
      BY <2>1, <2>4
    <3>. HIDE DEF c
    <3>3. /\ CallsOK(calls', page) /\ Same(calls', calls, Told \ {"entries"})
          /\ Has(calls', {"entries"})
      BY <3>1, <3>2, Sending
    <3>. QED
      BY <2>1, <2>2, <3>3, FormPageKept
  <2>. QED
    BY <2>3, <2>4
<1>13. ASSUME NEW e \in Locations \cup {None}, OnOriginChange(e)
       PROVE  Goal
  <2>1. form' = [form EXCEPT !.from = e] /\ list' = list /\ applied' = applied
    BY <1>13 DEF OnOriginChange
  <2>2. /\ form' \in FormType /\ form'.saving = form.saving /\ form'.submission = form.submission
        /\ form'.sent = form.sent /\ form'.succeeded = form.succeeded
        /\ form'.loadingEntries = form.loadingEntries
    BY <1>0, <2>1 DEF FormType
  <2>3. \E w \in {None, WarehouseOf(e)} : OnWarehouse(w, calls)
    BY <1>13 DEF OnOriginChange
  <2>4. CallsOK(calls', page) /\ Same(calls', calls, Told)
    BY <2>3, CascadeSteps
  <2>. QED
    BY <1>1, <2>1, <2>2, <2>4
<1>. QED
  BY <1>2, <1>3, <1>7, <1>8, <1>9, <1>10, <1>11, <1>12, <1>13

LEMMA Submitting ==
    ASSUME CallsOK(calls, page), ListOK(calls, list), FormOK(calls, form, applied, page), Submit
    PROVE  /\ CallsOK(calls', page) /\ Same(calls', calls, CountTags \cup EditTags)
           /\ ListOK(calls', list') /\ FormOK(calls', form', applied', page)
           /\ applied' = applied
<1>. DEFINE n == IF page = "movements" THEN 1 ELSE Len(form.lines)
            s == [i \in 1..n |-> Post(i)]
<1>1. /\ ~form.saving /\ ~form.succeeded
      /\ form' = [form EXCEPT !.saving = TRUE, !.submission = form.submission + 1, !.sent = n]
      /\ calls' = calls \o s /\ list' = list /\ applied' = applied
  BY DEF Submit, Editing, SubmitEnabled
<1>2. form \in FormType /\ (form.loadingEntries => Has(calls, {"entries"}))
  BY DEF FormOK
<1>3. n \in Nat /\ n # 0
  <2>1. form.lines \in Seq(BOOLEAN) /\ form.lines # <<>>
    BY <1>2 DEF FormType
  <2>2. Len(form.lines) \in Nat \ {0}
    BY <2>1, EmptySeq
  <2>. QED
    BY <2>2
<1>4. ASSUME NEW i \in 1..n
      PROVE  /\ CallOK(Post(i), page) /\ Tag(Post(i)) = "awaited"
             /\ Post(i).about.submission = form.submission + 1 /\ Post(i).about.line = i
  <2>1. form.submission + 1 \in Nat /\ i \in Nat
    BY <1>2, <1>3 DEF FormType
  <2>. QED
    BY <2>1 DEF CallOK, Post, Call, Kinds, Tag
<1>5. s = [i \in 1..n |-> s[i]] /\ \A i \in 1..n : s[i] = Post(i)
  OBVIOUS
<1>6. /\ form' \in FormType /\ form'.saving /\ ~form'.succeeded /\ form'.sent = n
      /\ form'.submission = form.submission + 1 /\ form'.loadingEntries = form.loadingEntries
  <2>. HIDE DEF n
  <2>. DEFINE x == form.submission + 1
  <2>1. x \in Nat
    BY <1>2 DEF FormType
  <2>2. form' = [form EXCEPT !.saving = TRUE, !.submission = x, !.sent = n]
    BY <1>1
  <2>. HIDE DEF x
  <2>3. /\ form' \in FormType /\ form'.saving /\ form'.succeeded = form.succeeded
        /\ form'.sent = n /\ form'.submission = x /\ form'.loadingEntries = form.loadingEntries
    BY <1>2, <1>3, <2>1, <2>2 DEF FormType
  <2>. QED
    BY <1>1, <2>3 DEF x
<1>. HIDE DEF n, s
<1>7. \A i \in 1..n : /\ CallOK(s[i], page) /\ Tag(s[i]) = "awaited"
                      /\ s[i].about.submission = form.submission + 1 /\ s[i].about.line = i
  BY <1>4, <1>5
<1>8. /\ CallsOK(calls', page) /\ Same(calls', calls, Told \ {"awaited"})
      /\ Has(calls', {"awaited"})
      /\ n = 1 /\ ~Has(calls, {"awaited"}) => One(calls', {"awaited"})
      /\ \A i \in 1..n : \E j \in DOMAIN calls' : calls'[j] = s[i]
      /\ \A j \in DOMAIN calls' :
             (\E k \in DOMAIN calls : calls'[j] = calls[k]) \/ \E i \in 1..n : calls'[j] = s[i]
  <2>1. s = [i \in 1..n |-> s[i]]
    BY <1>5
  <2>2. \A i \in 1..n : CallOK(s[i], page) /\ Tag(s[i]) = "awaited"
    BY <1>7
  <2>3. calls' = calls \o s
    BY <1>1
  <2>4. n \in Nat
    BY <1>3
  <2>5. CallsOK(calls \o s, page) /\ Same(calls \o s, calls, Told \ {"awaited"})
    BY <2>1, <2>2, <2>4, Posting
  <2>6. Has(calls \o s, {"awaited"})
    BY <1>3, <2>1, <2>2, <2>4, Posting
  <2>7. n = 1 /\ ~Has(calls, {"awaited"}) => One(calls \o s, {"awaited"})
    BY <2>1, <2>2, <2>4, Posting
  <2>8. Joined(calls \o s, calls, s, n)
    BY <2>1, <2>2, <2>4, Posting
  <2>9. Joined(calls', calls, s, n)
    BY <2>3, <2>8
  <2>. QED
    BY <2>3, <2>5, <2>6, <2>7, <2>9 DEF Joined
<1>9. /\ Same(calls', calls, CountTags \cup EditTags) /\ Same(calls', calls, ListTags)
      /\ Same(calls', calls, {"entries"})
  <2>1. CountTags \cup EditTags \in SUBSET (Told \ {"awaited"})
        /\ ListTags \in SUBSET (Told \ {"awaited"}) /\ {"entries"} \in SUBSET (Told \ {"awaited"})
    BY DEF Told, CountTags, EditTags, ListTags, Saves
  <2>. QED
    BY <1>8, <2>1, SameFewer
<1>10. ListOK(calls', list')
  BY <1>1, <1>9, ListKept
<1>11. ~Has(calls, {"awaited"})
  BY <1>1 DEF FormOK, PostsOK
<1>12. form'.loadingEntries => Has(calls', {"entries"})
  <2>1. Has(calls', {"entries"}) <=> Has(calls, {"entries"})
    BY <1>9, SameTags
  <2>. QED
    BY <1>2, <1>6, <2>1
<1>13. PostsOK(calls', form', applied')
  <2>1. ASSUME NEW j \in DOMAIN calls', Tag(calls'[j]) = "awaited"
        PROVE  calls'[j].about.submission = form'.submission
    <3>1. PICK i \in 1..n : calls'[j] = s[i]
      BY <1>8, <1>11, <2>1 DEF Has
    <3>. QED
      BY <1>6, <1>7, <3>1
  <2>2. ASSUME NEW i \in 1..form'.sent
        PROVE  \E j \in DOMAIN calls' : Tag(calls'[j]) = "awaited" /\ calls'[j].about.line = i
    <3>1. i \in 1..n
      BY <1>6
    <3>2. PICK j \in DOMAIN calls' : calls'[j] = s[i]
      BY <1>8, <3>1
    <3>. QED
      BY <1>7, <3>1, <3>2
  <2>. QED
    BY <1>6, <1>8, <2>1, <2>2 DEF PostsOK
<1>14. page = "movements" => One(calls', {"awaited"})
  BY <1>8, <1>11 DEF n
<1>15. FormOK(calls', form', applied', page)
  BY <1>6, <1>12, <1>13, <1>14 DEF FormOK
<1>. QED
  BY <1>1, <1>8, <1>9, <1>10, <1>15

LEMMA Serving ==
    ASSUME NEW p, NEW registered \in BOOLEAN, Serve(p, registered)
    PROVE  applied \subseteq applied' /\ (registered => Registered(p) \in applied')
  BY DEF Serve

\* An awaited movement is answered, and leaves the calls.
LEMMA HearingPosts ==
    ASSUME CallsOK(calls, page), FormOK(calls, form, applied, page),
           NEW k \in DOMAIN calls, NEW ok \in BOOLEAN, Heard(k, ok)
    PROVE  /\ form.saving /\ applied \subseteq applied'
           /\ calls[k].kind = "post" /\ Tag(calls[k]) = "awaited"
           /\ ok => \E m \in applied' : /\ m.submission = form.submission
                                        /\ m.line = calls[k].about.line
           /\ CallsOK(Rest(k), page) /\ Same(Rest(k), calls, Told \ {"awaited"})
           /\ AllAnswered(k) => ~Has(Rest(k), {"awaited"})
           /\ One(calls, {"awaited"}) => ~Has(Rest(k), {"awaited"})
<1>1. calls[k].kind = "post" /\ Tag(calls[k]) = "awaited"
  BY DEF Heard, Answered, Tag
<1>2. PICK registered \in {TRUE, ok} : Serve(calls[k].about, registered)
  BY DEF Heard
<1>3. /\ applied \subseteq applied'
      /\ registered => Registered(calls[k].about) \in applied'
  BY <1>2, Serving
<1>4. form.saving /\ calls[k].about.submission = form.submission
  BY <1>1 DEF FormOK, PostsOK, Has
<1>5. ok => \E m \in applied' : m.submission = form.submission /\ m.line = calls[k].about.line
  <2>1. /\ Registered(calls[k].about).submission = calls[k].about.submission
        /\ Registered(calls[k].about).line = calls[k].about.line
    BY DEF Registered
  <2>. QED
    BY <1>2, <1>3, <1>4, <2>1
<1>6. /\ CallsOK(Rest(k), page) /\ Same(Rest(k), calls, Told \ {"awaited"})
      /\ One(calls, {"awaited"}) => ~Has(Rest(k), {"awaited"})
      /\ \A j \in DOMAIN Rest(k) : \E i \in DOMAIN calls \ {k} : calls[i] = Rest(k)[j]
  BY <1>1, Answering DEF Rest
<1>7. ASSUME AllAnswered(k)
      PROVE  ~Has(Rest(k), {"awaited"})
  <2>1. \A i \in DOMAIN calls \ {k} : Tag(calls[i]) # "awaited"
    <3>1. \A i \in DOMAIN calls : Tag(calls[i]) = "awaited" => i \in Awaited(calls)
      <4>1. \A i \in DOMAIN calls : calls[i].kind \in Kinds
        BY DEF CallsOK, CallOK
      <4>. QED
        BY <4>1 DEF Tag, Awaited, Kinds
    <3>. QED
      BY <1>7, <3>1 DEF AllAnswered
  <2>. QED
    BY <1>6, <2>1 DEF Has
<1>. QED
  BY <1>1, <1>3, <1>4, <1>5, <1>6, <1>7

LEMMA NoMoreAwaited ==
    ASSUME NEW b, NEW p, NEW g \in FormType, NEW done, ~g.saving, ~Has(b, {"awaited"}),
           g.loadingEntries => Has(b, {"entries"}),
           g.succeeded => \A i \in 1..g.sent :
               \E m \in done : m.submission = g.submission /\ m.line = i
    PROVE  FormOK(b, g, done, p)
  BY DEF FormOK, PostsOK, Has, One

LEMMA AnotherIsAwaited ==
    ASSUME CallsOK(calls, page), ListOK(calls, list), FormOK(calls, form, applied, page),
           NEW k \in DOMAIN calls, HearPost(k)
    PROVE  /\ CallsOK(calls', page) /\ Same(calls', calls, CountTags \cup EditTags)
           /\ ListOK(calls', list') /\ FormOK(calls', form', applied', page)
           /\ NoneSent(calls', calls)
<1>1. Heard(k, TRUE) /\ ~AllAnswered(k) /\ calls' = Rest(k) /\ list' = list /\ form' = form
  BY DEF HearPost
<1>2. /\ form.saving /\ applied \subseteq applied'
      /\ calls[k].kind = "post" /\ Tag(calls[k]) = "awaited"
      /\ CallsOK(calls', page) /\ Same(calls', calls, Told \ {"awaited"})
      /\ One(calls, {"awaited"}) => ~Has(calls', {"awaited"})
  BY <1>1, HearingPosts
<1>3. PICK m \in applied' : m.submission = form.submission /\ m.line = calls[k].about.line
  BY <1>1, HearingPosts
<1>4. /\ \A i \in DOMAIN calls \ {k} : \E j \in DOMAIN calls' : calls'[j] = calls[i]
      /\ \A j \in DOMAIN calls' : \E i \in DOMAIN calls \ {k} : calls[i] = calls'[j]
  BY <1>1, Answering DEF Rest
<1>5. /\ Same(calls', calls, CountTags \cup EditTags) /\ Same(calls', calls, ListTags)
      /\ Same(calls', calls, {"entries"})
  <2>1. CountTags \cup EditTags \in SUBSET (Told \ {"awaited"})
        /\ ListTags \in SUBSET (Told \ {"awaited"}) /\ {"entries"} \in SUBSET (Told \ {"awaited"})
    BY DEF Told, CountTags, EditTags, ListTags, Saves
  <2>. QED
    BY <1>2, <2>1, SameFewer
<1>6. ListOK(calls', list')
  BY <1>1, <1>5, ListKept
<1>7. Has(calls', {"entries"}) <=> Has(calls, {"entries"})
  BY <1>5, SameTags
<1>8. PICK o \in DOMAIN calls \ {k} : Tag(calls[o]) = "awaited"
  <2>1. k \in Awaited(calls)
    BY <1>1 DEF Heard, Answered, Awaited
  <2>2. PICK o \in Awaited(calls) : o # k
    BY <1>1, <2>1 DEF AllAnswered
  <2>. QED
    BY <2>2 DEF Awaited, Tag
<1>9. Has(calls', {"awaited"})
  BY <1>4, <1>8 DEF Has
<1>10. ASSUME NEW i \in 1..form.sent
       PROVE  \/ \E p \in applied' : p.submission = form.submission /\ p.line = i
              \/ \E j \in DOMAIN calls' : Tag(calls'[j]) = "awaited" /\ calls'[j].about.line = i
  <2>1. CASE \E p \in applied : p.submission = form.submission /\ p.line = i
    BY <1>2, <2>1
  <2>2. CASE \E j \in DOMAIN calls : Tag(calls[j]) = "awaited" /\ calls[j].about.line = i
    <3>1. PICK j \in DOMAIN calls : Tag(calls[j]) = "awaited" /\ calls[j].about.line = i
      BY <2>2
    <3>2. CASE j = k
      BY <1>3, <3>1, <3>2
    <3>3. CASE j # k
      <4>1. PICK h \in DOMAIN calls' : calls'[h] = calls[j]
        BY <1>4, <3>3
      <4>. QED
        BY <3>1, <4>1
    <3>. QED
      BY <3>2, <3>3
  <2>. QED
    BY <1>2, <2>1, <2>2 DEF FormOK, PostsOK
<1>11. \A j \in DOMAIN calls' :
           Tag(calls'[j]) = "awaited" => calls'[j].about.submission = form.submission
  BY <1>4 DEF FormOK, PostsOK
<1>12. form.succeeded => \A i \in 1..form.sent :
           \E p \in applied' : p.submission = form.submission /\ p.line = i
  BY <1>2 DEF FormOK, PostsOK
<1>13. PostsOK(calls', form, applied')
  BY <1>2, <1>9, <1>10, <1>11, <1>12 DEF PostsOK
<1>14. page = "movements" => One(calls', {"awaited"})
  BY <1>2, <1>9 DEF FormOK
<1>15. FormOK(calls', form, applied', page)
  BY <1>7, <1>13, <1>14 DEF FormOK
<1>. QED
  BY <1>1, <1>2, <1>4, <1>5, <1>6, <1>15 DEF NoneSent

LEMMA SubmissionsEnd ==
    ASSUME CallsOK(calls, page), ListOK(calls, list), FormOK(calls, form, applied, page),
           NEW k \in DOMAIN calls,
           HearPosted(k) \/ HearTransferred(k) \/ HearPostError(k)
    PROVE  /\ CallsOK(calls', page) /\ Same(calls', calls, CountTags \cup EditTags)
           /\ ListOK(calls', list') /\ FormOK(calls', form', applied', page)
           /\ NoneSent(calls', calls)
<1>. DEFINE Goal == /\ CallsOK(calls', page) /\ Same(calls', calls, CountTags \cup EditTags)
                    /\ ListOK(calls', list') /\ FormOK(calls', form', applied', page)
                    /\ NoneSent(calls', calls)
            Others == CountTags \cup EditTags \cup {"entries"}
<1>1. form \in FormType /\ list \in ListType /\ FirstPage(list) \in ListType
  BY FirstPageIsAList DEF FormOK, ListOK
<1>2. /\ Others \in SUBSET (Told \ {"awaited"}) /\ "list" \notin Others /\ "awaited" \notin Others
      /\ CountTags \cup EditTags \in SUBSET Others /\ {"entries"} \in SUBSET Others
      /\ ListTags \in SUBSET (Told \ {"awaited"}) /\ {"awaited"} \in SUBSET (Told \ {"entries"})
      /\ CountTags \cup EditTags \in SUBSET (Told \ {"entries"})
      /\ ListTags \in SUBSET (Told \ {"entries"})
  BY DEF Told, CountTags, EditTags, ListTags, Saves
<1>. HIDE DEF Others
<1>3. ASSUME NEW ok \in BOOLEAN, Heard(k, ok)
      PROVE  /\ form.saving /\ applied \subseteq applied'
             /\ CallsOK(Rest(k), page) /\ Same(Rest(k), calls, Others)
             /\ Same(Rest(k), calls, ListTags)
             /\ Has(Rest(k), {"entries"}) <=> Has(calls, {"entries"})
             /\ form.succeeded => \A i \in 1..form.sent :
                    \E m \in applied' : m.submission = form.submission /\ m.line = i
  <2>1. /\ form.saving /\ applied \subseteq applied'
        /\ CallsOK(Rest(k), page) /\ Same(Rest(k), calls, Told \ {"awaited"})
    BY <1>3, HearingPosts
  <2>2. Same(Rest(k), calls, Others) /\ Same(Rest(k), calls, ListTags)
    BY <1>2, <2>1, SameFewer
  <2>3. Has(Rest(k), {"entries"}) <=> Has(calls, {"entries"})
    BY <1>2, <2>2, SameTags
  <2>4. form.succeeded => \A i \in 1..form.sent :
            \E m \in applied' : m.submission = form.submission /\ m.line = i
    BY <2>1 DEF FormOK, PostsOK
  <2>. QED
    BY <2>1, <2>2, <2>3, <2>4
<1>4. ASSUME HearPosted(k)
      PROVE  Goal
  <2>1. /\ Heard(k, TRUE) /\ AllAnswered(k)
        /\ list' = Loading(FirstPage(list)) /\ calls' = Ask(FirstPage(list), Rest(k))
        /\ form' = [form EXCEPT !.saving = FALSE, !.succeeded = TRUE]
    BY <1>4 DEF HearPosted, Load
  <2>2. ~Has(Rest(k), {"awaited"})
    BY <2>1, HearingPosts
  <2>3. PICK m \in applied' : m.submission = form.submission /\ m.line = calls[k].about.line
    BY <2>1, HearingPosts
  <2>4. /\ CallsOK(calls', page) /\ ListOK(calls', list')
        /\ Same(calls', Rest(k), Others) /\ Same(calls', Rest(k), {"awaited"})
    BY <1>1, <1>2, <1>3, <2>1, Asking
  <2>5. Same(calls', calls, Others)
    BY <1>3, <2>1, <2>4, SameTransitive
  <2>6. Same(calls', calls, CountTags \cup EditTags) /\ (Has(calls', {"entries"}) <=> Has(calls, {"entries"}))
    BY <1>2, <2>5, SameFewer, SameTags
  <2>7. ~Has(calls', {"awaited"})
    BY <2>2, <2>4, SameTags
  <2>8. ASSUME NEW i \in 1..form.sent
        PROVE  \E p \in applied' : p.submission = form.submission /\ p.line = i
    <3>1. CASE \E p \in applied : p.submission = form.submission /\ p.line = i
      BY <1>3, <2>1, <3>1
    <3>2. CASE \E j \in DOMAIN calls : Tag(calls[j]) = "awaited" /\ calls[j].about.line = i
      <4>1. PICK j \in DOMAIN calls : Tag(calls[j]) = "awaited" /\ calls[j].about.line = i
        BY <3>2
      <4>2. j \in Awaited(calls)
        BY <4>1 DEF Tag, Awaited, CallsOK, CallOK, Kinds
      <4>3. j = k
        BY <2>1, <4>2 DEF AllAnswered
      <4>. QED
        BY <2>3, <4>1, <4>3
    <3>. QED
      BY <1>3, <2>1, <3>1, <3>2 DEF FormOK, PostsOK
  <2>9. /\ form' \in FormType /\ ~form'.saving /\ form'.sent = form.sent
        /\ form'.submission = form.submission /\ form'.loadingEntries = form.loadingEntries
    BY <1>1, <2>1 DEF FormType
  <2>10. form'.loadingEntries => Has(calls', {"entries"})
    BY <2>6, <2>9 DEF FormOK
  <2>11. FormOK(calls', form', applied', page)
    BY <2>7, <2>8, <2>9, <2>10, NoMoreAwaited
  <2>. QED
    BY <2>4, <2>6, <2>7, <2>11 DEF NoneSent, Has
<1>5. ASSUME HearTransferred(k)
      PROVE  Goal
  <2>. DEFINE asked == Ask(FirstPage(list), Rest(k))
  <2>1. /\ Heard(k, TRUE) /\ page = "movements"
        /\ list' = Loading(FirstPage(list)) /\ calls' = WithoutForm(asked)
        /\ form' = [Closed(form) EXCEPT !.saving = FALSE]
    BY <1>5 DEF HearTransferred, CloseForm
  <2>2. ~Has(Rest(k), {"awaited"})
    BY <2>1, HearingPosts DEF FormOK
  <2>3. /\ CallsOK(asked, page) /\ ListOK(asked, list')
        /\ Same(asked, Rest(k), Others) /\ Same(asked, Rest(k), {"awaited"})
    BY <1>1, <1>2, <1>3, <2>1, Asking
  <2>. HIDE DEF asked
  <2>4. CallsOK(calls', page) /\ Same(calls', asked, Told \ {"entries"})
    BY <2>1, <2>3, Dropping
  <2>5. /\ Same(calls', asked, CountTags \cup EditTags) /\ Same(calls', asked, ListTags)
        /\ Same(calls', asked, {"awaited"})
    BY <1>2, <2>4, SameFewer
  <2>6. ListOK(calls', list')
    BY <2>3, <2>5, ListKept
  <2>7. ~Has(calls', {"awaited"})
    BY <2>2, <2>3, <2>5, SameTags
  <2>8. Same(calls', calls, CountTags \cup EditTags)
    <3>1. Same(asked, calls, Others)
      BY <1>3, <2>1, <2>3, SameTransitive
    <3>2. Same(asked, calls, CountTags \cup EditTags)
      BY <1>2, <3>1, SameFewer
    <3>. QED
      BY <2>5, <3>2, SameTransitive
  <2>9. /\ form' \in FormType /\ ~form'.saving /\ form'.sent = form.sent
        /\ form'.submission = form.submission /\ form'.succeeded = form.succeeded
        /\ ~form'.loadingEntries
    BY <1>1, <2>1, ClosedForm DEF FormType
  <2>10. FormOK(calls', form', applied', page)
    <3>1. form'.succeeded => \A i \in 1..form'.sent :
              \E m \in applied' : m.submission = form'.submission /\ m.line = i
      BY <1>3, <2>1, <2>9
    <3>. QED
      BY <2>7, <2>9, <3>1, NoMoreAwaited
  <2>. QED
    BY <2>4, <2>6, <2>7, <2>8, <2>10 DEF NoneSent, Has
<1>6. ASSUME HearPostError(k)
      PROVE  Goal
  <2>1. /\ Heard(k, FALSE) /\ calls' = Unsubscribed(Rest(k)) /\ list' = list
        /\ form' = [form EXCEPT !.saving = FALSE]
    BY <1>6 DEF HearPostError
  <2>2. /\ CallsOK(calls', page) /\ Same(calls', Rest(k), Told \ {"awaited"})
        /\ ~Has(calls', {"awaited"})
    BY <1>3, <2>1, Unsubscribing
  <2>3. Same(calls', Rest(k), Others) /\ Same(calls', Rest(k), ListTags)
    BY <1>2, <2>2, SameFewer
  <2>4. Same(calls', calls, Others) /\ Same(calls', calls, ListTags)
    BY <1>3, <2>1, <2>3, SameTransitive
  <2>5. Same(calls', calls, CountTags \cup EditTags) /\ (Has(calls', {"entries"}) <=> Has(calls, {"entries"}))
    BY <1>2, <2>4, SameFewer, SameTags
  <2>6. ListOK(calls', list')
    BY <2>1, <2>4, ListKept
  <2>7. /\ form' \in FormType /\ ~form'.saving /\ form'.sent = form.sent
        /\ form'.submission = form.submission /\ form'.succeeded = form.succeeded
        /\ form'.loadingEntries = form.loadingEntries
    BY <1>1, <2>1 DEF FormType
  <2>8. FormOK(calls', form', applied', page)
    <3>1. form'.succeeded => \A i \in 1..form'.sent :
              \E m \in applied' : m.submission = form'.submission /\ m.line = i
      BY <1>3, <2>1, <2>7
    <3>2. form'.loadingEntries => Has(calls', {"entries"})
      BY <2>5, <2>7 DEF FormOK
    <3>. QED
      BY <2>2, <2>7, <3>1, <3>2, NoMoreAwaited
  <2>. QED
    BY <2>2, <2>5, <2>6, <2>8 DEF NoneSent, Has
<1>. QED
  BY <1>4, <1>5, <1>6

LEMMA FormSteps ==
    ASSUME CallsOK(calls, page), ListOK(calls, list), FormOK(calls, form, applied, page),
           FillForm \/ HearForm
    PROVE  /\ CallsOK(calls', page) /\ Same(calls', calls, CountTags \cup EditTags)
           /\ ListOK(calls', list') /\ FormOK(calls', form', applied', page)
           /\ Submit \/ NoneSent(calls', calls)
<1>. DEFINE Goal == /\ CallsOK(calls', page) /\ Same(calls', calls, CountTags \cup EditTags)
                    /\ ListOK(calls', list') /\ FormOK(calls', form', applied', page)
                    /\ Submit \/ NoneSent(calls', calls)
<1>0. form \in FormType /\ (form.loadingEntries => Has(calls, {"entries"}))
  BY DEF FormOK
<1>2. CASE FillForm
  BY <1>2, Submitting, FormsAreFilled DEF FillForm
<1>3. ASSUME NEW k \in DOMAIN calls, NEW ok \in BOOLEAN, HearOptions(k, ok), UNCHANGED <<list, formVars>>
      PROVE  Goal
  <2>1. CallsOK(calls', page) /\ Same(calls', calls, Told)
    BY <1>3, CascadeSteps
  <2>2. Told \ {"entries"} \in SUBSET Told /\ {"entries"} \in SUBSET Told
    BY DEF Told
  <2>3. Same(calls', calls, Told \ {"entries"}) /\ (Has(calls', {"entries"}) <=> Has(calls, {"entries"}))
    BY <2>1, <2>2, SameFewer, SameTags
  <2>4. list' = list /\ form' = form /\ applied' = applied
    BY <1>3 DEF formVars
  <2>. QED
    BY <1>0, <2>1, <2>3, <2>4, FormPageKept
<1>4. ASSUME NEW k \in DOMAIN calls, NEW ok \in BOOLEAN, HearEntries(k, ok)
      PROVE  Goal
  <2>1. /\ calls[k].kind = "entries" /\ calls' = RemoveAt(calls, k)
        /\ list' = list /\ applied' = applied
        /\ form' = [form EXCEPT !.loadingEntries = FALSE,
                       !.entries = IF ok THEN StockAt[calls[k].about.product] ELSE @]
    BY <1>4 DEF HearEntries, Answered, Rest
  <2>2. Tag(calls[k]) = "entries" /\ calls[k].about.product \in Products
    BY <2>1, TagsAreKinds DEF CallsOK, CallOK
  <2>3. StockAt[calls[k].about.product] \in SUBSET Locations
    BY <2>2, StockIsSomewhere
  <2>4. CallsOK(calls', page) /\ Same(calls', calls, Told \ {"entries"})
    BY <2>1, <2>2, Answering
  <2>5. /\ form' \in FormType /\ form'.saving = form.saving /\ form'.submission = form.submission
        /\ form'.sent = form.sent /\ form'.succeeded = form.succeeded /\ ~form'.loadingEntries
    BY <1>0, <2>1, <2>3 DEF FormType
  <2>. QED
    BY <2>1, <2>4, <2>5, FormPageKept
<1>5. ASSUME NEW k \in DOMAIN calls, NEW registered \in BOOLEAN, ServeOther(k, registered)
      PROVE  Goal
  <2>1. /\ calls[k].kind = "post" /\ ~calls[k].about.awaited /\ calls' = RemoveAt(calls, k)
        /\ list' = list /\ form' = form /\ Serve(calls[k].about, registered)
    BY <1>5 DEF ServeOther, Answered, Rest
  <2>2. Tag(calls[k]) = "post"
    BY <2>1 DEF Tag
  <2>3. CallsOK(calls', page) /\ Same(calls', calls, Told)
    <3>1. Tag(calls[k]) \notin Told
      BY <2>2 DEF Told
    <3>. QED
      BY <2>1, <3>1, Answering
  <2>4. Told \ {"entries"} \in SUBSET Told /\ {"entries"} \in SUBSET Told
    BY DEF Told
  <2>5. Same(calls', calls, Told \ {"entries"}) /\ (Has(calls', {"entries"}) <=> Has(calls, {"entries"}))
    BY <2>3, <2>4, SameFewer, SameTags
  <2>6. applied \subseteq applied'
    BY <2>1, Serving
  <2>. QED
    BY <1>0, <2>1, <2>3, <2>5, <2>6, FormPageKept
<1>. QED
  BY <1>2, <1>3, <1>4, <1>5, AnotherIsAwaited, SubmissionsEnd DEF HearForm

-----------------------------------------------------------------------------
(* The steps of the counts *)

OtherTags == FormTags \cup EditTags

LEMMA CountPageKept ==
    ASSUME CallsOK(calls', page), Same(calls', calls, Told \ {"detail", "write"}),
           ListOK(calls, list), list' = list, detail' \in DetailType,
           detail'.loading => Has(calls', {"detail"}), detail'.saving => Has(calls', {"write"})
    PROVE  /\ Same(calls', calls, OtherTags) /\ ListOK(calls', list') /\ CountOK(calls', detail')
<1>1. Same(calls', calls, OtherTags) /\ Same(calls', calls, ListTags)
  <2>1. OtherTags \in SUBSET (Told \ {"detail", "write"}) /\ ListTags \in SUBSET (Told \ {"detail", "write"})
    BY DEF Told, OtherTags, FormTags, EditTags, ListTags, Saves
  <2>. QED
    BY <2>1, SameFewer
<1>. QED
  BY <1>1, ListKept DEF CountOK

LEMMA WithoutCountCalls ==
    ASSUME CallsOK(calls, page), ListOK(calls, list), CountOK(calls, detail),
           CallsOK(calls', page), Same(calls', calls, Told), list' = list,
           detail' \in DetailType, detail'.loading => detail.loading, detail'.saving => detail.saving
    PROVE  /\ Same(calls', calls, OtherTags) /\ ListOK(calls', list') /\ CountOK(calls', detail')
<1>1. /\ Told \ {"detail", "write"} \in SUBSET Told
      /\ {"detail"} \in SUBSET Told /\ {"write"} \in SUBSET Told
  BY DEF Told
<1>2. /\ Same(calls', calls, Told \ {"detail", "write"})
      /\ Has(calls', {"detail"}) <=> Has(calls, {"detail"})
      /\ Has(calls', {"write"}) <=> Has(calls, {"write"})
  BY <1>1, SameFewer, SameTags
<1>. QED
  BY <1>2, CountPageKept DEF CountOK

LEMMA Writings ==
    ASSUME CallsOK(calls, page), ListOK(calls, list), CountOK(calls, detail),
           NEW op \in Ops, NEW c \in Counts, NEW l, Send(op, c, l), list' = list,
           \/ op = "updateLine" /\ detail' = detail
           \/ op # "updateLine" /\ detail' = [detail EXCEPT !.saving = TRUE]
    PROVE  /\ CallsOK(calls', page) /\ Same(calls', calls, OtherTags)
           /\ ListOK(calls', list') /\ CountOK(calls', detail')
<1>. DEFINE w == Write(op, c, l)
<1>1. CallOK(w, page) /\ Tag(w) = IF op = "updateLine" THEN "update" ELSE "write"
  BY DEF CallOK, Write, Call, Kinds, Tag
<1>2. calls' = Append(calls, w)
  BY DEF Send
<1>. HIDE DEF w
<1>3. /\ CallsOK(calls', page)
      /\ \A T : Tag(w) \notin T => Same(calls', calls, T)
      /\ \A T : Tag(w) \in T => Has(calls', T)
  BY <1>1, <1>2, Sending
<1>4. detail \in DetailType
  BY DEF CountOK
<1>5. CASE op = "updateLine"
  <2>1. Same(calls', calls, Told)
    <3>1. Tag(w) \notin Told
      BY <1>1, <1>5 DEF Told
    <3>. QED
      BY <1>3, <3>1
  <2>. QED
    BY <1>3, <1>4, <1>5, <2>1, WithoutCountCalls
<1>6. CASE op # "updateLine"
  <2>1. Same(calls', calls, Told \ {"detail", "write"}) /\ Same(calls', calls, {"detail"})
        /\ Has(calls', {"write"})
    BY <1>1, <1>3, <1>6
  <2>2. Has(calls', {"detail"}) <=> Has(calls, {"detail"})
    BY <2>1, SameTags
  <2>3. detail' \in DetailType /\ detail'.loading = detail.loading
    BY <1>4, <1>6 DEF DetailType
  <2>4. detail'.loading => Has(calls', {"detail"})
    BY <2>2, <2>3 DEF CountOK
  <2>. QED
    BY <1>3, <2>1, <2>3, <2>4, CountPageKept
<1>. QED
  BY <1>5, <1>6

LEMMA CountsAreUsed ==
    ASSUME CallsOK(calls, page), ListOK(calls, list), CountOK(calls, detail), UseCounts
    PROVE  /\ CallsOK(calls', page) /\ Same(calls', calls, OtherTags)
           /\ ListOK(calls', list') /\ CountOK(calls', detail')
<1>. DEFINE Goal == /\ CallsOK(calls', page) /\ Same(calls', calls, OtherTags)
                    /\ ListOK(calls', list') /\ CountOK(calls', detail')
<1>0. detail \in DetailType /\ (detail.selected # None => detail.selected \in Counts)
  BY DEF CountOK, DetailType
<1>1. CASE ToggleCreate
  <2>1. detail' = [detail EXCEPT !.showCreate = ~@] /\ calls' = calls /\ list' = list
    BY <1>1 DEF ToggleCreate
  <2>2. detail' \in DetailType /\ detail'.loading = detail.loading /\ detail'.saving = detail.saving
    BY <1>0, <2>1 DEF DetailType
  <2>. QED
    BY <2>1, <2>2, SameReflexive, WithoutCountCalls
<1>2. CASE ActOnSelected
  BY <1>0, <1>2, Writings DEF ActOnSelected, Detailing, Ops
<1>3. CASE SubmitCountLine
  BY <1>0, <1>3, Writings DEF SubmitCountLine, Detailing, Ops, LineOps
<1>4. CASE RemoveCountLine
  BY <1>0, <1>4, Writings DEF RemoveCountLine, Detailing, Ops, LineOps
<1>5. CASE UpdateCountLine
  BY <1>0, <1>5, Writings DEF UpdateCountLine, Detailing, Ops
<1>6. ASSUME NEW c \in Counts, SubmitCreate(c)
      PROVE  Goal
  BY <1>0, <1>6, Writings DEF SubmitCreate, Ops
<1>7. CASE PickLocation
  <2>1. CallsOK(calls', page) /\ Same(calls', calls, Told)
    BY <1>7, CascadeSteps DEF PickLocation
  <2>2. list' = list /\ detail' = detail
    BY <1>7 DEF PickLocation
  <2>. QED
    BY <1>0, <2>1, <2>2, WithoutCountCalls
<1>8. ASSUME NEW l \in Locations, ScanLocation(l)
      PROVE  Goal
  <2>. DEFINE c == Call("lookup", [wh |-> CountWarehouse[detail.selected], loc |-> l])
  <2>1. calls' = Append(calls, c) /\ list' = list /\ detail' = detail
    BY <1>8 DEF ScanLocation
  <2>2. CallOK(c, page) /\ Tag(c) \notin Told
    BY UntoldCall
  <2>. HIDE DEF c
  <2>3. CallsOK(calls', page) /\ Same(calls', calls, Told)
    BY <2>1, <2>2, Sending
  <2>. QED
    BY <1>0, <2>1, <2>3, WithoutCountCalls
<1>9. ASSUME NEW c \in Counts, LoadDetail(c)
      PROVE  Goal
  <2>. DEFINE a == Call("detail", [count |-> c])
  <2>1. /\ calls' = Append(calls, a) /\ list' = list
        /\ detail' = [detail EXCEPT !.loading = TRUE]
    BY <1>9 DEF LoadDetail, AskDetail
  <2>2. CallOK(a, page) /\ Tag(a) = "detail"
    BY DEF CallOK, Call, Kinds, Tag
  <2>. HIDE DEF a
  <2>3. /\ CallsOK(calls', page) /\ Same(calls', calls, Told \ {"detail", "write"})
        /\ Same(calls', calls, {"write"}) /\ Has(calls', {"detail"})
    BY <2>1, <2>2, Sending
  <2>4. Has(calls', {"write"}) <=> Has(calls, {"write"})
    BY <2>3, SameTags
  <2>5. detail' \in DetailType /\ detail'.saving = detail.saving
    BY <1>0, <2>1 DEF DetailType
  <2>6. detail'.saving => Has(calls', {"write"})
    BY <2>4, <2>5 DEF CountOK
  <2>. QED
    BY <2>1, <2>3, <2>5, <2>6, CountPageKept
<1>. QED
  BY <1>1, <1>2, <1>3, <1>4, <1>5, <1>6, <1>7, <1>8, <1>9 DEF UseCounts

LEMMA HearingWrites ==
    ASSUME CallsOK(calls, page),
           NEW k \in DOMAIN calls, NEW ops \in SUBSET Ops, NEW ok \in BOOLEAN, HearWrite(k, ops, ok)
    PROVE  /\ calls[k].about.op \in ops /\ calls[k].about.count \in Counts
           /\ Tag(calls[k]) = IF calls[k].about.op = "updateLine" THEN "update" ELSE "write"
<1>1. calls[k].kind = "write" /\ calls[k].about.op \in ops
  BY DEF HearWrite, Answered
<1>2. calls[k].about.count \in Counts
  BY <1>1 DEF CallsOK, CallOK
<1>3. Tag(calls[k]) = IF calls[k].about.op = "updateLine" THEN "update" ELSE "write"
  BY <1>1 DEF Tag
<1>. QED
  BY <1>1, <1>2, <1>3

LEMMA AskingDetail ==
    ASSUME NEW cs, NEW p, CallsOK(cs, p), NEW c \in Counts
    PROVE  /\ CallsOK(AskDetail(c, cs), p) /\ Same(AskDetail(c, cs), cs, Told \ {"detail"})
           /\ Has(AskDetail(c, cs), {"detail"})
<1>. DEFINE a == Call("detail", [count |-> c])
<1>1. CallOK(a, p) /\ Tag(a) = "detail"
  BY DEF CallOK, Call, Kinds, Tag
<1>. HIDE DEF a
<1>2. AskDetail(c, cs) = Append(cs, a)
  BY DEF AskDetail, a
<1>. QED
  BY <1>1, <1>2, Sending

LEMMA CountsAreHeard ==
    ASSUME CallsOK(calls, page), ListOK(calls, list), CountOK(calls, detail),
           HearCountCalls
    PROVE  /\ CallsOK(calls', page) /\ Same(calls', calls, OtherTags)
           /\ ListOK(calls', list') /\ CountOK(calls', detail')
<1>. DEFINE Goal == /\ CallsOK(calls', page) /\ Same(calls', calls, OtherTags)
                    /\ ListOK(calls', list') /\ CountOK(calls', detail')
<1>0. detail \in DetailType /\ list \in ListType
  BY DEF CountOK, ListOK
<1>2. /\ OtherTags \in SUBSET (Told \ {"list"}) /\ OtherTags \in SUBSET (Told \ {"detail"})
      /\ OtherTags \in SUBSET (Told \ {"write"}) /\ OtherTags \in SUBSET Told
      /\ ListTags \in SUBSET (Told \ {"detail"}) /\ ListTags \in SUBSET (Told \ {"write"})
      /\ CountTags \in SUBSET (Told \ {"list"})
      /\ {"detail"} \in SUBSET (Told \ {"write"}) /\ {"write"} \in SUBSET (Told \ {"detail"})
      /\ {"detail"} \in SUBSET Told /\ {"write"} \in SUBSET Told
      /\ Told \ {"detail", "write"} \in SUBSET (Told \ {"detail"})
      /\ Told \ {"detail", "write"} \in SUBSET (Told \ {"write"})
      /\ Told \ {"write"} \in SUBSET Told
      /\ "list" \notin OtherTags /\ "list" \notin {"detail"}
  BY DEF Told, OtherTags, FormTags, EditTags, ListTags, CountTags, Saves
<1>. HIDE DEF OtherTags, ListTags, CountTags, Told
<1>3. ASSUME NEW k \in DOMAIN calls, NEW ok \in BOOLEAN, NEW found \in BOOLEAN, HearCounts(k, ok, found)
      PROVE  Goal
  <2>1. /\ HearList(k, ok)
        /\ detail' = IF ok /\ ~found THEN [detail EXCEPT !.selected = None] ELSE detail
    BY <1>3 DEF HearCounts
  <2>2. /\ CallsOK(calls', page) /\ Same(calls', calls, Told \ {"list"})
        /\ ListOK(calls', list')
    BY <2>1, ListSteps
  <2>3. Same(calls', calls, OtherTags) /\ Same(calls', calls, CountTags)
    BY <1>2, <2>2, SameFewer
  <2>4. CountOK(calls', detail)
    BY <2>3, CountKept
  <2>5. detail' \in DetailType /\ detail'.loading = detail.loading /\ detail'.saving = detail.saving
    BY <1>0, <2>1 DEF DetailType
  <2>6. CountOK(calls', detail')
    BY <2>4, <2>5 DEF CountOK
  <2>. QED
    BY <2>1, <2>2, <2>3, <2>6
<1>4. ASSUME NEW k \in DOMAIN calls, NEW ok \in BOOLEAN, HearOptions(k, ok), UNCHANGED <<list, detail>>
      PROVE  Goal
  <2>1. CallsOK(calls', page) /\ Same(calls', calls, Told)
    BY <1>4, CascadeSteps
  <2>2. list' = list /\ detail' = detail
    BY <1>4
  <2>. QED
    BY <1>0, <2>1, <2>2, WithoutCountCalls
<1>5. ASSUME NEW k \in DOMAIN calls, NEW ok \in BOOLEAN, HearDetail(k, ok)
      PROVE  Goal
  <2>1. /\ calls[k].kind = "detail" /\ list' = list
        /\ \/ detail' = [detail EXCEPT !.selected = calls[k].about.count, !.loading = FALSE]
           \/ detail' = [detail EXCEPT !.loading = FALSE]
        /\ calls' = Rest(k) \/ calls' = Append(Rest(k), Call("zones", pick'))
    BY <1>5 DEF HearDetail, Answered, ResetForWarehouse, AskOptions
  <2>2. Tag(calls[k]) = "detail" /\ calls[k].about.count \in Counts
    BY <2>1, TagsAreKinds DEF CallsOK, CallOK
  <2>3. CallsOK(Rest(k), page) /\ Same(Rest(k), calls, Told \ {"detail"})
    BY <2>2, Answering DEF Rest
  <2>4. ASSUME calls' = Append(Rest(k), Call("zones", pick'))
        PROVE  CallsOK(calls', page) /\ Same(calls', calls, Told \ {"detail"})
    <3>1. CallOK(Call("zones", pick'), page) /\ Tag(Call("zones", pick')) \notin Told
      BY UntoldCall
    <3>2. CallsOK(calls', page) /\ Same(calls', Rest(k), Told \ {"detail"})
      BY <2>3, <2>4, <3>1, Sending
    <3>. QED
      BY <2>3, <3>2, SameTransitive
  <2>5. CallsOK(calls', page) /\ Same(calls', calls, Told \ {"detail"})
    BY <2>1, <2>3, <2>4
  <2>6. /\ Same(calls', calls, Told \ {"detail", "write"})
        /\ Has(calls', {"write"}) <=> Has(calls, {"write"})
    <3>1. Same(calls', calls, {"write"})
      BY <1>2, <2>5, SameFewer
    <3>. QED
      BY <1>2, <2>5, <3>1, SameFewer, SameTags
  <2>7. detail' \in DetailType /\ ~detail'.loading /\ detail'.saving = detail.saving
    BY <1>0, <2>1, <2>2 DEF DetailType
  <2>8. detail'.saving => Has(calls', {"write"})
    BY <2>6, <2>7 DEF CountOK
  <2>. QED
    BY <2>1, <2>5, <2>6, <2>7, <2>8, CountPageKept
<1>6. ASSUME NEW k \in DOMAIN calls, NEW ok \in BOOLEAN,
             HearLookup(k, ok) \/ HearScannedAisles(k, ok) \/ HearScannedLocs(k, ok)
      PROVE  Goal
  <2>1. /\ calls[k].kind \in {"lookup", "scannedAisles", "scannedLocs"}
        /\ list' = list /\ detail' = detail
    BY <1>6 DEF HearLookup, HearScannedAisles, HearScannedLocs, Answered
  <2>2. \/ calls' = Rest(k)
        \/ \E about : calls' = Append(Rest(k), Call("scannedAisles", about))
        \/ \E about : calls' = Append(Rest(k), Call("scannedLocs", about))
    BY <1>6 DEF HearLookup, HearScannedAisles, HearScannedLocs
  <2>3. Tag(calls[k]) \notin Told
    BY <2>1, TagsAreKinds DEF Told
  <2>4. CallsOK(Rest(k), page) /\ Same(Rest(k), calls, Told)
    BY <2>3, Answering DEF Rest
  <2>5. ASSUME NEW kind \in {"scannedAisles", "scannedLocs"}, NEW about,
               calls' = Append(Rest(k), Call(kind, about))
        PROVE  CallsOK(calls', page) /\ Same(calls', calls, Told)
    <3>1. CallOK(Call(kind, about), page) /\ Tag(Call(kind, about)) \notin Told
      BY UntoldCall
    <3>2. CallsOK(calls', page) /\ Same(calls', Rest(k), Told)
      BY <2>4, <2>5, <3>1, Sending
    <3>. QED
      BY <2>4, <3>2, SameTransitive
  <2>6. CallsOK(calls', page) /\ Same(calls', calls, Told)
    BY <2>2, <2>4, <2>5
  <2>. QED
    BY <1>0, <2>1, <2>6, WithoutCountCalls
<1>7. ASSUME NEW k \in DOMAIN calls, NEW ops \in SUBSET Ops, NEW ok \in BOOLEAN, HearWrite(k, ops, ok)
      PROVE  /\ CallsOK(Rest(k), page)
             /\ calls[k].about.op \in ops /\ calls[k].about.count \in Counts
             /\ Same(Rest(k), calls, Told \ {"write"})
             /\ calls[k].about.op = "updateLine" => Same(Rest(k), calls, Told)
  <2>1.
        /\ calls[k].about.op \in ops /\ calls[k].about.count \in Counts
        /\ Tag(calls[k]) = IF calls[k].about.op = "updateLine" THEN "update" ELSE "write"
    BY <1>7, HearingWrites
  <2>2. "update" \notin Told
    BY DEF Told
  <2>3. CallsOK(Rest(k), page) /\ \A T : Tag(calls[k]) \notin T => Same(Rest(k), calls, T)
    BY Answering DEF Rest
  <2>. QED
    BY <2>1, <2>2, <2>3
<1>8. ASSUME NEW k \in DOMAIN calls, HearCreate(k)
      PROVE  Goal
  <2>. DEFINE c == calls[k].about.count
              asked == Ask(list, Rest(k))
  <2>1. /\ HearWrite(k, {"create"}, TRUE) /\ {"create"} \in SUBSET Ops
        /\ list' = Loading(list) /\ calls' = AskDetail(c, asked)
        /\ detail' = [detail EXCEPT !.saving = FALSE, !.showCreate = FALSE, !.loading = TRUE]
    BY <1>8 DEF HearCreate, Ops
  <2>2. /\ CallsOK(Rest(k), page) /\ c \in Counts
        /\ Same(Rest(k), calls, Told \ {"write"})
    BY <1>7, <2>1
  <2>3. CallsOK(asked, page) /\ Same(asked, Rest(k), OtherTags) /\ ListOK(asked, list')
    BY <1>0, <1>2, <2>1, <2>2, Asking
  <2>. HIDE DEF c, asked
  <2>4. CallsOK(calls', page) /\ Same(calls', asked, Told \ {"detail"}) /\ Has(calls', {"detail"})
    BY <2>1, <2>2, <2>3, AskingDetail
  <2>5. Same(calls', asked, OtherTags) /\ Same(calls', asked, ListTags)
    BY <1>2, <2>4, SameFewer
  <2>6. Same(calls', calls, OtherTags)
    <3>1. Same(Rest(k), calls, OtherTags)
      BY <1>2, <2>2, SameFewer
    <3>2. Same(asked, calls, OtherTags)
      BY <2>3, <3>1, SameTransitive
    <3>. QED
      BY <2>5, <3>2, SameTransitive
  <2>7. ListOK(calls', list')
    BY <2>3, <2>5, ListKept
  <2>8. detail' \in DetailType /\ ~detail'.saving
    BY <1>0, <2>1 DEF DetailType
  <2>9. CountOK(calls', detail')
    BY <2>4, <2>8 DEF CountOK
  <2>. QED
    BY <2>2, <2>4, <2>6, <2>7, <2>9
<1>9. ASSUME NEW k \in DOMAIN calls, AfterDetailAction(k)
      PROVE  Goal
  <2>1. /\ HearWrite(k, {"act"}, TRUE) /\ {"act"} \in SUBSET Ops
        /\ list' = Loading(list) /\ calls' = Ask(list, Rest(k))
        /\ detail' = [detail EXCEPT !.saving = FALSE, !.selected = calls[k].about.count]
    BY <1>9 DEF AfterDetailAction, Load, Ops
  <2>2. /\ CallsOK(Rest(k), page) /\ calls[k].about.count \in Counts
        /\ Same(Rest(k), calls, Told \ {"write"})
    BY <1>7, <2>1
  <2>3. /\ CallsOK(calls', page) /\ Same(calls', Rest(k), OtherTags) /\ Same(calls', Rest(k), {"detail"})
        /\ ListOK(calls', list')
    BY <1>0, <1>2, <2>1, <2>2, Asking
  <2>4. Same(Rest(k), calls, OtherTags) /\ Same(Rest(k), calls, {"detail"})
    BY <1>2, <2>2, SameFewer
  <2>5. Same(calls', calls, OtherTags) /\ Same(calls', calls, {"detail"})
    BY <2>3, <2>4, SameTransitive
  <2>6. Has(calls', {"detail"}) <=> Has(calls, {"detail"})
    BY <2>5, SameTags
  <2>7. detail' \in DetailType /\ ~detail'.saving /\ detail'.loading = detail.loading
    BY <1>0, <2>1, <2>2 DEF DetailType
  <2>8. CountOK(calls', detail')
    BY <2>6, <2>7 DEF CountOK
  <2>. QED
    BY <2>2, <2>3, <2>5, <2>8
<1>10. ASSUME NEW k \in DOMAIN calls, HearLine(k)
       PROVE  Goal
  <2>. DEFINE c == calls[k].about.count
              o == calls[k].about.op
  <2>1. /\ HearWrite(k, LineOps \cup {"updateLine"}, TRUE) /\ LineOps \cup {"updateLine"} \in SUBSET Ops
        /\ list' = list /\ calls' = AskDetail(c, Rest(k))
        /\ detail' = [detail EXCEPT !.loading = TRUE, !.saving = @ /\ o = "updateLine"]
    BY <1>10 DEF HearLine, Ops
  <2>2. /\ CallsOK(Rest(k), page) /\ c \in Counts
        /\ Same(Rest(k), calls, Told \ {"write"})
        /\ o = "updateLine" => Same(Rest(k), calls, Told)
    BY <1>7, <2>1
  <2>. HIDE DEF c, o
  <2>3. CallsOK(calls', page) /\ Same(calls', Rest(k), Told \ {"detail"}) /\ Has(calls', {"detail"})
    BY <2>1, <2>2, AskingDetail
  <2>4. /\ Same(calls', Rest(k), Told \ {"detail", "write"})
        /\ Same(calls', Rest(k), {"write"})
        /\ Same(Rest(k), calls, Told \ {"detail", "write"})
    BY <1>2, <2>2, <2>3, SameFewer
  <2>5. Same(calls', calls, Told \ {"detail", "write"})
    BY <2>4, SameTransitive
  <2>6. detail' \in DetailType /\ (detail'.saving <=> detail.saving /\ o = "updateLine")
    BY <1>0, <2>1 DEF DetailType
  <2>7. detail'.saving => Has(calls', {"write"})
    <3>. SUFFICES ASSUME detail'.saving PROVE Has(calls', {"write"})
      OBVIOUS
    <3>1. Same(Rest(k), calls, {"write"})
      BY <1>2, <2>2, <2>6, SameFewer
    <3>2. Has(calls, {"write"})
      BY <2>6 DEF CountOK
    <3>. QED
      BY <2>4, <3>1, <3>2, SameTags
  <2>. QED
    BY <2>1, <2>2, <2>3, <2>5, <2>6, <2>7, CountPageKept
<1>11. ASSUME NEW k \in DOMAIN calls, HandleActionError(k)
       PROVE  Goal
  <2>1. /\ HearWrite(k, Ops, FALSE) /\ Ops \in SUBSET Ops /\ list' = list /\ calls' = Rest(k)
        /\ detail' = [detail EXCEPT !.saving = FALSE]
    BY <1>11 DEF HandleActionError, NotSaving
  <2>2. /\ CallsOK(calls', page) /\ Same(calls', calls, Told \ {"write"})
    BY <1>7, <2>1
  <2>3. Same(calls', calls, Told \ {"detail", "write"}) /\ Same(calls', calls, {"detail"})
    BY <1>2, <2>2, SameFewer
  <2>4. Has(calls', {"detail"}) <=> Has(calls, {"detail"})
    BY <2>3, SameTags
  <2>5. detail' \in DetailType /\ ~detail'.saving /\ detail'.loading = detail.loading
    BY <1>0, <2>1 DEF DetailType
  <2>6. detail'.loading => Has(calls', {"detail"})
    BY <2>4, <2>5 DEF CountOK
  <2>. QED
    BY <2>1, <2>2, <2>3, <2>5, <2>6, CountPageKept
<1>. QED
  BY <1>3, <1>4, <1>5, <1>6, <1>8, <1>9, <1>10, <1>11 DEF HearCountCalls

-----------------------------------------------------------------------------
(* The steps of the dialogs that edit rows *)

LEMMA FlagGoesUp ==
    ASSUME NEW cs, NEW p, CallsOK(cs, p), NEW c, CallOK(c, p), NEW T, Tag(c) \in T,
           ~Has(cs, T)
    PROVE  FlagFits(TRUE, Append(cs, c), T)
<1>1. One(Append(cs, c), T) /\ Has(Append(cs, c), T)
  BY Sending
<1>. QED
  BY <1>1 DEF FlagFits

LEMMA FlagGoesDown ==
    ASSUME NEW cs, NEW p, CallsOK(cs, p), NEW k \in DOMAIN cs, NEW T, Tag(cs[k]) \in T,
           NEW flag, FlagFits(flag, cs, T)
    PROVE  FlagFits(FALSE, RemoveAt(cs, k), T)
<1>1. One(cs, T)
  BY DEF FlagFits
<1>2. ~Has(RemoveAt(cs, k), T)
  BY <1>1, Answering
<1>. QED
  BY <1>2 DEF FlagFits, One, Has

\* A save, or a confirmation, is sent while the flag for it is down.
LEMMA FlagsGoUp ==
    ASSUME NEW cs, NEW p, CallsOK(cs, p), NEW c, CallOK(c, p),
           NEW s, NEW d
    PROVE  /\ Tag(c) = "row" /\ FlagsFit(FALSE, d, cs, p) => FlagsFit(TRUE, d, Append(cs, c), p)
           /\ Tag(c) = "confirm" /\ p = "labels" /\ FlagsFit(s, FALSE, cs, p) =>
                  FlagsFit(s, TRUE, Append(cs, c), p)
           /\ Tag(c) = "confirm" /\ p # "labels" /\ FlagsFit(FALSE, d, cs, p) =>
                  FlagsFit(TRUE, d, Append(cs, c), p)
<1>1. \A T : Tag(c) \notin T => Same(Append(cs, c), cs, T)
  BY Sending
<1>2. CASE Tag(c) = "row" /\ FlagsFit(FALSE, d, cs, p)
  <2>1. CASE p = "labels"
    <3>1. FlagFits(FALSE, cs, Saves) /\ FlagFits(d, cs, {"confirm"})
      BY <1>2, <2>1 DEF FlagsFit
    <3>2. FlagFits(TRUE, Append(cs, c), Saves)
      <4>1. ~Has(cs, Saves) /\ Tag(c) \in Saves
        BY <1>2, <3>1 DEF FlagFits, Saves
      <4>. QED
        BY <4>1, FlagGoesUp
    <3>3. Same(Append(cs, c), cs, {"confirm"})
      BY <1>1, <1>2
    <3>. QED
      BY <1>2, <2>1, <3>1, <3>2, <3>3, FlagKept DEF FlagsFit
  <2>2. CASE p # "labels"
    <3>1. ~Has(cs, Saves \cup {"confirm"}) /\ Tag(c) \in Saves \cup {"confirm"}
      BY <1>2, <2>2 DEF FlagsFit, FlagFits, Saves
    <3>. QED
      BY <1>2, <2>2, <3>1, FlagGoesUp DEF FlagsFit
  <2>. QED
    BY <2>1, <2>2
<1>3. CASE Tag(c) = "confirm" /\ p = "labels" /\ FlagsFit(s, FALSE, cs, p)
  <2>1. FlagFits(s, cs, Saves) /\ FlagFits(FALSE, cs, {"confirm"})
    BY <1>3 DEF FlagsFit
  <2>2. FlagFits(TRUE, Append(cs, c), {"confirm"})
    <3>1. ~Has(cs, {"confirm"})
      BY <1>3, <2>1 DEF FlagFits
    <3>. QED
      BY <1>3, <3>1, FlagGoesUp
  <2>3. Same(Append(cs, c), cs, Saves)
    BY <1>1, <1>3 DEF Saves
  <2>. QED
    BY <1>3, <2>1, <2>2, <2>3, FlagKept DEF FlagsFit
<1>4. CASE Tag(c) = "confirm" /\ p # "labels" /\ FlagsFit(FALSE, d, cs, p)
  <2>1. ~Has(cs, Saves \cup {"confirm"}) /\ Tag(c) \in Saves \cup {"confirm"}
    BY <1>4 DEF FlagsFit, FlagFits
  <2>. QED
    BY <1>4, <2>1, FlagGoesUp DEF FlagsFit
<1>. QED
  BY <1>2, <1>3, <1>4

LEMMA FlagsGoDown ==
    ASSUME NEW cs, NEW p, CallsOK(cs, p), NEW k \in DOMAIN cs,
           NEW s, NEW d, FlagsFit(s, d, cs, p)
    PROVE  /\ Tag(cs[k]) \in Saves => FlagsFit(FALSE, d, RemoveAt(cs, k), p)
           /\ Tag(cs[k]) = "confirm" /\ p = "labels" => FlagsFit(s, FALSE, RemoveAt(cs, k), p)
           /\ Tag(cs[k]) = "confirm" /\ p # "labels" => FlagsFit(FALSE, d, RemoveAt(cs, k), p)
<1>1. \A T : Tag(cs[k]) \notin T => Same(RemoveAt(cs, k), cs, T)
  BY Answering
<1>2. CASE Tag(cs[k]) \in Saves
  <2>1. CASE p = "labels"
    <3>1. FlagFits(s, cs, Saves) /\ FlagFits(d, cs, {"confirm"})
      BY <2>1 DEF FlagsFit
    <3>2. FlagFits(FALSE, RemoveAt(cs, k), Saves)
      BY <1>2, <3>1, FlagGoesDown
    <3>3. Same(RemoveAt(cs, k), cs, {"confirm"})
      BY <1>1, <1>2 DEF Saves
    <3>4. Tag(cs[k]) # "confirm"
      BY <1>2 DEF Saves
    <3>. QED
      BY <2>1, <3>1, <3>2, <3>3, <3>4, FlagKept DEF FlagsFit
  <2>2. CASE p # "labels"
    BY <1>2, <2>2, FlagGoesDown DEF FlagsFit, Saves
  <2>. QED
    BY <2>1, <2>2
<1>3. CASE Tag(cs[k]) = "confirm"
  <2>1. CASE p = "labels"
    <3>1. FlagFits(s, cs, Saves) /\ FlagFits(d, cs, {"confirm"})
      BY <2>1 DEF FlagsFit
    <3>2. FlagFits(FALSE, RemoveAt(cs, k), {"confirm"})
      BY <1>3, <3>1, FlagGoesDown
    <3>3. Same(RemoveAt(cs, k), cs, Saves)
      BY <1>1, <1>3 DEF Saves
    <3>4. Tag(cs[k]) \notin Saves
      BY <1>3 DEF Saves
    <3>. QED
      BY <2>1, <3>1, <3>2, <3>3, <3>4, FlagKept DEF FlagsFit
  <2>2. CASE p # "labels"
    BY <1>3, <2>2, FlagGoesDown DEF FlagsFit, Saves
  <2>. QED
    BY <2>1, <2>2
<1>. QED
  BY <1>2, <1>3

Outside == FormTags \cup CountTags

LEMMA OutsideTags ==
    /\ Outside \in SUBSET Told /\ Outside \in SUBSET (Told \ {"row", "image"})
    /\ ListTags \in SUBSET (Told \ {"row", "image"})
    /\ {"confirm"} \in SUBSET (Told \ {"row", "image"})
    /\ "list" \notin Outside /\ "list" \notin EditTags
    /\ \A x \in EditTags : x \notin Outside /\ x \notin ListTags
    /\ Saves \subseteq EditTags /\ "confirm" \in EditTags
  BY DEF Outside, Told, FormTags, CountTags, EditTags, ListTags, Saves

\* What the API does with a request keeps the images that were reported.
LEMMA CarriedOut ==
    ASSUME CallsOK(calls, page), EditOK(calls, dialog, items, page),
           NEW k \in DOMAIN calls, NEW kind \in {"row", "image", "confirm"}, NEW ok \in BOOLEAN,
           Carried(k, kind, ok)
    PROVE  /\ calls[k].kind = kind /\ Tag(calls[k]) = kind
           /\ calls[k].about \in [item: Items, create: BOOLEAN, file: BOOLEAN]
           /\ calls[k].about.file => page = "products"
           /\ items' \in [Items -> {"absent", "bare", "pictured", "removed"}]
           /\ \A i \in dialog.pictured : items'[i] \in {"pictured", "removed"}
           /\ ok /\ kind = "image" => items'[calls[k].about.item] = "pictured"
<1>. DEFINE w == calls[k].about
            States == {"absent", "bare", "pictured", "removed"}
<1>1. /\ calls[k].kind = kind /\ Tag(calls[k]) = kind
      /\ w \in [item: Items, create: BOOLEAN, file: BOOLEAN] /\ (w.file => page = "products")
  BY TagsAreKinds DEF Carried, Answered, CallsOK, CallOK
<1>2. /\ items \in [Items -> States] /\ (dialog.pictured # {} => page = "products")
      /\ dialog.pictured \subseteq Items
      /\ \A i \in dialog.pictured : items[i] \in {"pictured", "removed"}
  BY DEF EditOK, DialogType
<1>3. PICK done \in {TRUE, ok} :
          /\ done => Accepts(kind, w)
          /\ items' = IF done THEN [items EXCEPT ![w.item] = After(kind, w)] ELSE items
  BY DEF Carried
<1>4. CASE ~done
  BY <1>1, <1>2, <1>3, <1>4
<1>5. CASE done
  <2>1. w.item \in Items /\ items[w.item] \in States
    BY <1>1, <1>2
  <2>2. After(kind, w) \in States
    BY <2>1 DEF After
  <2>3. items' = [items EXCEPT ![w.item] = After(kind, w)] /\ Accepts(kind, w)
    BY <1>3, <1>5
  <2>4. items' \in [Items -> States]
    BY <1>2, <2>2, <2>3
  <2>5. w.item \in dialog.pictured => After(kind, w) \in {"pictured", "removed"}
    BY <1>2, <2>1, <2>3 DEF Accepts, After, Present
  <2>6. \A i \in dialog.pictured : items'[i] \in {"pictured", "removed"}
    BY <1>2, <2>3, <2>5
  <2>7. kind = "image" => items'[w.item] = "pictured"
    BY <1>2, <2>1, <2>3 DEF After
  <2>. QED
    BY <1>1, <2>4, <2>6, <2>7
<1>. QED
  BY <1>4, <1>5

\* The rows are as they were, or as the API has made them.
LEMMA EditPageKept ==
    ASSUME NEW cs, FlagsFit(dialog'.saving, dialog'.deleting, cs, page),
           dialog' \in DialogType, items' \in [Items -> {"absent", "bare", "pictured", "removed"}],
           dialog'.pictured # {} => page = "products",
           \A i \in dialog'.pictured : items'[i] \in {"pictured", "removed"}
    PROVE  EditOK(cs, dialog', items', page)
  BY DEF EditOK

LEMMA DialogsAreUsed ==
    ASSUME page \in EditPages, CallsOK(calls, page), ListOK(calls, list),
           EditOK(calls, dialog, items, page), UseDialogs
    PROVE  /\ CallsOK(calls', page) /\ Same(calls', calls, Outside)
           /\ ListOK(calls', list') /\ EditOK(calls', dialog', items', page)
<1>. DEFINE Goal == /\ CallsOK(calls', page) /\ Same(calls', calls, Outside)
                    /\ ListOK(calls', list') /\ EditOK(calls', dialog', items', page)
            States == {"absent", "bare", "pictured", "removed"}
<1>0. /\ dialog \in DialogType /\ FlagsFit(dialog.saving, dialog.deleting, calls, page)
      /\ items \in [Items -> States] /\ (dialog.pictured # {} => page = "products")
      /\ \A i \in dialog.pictured : items[i] \in {"pictured", "removed"}
  BY DEF EditOK
<1>1. ASSUME NEW f \in Items \cup {None, New}, NEW c \in Items \cup {None},
             Show([dialog EXCEPT !.form = f, !.confirm = c])
      PROVE  Goal
  <2>1. /\ dialog' = [dialog EXCEPT !.form = f, !.confirm = c]
        /\ calls' = calls /\ list' = list /\ items' = items
    BY <1>1 DEF Show
  <2>2. /\ dialog' \in DialogType /\ dialog'.saving = dialog.saving
        /\ dialog'.deleting = dialog.deleting /\ dialog'.pictured = dialog.pictured
    BY <1>0, <2>1 DEF DialogType
  <2>3. EditOK(calls, dialog', items', page)
    BY <1>0, <2>1, <2>2, EditPageKept
  <2>. QED
    BY <2>1, <2>3, SameReflexive
<1>2. /\ dialog.form \in Items \cup {None, New} /\ dialog.confirm \in Items \cup {None}
      /\ \A f \in Items \cup {None, New} :
             [dialog EXCEPT !.form = f] = [dialog EXCEPT !.form = f, !.confirm = dialog.confirm]
      /\ \A c \in Items \cup {None} :
             [dialog EXCEPT !.confirm = c] = [dialog EXCEPT !.form = dialog.form, !.confirm = c]
  BY <1>0 DEF DialogType
<1>3. CASE OpenCreate
  BY <1>1, <1>2, <1>3 DEF OpenCreate
<1>4. CASE CloseDialog
  BY <1>1, <1>4 DEF CloseDialog
<1>5. ASSUME NEW i \in Items, OpenEdit(i) \/ Confirm(i)
      PROVE  Goal
  BY <1>1, <1>2, <1>5 DEF OpenEdit, Confirm
<1>6. ASSUME NEW kind \in {"row", "confirm"}, NEW i \in Items, NEW file \in BOOLEAN,
             file => page = "products", Sent(kind, i, file)
      PROVE  LET c == Call(kind, [item |-> i, create |-> dialog.form = New, file |-> file])
             IN  /\ CallOK(c, page) /\ Tag(c) = kind /\ calls' = Append(calls, c)
                 /\ CallsOK(calls', page) /\ Same(calls', calls, Outside)
                 /\ Same(calls', calls, ListTags)
  <2>. DEFINE c == Call(kind, [item |-> i, create |-> dialog.form = New, file |-> file])
  <2>1. CallOK(c, page) /\ Tag(c) = kind
    <3>1. (dialog.form = New) \in BOOLEAN
      OBVIOUS
    <3>. QED
      BY <1>6, <3>1 DEF CallOK, Call, Kinds, Tag
  <2>2. calls' = Append(calls, c)
    BY <1>6 DEF Sent
  <2>. HIDE DEF c
  <2>3. Tag(c) \notin Outside /\ Tag(c) \notin ListTags
    BY <2>1, OutsideTags DEF EditTags, Saves
  <2>4. CallsOK(calls', page) /\ Same(calls', calls, Outside) /\ Same(calls', calls, ListTags)
    BY <2>1, <2>2, <2>3, Sending
  <2>. QED
    BY <2>1, <2>2, <2>4 DEF c
<1>7. ASSUME NEW i \in Items, NEW file \in BOOLEAN, SubmitForm(i, file)
      PROVE  Goal
  <2>1. /\ ~dialog.saving /\ (file => page = "products") /\ Sent("row", i, file)
        /\ dialog' = [dialog EXCEPT !.saving = TRUE] /\ list' = list /\ items' = items
    BY <1>7 DEF SubmitForm
  <2>2. PICK c : /\ CallOK(c, page) /\ Tag(c) = "row" /\ calls' = Append(calls, c)
                 /\ CallsOK(calls', page) /\ Same(calls', calls, Outside)
                 /\ Same(calls', calls, ListTags)
    BY <1>6, <2>1
  <2>3. FlagsFit(TRUE, dialog.deleting, calls', page)
    <3>1. dialog.saving = FALSE
      BY <1>0, <2>1 DEF DialogType
    <3>2. FlagsFit(FALSE, dialog.deleting, calls, page)
      BY <1>0, <3>1
    <3>. QED
      BY <2>2, <3>2, FlagsGoUp
  <2>4. /\ dialog' \in DialogType /\ dialog'.saving = TRUE
        /\ dialog'.deleting = dialog.deleting /\ dialog'.pictured = dialog.pictured
    BY <1>0, <2>1 DEF DialogType
  <2>5. EditOK(calls', dialog', items', page)
    BY <1>0, <2>1, <2>3, <2>4, EditPageKept
  <2>. QED
    BY <2>1, <2>2, <2>5, ListKept
<1>8. CASE Execute
  <2>1. /\ dialog.confirm \in Items /\ dialog # ConfirmFlag(dialog, TRUE)
        /\ Sent("confirm", dialog.confirm, FALSE)
        /\ dialog' = ConfirmFlag(dialog, TRUE) /\ list' = list /\ items' = items
    BY <1>2, <1>8 DEF Execute
  <2>2. PICK c : /\ CallOK(c, page) /\ Tag(c) = "confirm" /\ calls' = Append(calls, c)
                 /\ CallsOK(calls', page) /\ Same(calls', calls, Outside)
                 /\ Same(calls', calls, ListTags)
    BY <1>6, <2>1
  <2>3. CASE page = "labels"
    <3>1. dialog' = [dialog EXCEPT !.deleting = TRUE] /\ dialog # [dialog EXCEPT !.deleting = TRUE]
      BY <2>1, <2>3 DEF ConfirmFlag
    <3>2. dialog.deleting = FALSE
      BY <1>0, <3>1 DEF DialogType
    <3>3. FlagsFit(dialog.saving, TRUE, calls', page)
      <4>1. FlagsFit(dialog.saving, FALSE, calls, page)
        BY <1>0, <3>2
      <4>. QED
        BY <2>2, <2>3, <4>1, FlagsGoUp
    <3>4. /\ dialog' \in DialogType /\ dialog'.saving = dialog.saving
          /\ dialog'.deleting = TRUE /\ dialog'.pictured = dialog.pictured
      BY <1>0, <3>1 DEF DialogType
    <3>. QED
      BY <1>0, <2>1, <2>2, <3>3, <3>4, EditPageKept, ListKept
  <2>4. CASE page # "labels"
    <3>1. dialog' = [dialog EXCEPT !.saving = TRUE] /\ dialog # [dialog EXCEPT !.saving = TRUE]
      BY <2>1, <2>4 DEF ConfirmFlag
    <3>2. dialog.saving = FALSE
      BY <1>0, <3>1 DEF DialogType
    <3>3. FlagsFit(TRUE, dialog.deleting, calls', page)
      <4>1. FlagsFit(FALSE, dialog.deleting, calls, page)
        BY <1>0, <3>2
      <4>. QED
        BY <2>2, <2>4, <4>1, FlagsGoUp
    <3>4. /\ dialog' \in DialogType /\ dialog'.saving = TRUE
          /\ dialog'.deleting = dialog.deleting /\ dialog'.pictured = dialog.pictured
      BY <1>0, <3>1 DEF DialogType
    <3>. QED
      BY <1>0, <2>1, <2>2, <3>3, <3>4, EditPageKept, ListKept
  <2>. QED
    BY <2>3, <2>4
<1>. QED
  BY <1>3, <1>4, <1>5, <1>7, <1>8 DEF UseDialogs

LEMMA EditsAreHeard ==
    ASSUME page \in EditPages, CallsOK(calls, page), ListOK(calls, list),
           EditOK(calls, dialog, items, page), HearEdits
    PROVE  /\ CallsOK(calls', page) /\ Same(calls', calls, Outside)
           /\ ListOK(calls', list') /\ EditOK(calls', dialog', items', page)
<1>. DEFINE Goal == /\ CallsOK(calls', page) /\ Same(calls', calls, Outside)
                    /\ ListOK(calls', list') /\ EditOK(calls', dialog', items', page)
            States == {"absent", "bare", "pictured", "removed"}
<1>0. /\ dialog \in DialogType /\ FlagsFit(dialog.saving, dialog.deleting, calls, page)
      /\ list \in ListType /\ (dialog.pictured # {} => page = "products")
  BY DEF EditOK, ListOK
<1>1. ASSUME NEW k \in DOMAIN calls, NEW kind \in {"row", "image", "confirm"}, NEW ok \in BOOLEAN,
             Carried(k, kind, ok)
      PROVE  /\ CallsOK(Rest(k), page) /\ Same(Rest(k), calls, Outside)
             /\ Same(Rest(k), calls, ListTags)
             /\ kind # "confirm" => FlagsFit(FALSE, dialog.deleting, Rest(k), page)
             /\ kind = "confirm" /\ page = "labels" => FlagsFit(dialog.saving, FALSE, Rest(k), page)
             /\ kind = "confirm" /\ page # "labels" => FlagsFit(FALSE, dialog.deleting, Rest(k), page)
             /\ calls[k].about \in [item: Items, create: BOOLEAN, file: BOOLEAN]
             /\ calls[k].about.file => page = "products"
             /\ items' \in [Items -> States]
             /\ \A i \in dialog.pictured : items'[i] \in {"pictured", "removed"}
             /\ ok /\ kind = "image" => items'[calls[k].about.item] = "pictured"
  <2>1. /\ Tag(calls[k]) = kind
        /\ calls[k].about \in [item: Items, create: BOOLEAN, file: BOOLEAN]
        /\ calls[k].about.file => page = "products"
        /\ items' \in [Items -> States]
        /\ \A i \in dialog.pictured : items'[i] \in {"pictured", "removed"}
        /\ ok /\ kind = "image" => items'[calls[k].about.item] = "pictured"
    BY <1>1, CarriedOut
  <2>2. kind \in EditTags /\ (kind # "confirm" => kind \in Saves)
    BY DEF EditTags, Saves
  <2>3. kind \notin Outside /\ kind \notin ListTags
    BY <2>2, OutsideTags
  <2>4. CallsOK(Rest(k), page) /\ Same(Rest(k), calls, Outside) /\ Same(Rest(k), calls, ListTags)
    BY <2>1, <2>3, Answering DEF Rest
  <2>5. /\ kind # "confirm" => FlagsFit(FALSE, dialog.deleting, Rest(k), page)
        /\ kind = "confirm" /\ page = "labels" => FlagsFit(dialog.saving, FALSE, Rest(k), page)
        /\ kind = "confirm" /\ page # "labels" => FlagsFit(FALSE, dialog.deleting, Rest(k), page)
    BY <1>0, <2>1, <2>2, FlagsGoDown DEF Rest
  <2>. QED
    BY <2>1, <2>4, <2>5
<1>2. ASSUME NEW cs, CallsOK(cs, page), Same(cs, calls, Outside), Load(list, cs),
             NEW s, NEW d, FlagsFit(s, d, cs, page)
      PROVE  /\ CallsOK(calls', page) /\ Same(calls', calls, Outside) /\ ListOK(calls', list')
             /\ FlagsFit(s, d, calls', page)
  <2>1. calls' = Ask(list, cs) /\ list' = Loading(list)
    BY <1>2 DEF Load
  <2>2. /\ CallsOK(calls', page) /\ ListOK(calls', list')
        /\ \A T : "list" \notin T => Same(calls', cs, T)
    BY <1>0, <1>2, <2>1, Asking
  <2>3. Same(calls', cs, Outside) /\ Same(calls', cs, EditTags)
    BY <2>2, OutsideTags
  <2>4. Same(calls', calls, Outside)
    BY <1>2, <2>3, SameTransitive
  <2>5. FlagsFit(s, d, calls', page)
    BY <1>2, <2>3, FlagsKept
  <2>. QED
    BY <2>2, <2>4, <2>5
<1>3. ASSUME NEW k \in DOMAIN calls, HearRow(k)
      PROVE  Goal
  <2>1. /\ Carried(k, "row", TRUE) /\ calls' = [calls EXCEPT ![k].kind = "image"]
        /\ list' = list /\ dialog' = dialog
    BY <1>3 DEF HearRow
  <2>2. calls[k].kind = "row"
    BY <2>1 DEF Carried, Answered
  <2>3. /\ CallsOK(calls', page) /\ Same(calls', calls, Told \ {"row", "image"})
        /\ \A T : "row" \in T /\ "image" \in T => (Has(calls', T) <=> Has(calls, T))
        /\ \A T : "row" \in T /\ "image" \in T => (One(calls, T) => One(calls', T))
    BY <2>1, <2>2, Turning
  <2>4. Same(calls', calls, Outside) /\ Same(calls', calls, ListTags) /\ Same(calls', calls, {"confirm"})
    BY <2>3, OutsideTags, SameFewer
  <2>5. ASSUME NEW T, "row" \in T, "image" \in T, NEW flag, FlagFits(flag, calls, T)
        PROVE  FlagFits(flag, calls', T)
    BY <2>3, <2>5 DEF FlagFits
  <2>6. FlagsFit(dialog.saving, dialog.deleting, calls', page)
    <3>1. "row" \in Saves /\ "image" \in Saves
      BY DEF Saves
    <3>2. CASE page = "labels"
      BY <1>0, <2>4, <2>5, <3>1, <3>2, FlagKept DEF FlagsFit
    <3>3. CASE page # "labels"
      BY <1>0, <2>5, <3>1, <3>3 DEF FlagsFit
    <3>. QED
      BY <3>2, <3>3
  <2>7. EditOK(calls', dialog', items', page)
    BY <1>0, <1>1, <2>1, <2>6, EditPageKept
  <2>. QED
    BY <2>1, <2>3, <2>4, <2>7, ListKept
<1>4. ASSUME NEW k \in DOMAIN calls, HearSaved(k)
      PROVE  Goal
  <2>. DEFINE more == {i \in {calls[k].about.item} : calls[k].about.file}
  <2>1. /\ \/ Carried(k, "row", TRUE) /\ ~calls[k].about.file
           \/ Carried(k, "image", TRUE)
        /\ dialog' = [dialog EXCEPT !.saving = FALSE, !.form = None, !.pictured = @ \cup more]
        /\ Load(list, Rest(k))
    BY <1>4 DEF HearSaved, HasImage
  <2>2. /\ CallsOK(Rest(k), page) /\ Same(Rest(k), calls, Outside)
        /\ FlagsFit(FALSE, dialog.deleting, Rest(k), page)
        /\ calls[k].about \in [item: Items, create: BOOLEAN, file: BOOLEAN]
        /\ calls[k].about.file => page = "products"
        /\ items' \in [Items -> States]
        /\ \A i \in dialog.pictured : items'[i] \in {"pictured", "removed"}
    BY <1>1, <2>1
  <2>3. \A i \in more : items'[i] = "pictured"
    BY <1>1, <2>1
  <2>4. more \in SUBSET Items /\ (more # {} => page = "products")
    BY <2>2
  <2>. HIDE DEF more
  <2>5. /\ CallsOK(calls', page) /\ Same(calls', calls, Outside) /\ ListOK(calls', list')
        /\ FlagsFit(FALSE, dialog.deleting, calls', page)
    BY <1>2, <2>1, <2>2
  <2>6. /\ dialog' \in DialogType /\ dialog'.saving = FALSE
        /\ dialog'.deleting = dialog.deleting /\ dialog'.pictured = dialog.pictured \cup more
    BY <1>0, <2>1, <2>4 DEF DialogType
  <2>7. EditOK(calls', dialog', items', page)
    BY <1>0, <2>2, <2>3, <2>4, <2>5, <2>6, EditPageKept
  <2>. QED
    BY <2>5, <2>7
<1>5. ASSUME NEW k \in DOMAIN calls, HearSaveError(k)
      PROVE  Goal
  <2>1. PICK kind \in {"row", "image"} : Carried(k, kind, FALSE)
    BY <1>5 DEF HearSaveError
  <2>2. dialog' = [dialog EXCEPT !.saving = FALSE] /\ calls' = Rest(k) /\ list' = list
    BY <1>5 DEF HearSaveError
  <2>3. /\ CallsOK(calls', page) /\ Same(calls', calls, Outside) /\ Same(calls', calls, ListTags)
        /\ FlagsFit(FALSE, dialog.deleting, calls', page)
        /\ items' \in [Items -> States]
        /\ \A i \in dialog.pictured : items'[i] \in {"pictured", "removed"}
    BY <1>1, <2>1, <2>2
  <2>4. /\ dialog' \in DialogType /\ dialog'.saving = FALSE
        /\ dialog'.deleting = dialog.deleting /\ dialog'.pictured = dialog.pictured
    BY <1>0, <2>2 DEF DialogType
  <2>5. EditOK(calls', dialog', items', page)
    BY <1>0, <2>3, <2>4, EditPageKept
  <2>. QED
    BY <2>2, <2>3, <2>5, ListKept
<1>6. ASSUME NEW on \in BOOLEAN
      PROVE  /\ ConfirmFlag(dialog, on) \in DialogType
             /\ ConfirmFlag(dialog, on).pictured = dialog.pictured
             /\ page = "labels" => /\ ConfirmFlag(dialog, on).saving = dialog.saving
                                   /\ ConfirmFlag(dialog, on).deleting = on
             /\ page # "labels" => /\ ConfirmFlag(dialog, on).saving = on
                                   /\ ConfirmFlag(dialog, on).deleting = dialog.deleting
  BY <1>0 DEF ConfirmFlag, DialogType
<1>7. ASSUME NEW k \in DOMAIN calls, NEW ok \in BOOLEAN, Carried(k, "confirm", ok),
             NEW c \in Items \cup {None}, NEW cs,
             dialog' = [ConfirmFlag(dialog, FALSE) EXCEPT !.confirm = c],
             \A s, d : FlagsFit(s, d, Rest(k), page) => FlagsFit(s, d, cs, page)
      PROVE  EditOK(cs, dialog', items', page)
  <2>. DEFINE b == ConfirmFlag(dialog, FALSE)
  <2>1. b \in DialogType /\ b.pictured = dialog.pictured
    BY <1>6
  <2>2. FlagsFit(b.saving, b.deleting, Rest(k), page)
    BY <1>1, <1>6, <1>7
  <2>. HIDE DEF b
  <2>3. /\ dialog' \in DialogType /\ dialog'.saving = b.saving
        /\ dialog'.deleting = b.deleting /\ dialog'.pictured = b.pictured
    BY <1>7, <2>1 DEF b, DialogType
  <2>4. /\ items' \in [Items -> States]
        /\ \A i \in dialog.pictured : items'[i] \in {"pictured", "removed"}
    BY <1>1, <1>7
  <2>. QED
    BY <1>0, <1>7, <2>1, <2>2, <2>3, <2>4, EditPageKept
<1>8. ASSUME NEW k \in DOMAIN calls, HearConfirmed(k)
      PROVE  Goal
  <2>1. /\ Carried(k, "confirm", TRUE) /\ Load(list, Rest(k))
        /\ dialog' = [ConfirmFlag(dialog, FALSE) EXCEPT !.confirm = None]
    BY <1>8 DEF HearConfirmed
  <2>2. CallsOK(Rest(k), page) /\ Same(Rest(k), calls, Outside)
    BY <1>1, <2>1
  <2>3. \A s, d : FlagsFit(s, d, Rest(k), page) => FlagsFit(s, d, calls', page)
    BY <1>2, <2>1, <2>2
  <2>4. EditOK(calls', dialog', items', page)
    BY <1>7, <2>1, <2>3
  <2>5. \E s, d : FlagsFit(s, d, Rest(k), page)
    BY <1>1, <2>1
  <2>6. CallsOK(calls', page) /\ Same(calls', calls, Outside) /\ ListOK(calls', list')
    BY <1>2, <2>1, <2>2, <2>5
  <2>. QED
    BY <2>4, <2>6
<1>9. ASSUME NEW k \in DOMAIN calls, HearConfirmError(k)
      PROVE  Goal
  <2>1. /\ Carried(k, "confirm", FALSE) /\ calls' = Rest(k) /\ list' = list
        /\ dialog' = [ConfirmFlag(dialog, FALSE) EXCEPT
                          !.confirm = IF page = "products" THEN @ ELSE None]
    BY <1>9 DEF HearConfirmError
  <2>2. \E c \in Items \cup {None} : dialog' = [ConfirmFlag(dialog, FALSE) EXCEPT !.confirm = c]
    <3>1. ConfirmFlag(dialog, FALSE).confirm \in Items \cup {None}
      BY <1>6 DEF DialogType
    <3>. QED
      BY <2>1, <3>1
  <2>3. EditOK(calls', dialog', items', page)
    BY <1>7, <2>1, <2>2
  <2>4. CallsOK(calls', page) /\ Same(calls', calls, Outside) /\ Same(calls', calls, ListTags)
    BY <1>1, <2>1
  <2>. QED
    BY <2>1, <2>3, <2>4, ListKept
<1>. QED
  BY <1>3, <1>4, <1>5, <1>8, <1>9 DEF HearEdits

-----------------------------------------------------------------------------
(* The pages *)

LEMMA PagesKept ==
    ASSUME IInv, page' = page, CallsOK(calls', page), NEW T, Same(calls', calls, T),
           FormTags \subseteq T => form' = form /\ applied' = applied,
           CountTags \subseteq T => detail' = detail,
           EditTags \subseteq T => dialog' = dialog /\ items' = items
    PROVE  /\ FormTags \subseteq T => FormOK(calls', form', applied', page')
           /\ CountTags \subseteq T => CountOK(calls', detail')
           /\ EditTags \subseteq T => EditOK(calls', dialog', items', page')
<1>1. ASSUME FormTags \subseteq T
      PROVE  FormOK(calls', form', applied', page')
  <2>1. Same(calls', calls, FormTags) /\ form' = form /\ applied' = applied
    BY <1>1, SameFewer
  <2>2. FormOK(calls', form', applied', page')
    BY <2>1, FormKept DEF IInv
  <2>. QED
    BY <2>1, <2>2 DEF IInv
<1>2. ASSUME CountTags \subseteq T
      PROVE  CountOK(calls', detail')
  <2>1. Same(calls', calls, CountTags) /\ detail' = detail
    BY <1>2, SameFewer
  <2>2. CountOK(calls', detail')
    BY <2>1, CountKept DEF IInv
  <2>. QED
    BY <2>1, <2>2 DEF IInv
<1>3. ASSUME EditTags \subseteq T
      PROVE  EditOK(calls', dialog', items', page')
  <2>1. Same(calls', calls, EditTags) /\ dialog' = dialog /\ items' = items
    BY <1>3, SameFewer
  <2>. QED
    BY <2>1, EditKept DEF IInv
<1>. QED
  BY <1>1, <1>2, <1>3

LEMMA InitIsSound == Init => IInv
<1>. SUFFICES ASSUME Init PROVE IInv
  OBVIOUS
<1>. DEFINE l == ClosedList(CHOOSE f \in Filters : TRUE, CHOOSE t \in Texts : TRUE)
            none == <<>>
<1>1. list = Loading(l) /\ calls = Ask(l, none)
  BY DEF Init, ListInit
<1>2. l \in ListType
  <2>1. (CHOOSE f \in Filters : TRUE) \in Filters /\ (CHOOSE t \in Texts : TRUE) \in Texts
    BY ListsHaveFilters
  <2>2. NoRows \in QueryType
    BY DEF NoRows, QueryType
  <2>. QED
    BY <2>1, <2>2 DEF ClosedList, ListType
<1>3. CallsOK(none, page) /\ DOMAIN none = {}
  <2>1. none \in Seq({}) /\ Len(none) = 0
    BY EmptySeq
  <2>3. DOMAIN none = {}
    BY <2>1
  <2>2. \A k \in 1..Len(none) : CallOK(none[k], page)
    BY <2>1
  <2>. QED
    BY <2>1, <2>2, <2>3, SequenceOfCalls
<1>. HIDE DEF l, none
<1>4. /\ CallsOK(calls, page) /\ ListOK(calls, list)
      /\ \A T : "list" \notin T => Same(calls, none, T)
  BY <1>1, <1>2, <1>3, Asking
<1>5. ASSUME NEW T, "list" \notin T
      PROVE  ~Has(calls, T) /\ One(calls, T)
  <2>1. ~Has(none, T) /\ One(none, T)
    BY <1>3 DEF Has, One
  <2>. QED
    BY <1>4, <1>5, <2>1, SameTags
<1>6. FormOK(calls, form, applied, page) /\ applied = {}
  <2>1. form = NewForm /\ applied = {}
    BY DEF Init, FormInit
  <2>2. NewForm \in FormType
    <3>1. <<FALSE>> \in Seq(BOOLEAN) /\ <<FALSE>> # <<>>
      OBVIOUS
    <3>. QED
      BY <3>1 DEF NewForm, FormType
  <2>3. ~NewForm.saving /\ ~NewForm.succeeded /\ ~NewForm.loadingEntries
    BY DEF NewForm
  <2>. QED
    BY <1>5, <2>1, <2>2, <2>3, NoMoreAwaited
<1>7. CountOK(calls, detail)
  BY DEF Init, CountInit, NewDetail, CountOK, DetailType
<1>8. EditOK(calls, dialog, items, page)
  <2>1. /\ dialog = ClosedDialogs /\ items \in [Items -> {"absent", "bare", "pictured", "removed"}]
    BY DEF Init, EditInit
  <2>2. /\ ClosedDialogs \in DialogType /\ ClosedDialogs.pictured = {}
        /\ ~ClosedDialogs.saving /\ ~ClosedDialogs.deleting
    BY DEF ClosedDialogs, DialogType
  <2>3. "list" \notin Saves /\ "list" \notin Saves \cup {"confirm"}
    BY DEF Saves
  <2>4. FlagsFit(dialog.saving, dialog.deleting, calls, page)
    BY <1>5, <2>1, <2>2, <2>3 DEF FlagsFit, FlagFits
  <2>. QED
    BY <2>1, <2>2, <2>4 DEF EditOK
<1>. QED
  BY <1>4, <1>6, <1>7, <1>8 DEF IInv

LEMMA StepsAreSound == IInv /\ [Next]_vars => IInv'
<1>. SUFFICES ASSUME IInv, [Next]_vars PROVE IInv'
  OBVIOUS
<1>0. /\ CallsOK(calls, page) /\ ListOK(calls, list) /\ FormOK(calls, form, applied, page)
      /\ CountOK(calls, detail) /\ EditOK(calls, dialog, items, page)
  BY DEF IInv
<1>1. ASSUME CallsOK(calls', page'), ListOK(calls', list'), FormOK(calls', form', applied', page'),
             CountOK(calls', detail'), EditOK(calls', dialog', items', page')
      PROVE  IInv'
  BY <1>1 DEF IInv
<1>2. /\ FormTags \subseteq Told \ {"list"} /\ CountTags \subseteq Told \ {"list"}
      /\ EditTags \subseteq Told \ {"list"}
      /\ CountTags \subseteq CountTags \cup EditTags /\ EditTags \subseteq CountTags \cup EditTags
      /\ ~(FormTags \subseteq CountTags \cup EditTags)
      /\ FormTags \subseteq OtherTags /\ EditTags \subseteq OtherTags /\ ~(CountTags \subseteq OtherTags)
      /\ FormTags \subseteq Outside /\ CountTags \subseteq Outside /\ ~(EditTags \subseteq Outside)
  BY DEF Told, Outside, OtherTags, FormTags, CountTags, EditTags, Saves
<1>3. ASSUME UNCHANGED <<page, formVars, detail, editVars>>,
             CallsOK(calls', page), Same(calls', calls, Told \ {"list"}), ListOK(calls', list')
      PROVE  IInv'
  <2>1. /\ page' = page /\ form' = form /\ applied' = applied /\ detail' = detail
        /\ dialog' = dialog /\ items' = items
    BY <1>3 DEF formVars, editVars
  <2>2. /\ FormOK(calls', form', applied', page')
        /\ CountOK(calls', detail')
        /\ EditOK(calls', dialog', items', page')
    BY <1>2, <1>3, <2>1, PagesKept
  <2>. QED
    BY <1>1, <1>3, <2>1, <2>2
<1>4. CASE UseList
  <2>1. /\ CallsOK(calls', page) /\ Same(calls', calls, Told \ {"list"})
        /\ ListOK(calls', list')
    BY <1>0, <1>4, ListSteps DEF UseList
  <2>. QED
    BY <1>3, <1>4, <2>1 DEF UseList
<1>5. CASE KeepList
  <2>1. /\ CallsOK(calls', page) /\ Same(calls', calls, Told \ {"list"})
        /\ ListOK(calls', list')
    BY <1>0, <1>5, ListSteps DEF KeepList
  <2>. QED
    BY <1>3, <1>5, <2>1 DEF KeepList
<1>6. CASE FormNext /\ UNCHANGED <<detail, editVars>>
  <2>1. /\ page' = page /\ detail' = detail /\ dialog' = dialog /\ items' = items
    BY <1>6 DEF FormNext, editVars
  <2>2. /\ CallsOK(calls', page) /\ Same(calls', calls, CountTags \cup EditTags)
        /\ ListOK(calls', list') /\ FormOK(calls', form', applied', page)
    BY <1>0, <1>6, FormSteps DEF FormNext
  <2>3. /\ CountOK(calls', detail')
        /\ EditOK(calls', dialog', items', page')
    BY <1>2, <2>1, <2>2, PagesKept
  <2>. QED
    BY <1>1, <2>1, <2>2, <2>3
<1>7. CASE CountNext /\ UNCHANGED <<formVars, editVars>>
  <2>1. /\ page' = page /\ form' = form /\ applied' = applied /\ dialog' = dialog /\ items' = items
    BY <1>7 DEF CountNext, formVars, editVars
  <2>2. /\ CallsOK(calls', page) /\ Same(calls', calls, OtherTags)
        /\ ListOK(calls', list') /\ CountOK(calls', detail')
    <3>1. CASE UseCounts
      BY <1>0, <3>1, CountsAreUsed
    <3>2. CASE HearCountCalls
      BY <1>0, <3>2, CountsAreHeard
    <3>. QED
      BY <1>7, <3>1, <3>2 DEF CountNext
  <2>3. /\ FormOK(calls', form', applied', page')
        /\ EditOK(calls', dialog', items', page')
    BY <1>2, <2>1, <2>2, PagesKept
  <2>. QED
    BY <1>1, <2>1, <2>2, <2>3
<1>8. CASE EditNext /\ UNCHANGED <<pick, options, formVars, detail>>
  <2>1. /\ page' = page /\ form' = form /\ applied' = applied /\ detail' = detail
    BY <1>8 DEF EditNext, formVars
  <2>2. /\ CallsOK(calls', page) /\ Same(calls', calls, Outside)
        /\ ListOK(calls', list') /\ EditOK(calls', dialog', items', page)
    BY <1>0, <1>8, DialogsAreUsed, EditsAreHeard DEF EditNext
  <2>3. /\ FormOK(calls', form', applied', page')
        /\ CountOK(calls', detail')
    BY <1>2, <2>1, <2>2, PagesKept
  <2>. QED
    BY <1>1, <2>1, <2>2, <2>3
<1>9. CASE UNCHANGED vars
  <2>1. Same(calls', calls, Told \ {"list"}) /\ calls' = calls /\ list' = list /\ page' = page
    BY <1>9, SameReflexive DEF vars
  <2>. QED
    BY <1>0, <1>3, <1>9, <2>1 DEF vars, formVars, editVars
<1>. QED
  BY <1>4, <1>5, <1>6, <1>7, <1>8, <1>9 DEF Next

-----------------------------------------------------------------------------
(* Theorems *)

\* Whatever is in flight, answered in whatever order: each flag of a page
\* agrees with the calls that will lower it, the latest query of the list is
\* the one its filters ask for, and each line of the last submission is
\* registered or awaited.
THEOREM PagesInvariance == Spec => []IInv
<1>1. Init => IInv
  BY InitIsSound
<1>2. IInv /\ [Next]_vars => IInv'
  BY StepsAreSound
<1>. QED
  BY <1>1, <1>2, PTL DEF Spec

\* Each spinner, and each disabled button, waits for a request that is still
\* in flight, on every page and for every number of requests.
THEOREM SpinnersAreAnswered == Spec => []WaitingEnds
<1>1. IInv => WaitingEnds
  <2>. SUFFICES ASSUME IInv PROVE WaitingEnds
    OBVIOUS
  <2>1. /\ list.loading => Has(calls, {"list"})
        /\ detail.loading => Has(calls, {"detail"})
        /\ form.loadingEntries => Has(calls, {"entries"})
        /\ detail.saving => Has(calls, {"write"})
    BY DEF IInv, ListOK, FormOK, CountOK
  <2>2. \A kind \in {"list", "detail", "entries"} : Has(calls, {kind}) => Waits(kind)
    <3>1. \A k \in DOMAIN calls, kind \in {"list", "detail", "entries"} :
              Tag(calls[k]) = kind => calls[k].kind = kind
      BY TagsAreKinds
    <3>. QED
      BY <3>1 DEF Has, Waits
  <2>3. SpinnersEnd
    <3>1. /\ Has(calls, {"list"}) => Waits("list")
          /\ Has(calls, {"detail"}) => Waits("detail")
          /\ Has(calls, {"entries"}) => Waits("entries")
      BY <2>2
    <3>. QED
      BY <2>1, <3>1 DEF SpinnersEnd
  <2>4. SavingEnds
    <3>1. \A k \in DOMAIN calls :
              Tag(calls[k]) = "write" => calls[k].kind = "write" /\ calls[k].about.op # "updateLine"
      BY DEF Tag
    <3>2. Has(calls, {"write"}) =>
              \E k \in DOMAIN calls : calls[k].kind = "write" /\ calls[k].about.op # "updateLine"
      BY <3>1 DEF Has
    <3>. QED
      BY <2>1, <3>2 DEF SavingEnds
  <2>. QED
    BY <2>3, <2>4 DEF WaitingEnds
<1>. QED
  BY <1>1, PagesInvariance, PTL

\* Rows that answer the last query are of the filter and the page on the
\* screen, also while a text is due, and of the text let through last, unless
\* they were asked for before it was let through.  An overtaken answer, after
\* which the rows shown are not those of the last query, is not excluded.
THEOREM ListsFollow == Spec => []ListFollowsFilters
<1>1. IInv => ListFollowsFilters
  BY DEF IInv, ListOK, LatestIsCurrent, Current, ListFollowsFilters
<1>. QED
  BY <1>1, PagesInvariance, PTL

\* No form is sent while an earlier submission of it is awaited, and no button
\* of a dialog while the write it stands for is.
THEOREM NothingIsSentTwice == Spec => []WritesAreSingle
<1>1. IInv => WritesAreSingle
  <2>. SUFFICES ASSUME IInv PROVE WritesAreSingle
    OBVIOUS
  <2>0. \A k \in DOMAIN calls : calls[k].kind \in Kinds
    BY DEF IInv, CallsOK, CallOK
  <2>1. OneSubmission
    <3>1. \A k \in DOMAIN calls : k \in Awaited(calls) <=> Tag(calls[k]) = "awaited"
      BY <2>0 DEF Awaited, Tag, Kinds
    <3>2. Awaited(calls) \subseteq DOMAIN calls
      BY DEF Awaited
    <3>3. form.saving <=> Awaited(calls) # {}
      BY <3>1, <3>2 DEF IInv, FormOK, PostsOK, Has
    <3>4. \A k \in Awaited(calls) : calls[k].about.submission = form.submission
      BY <3>1, <3>2 DEF IInv, FormOK, PostsOK
    <3>. QED
      BY <3>3, <3>4 DEF OneSubmission
  <2>2. OneWriteEach
    <3>. DEFINE FitsOne(flag, kinds) ==
                    IF flag THEN \E k \in Pending(kinds) : Pending(kinds) = {k} ELSE Pending(kinds) = {}
    <3>1. \A k \in DOMAIN calls, kinds \in SUBSET {"row", "image", "confirm"} :
              k \in Pending(kinds) <=> Tag(calls[k]) \in kinds
      BY <2>0 DEF Pending, Tag, Kinds
    <3>2. \A kinds : Pending(kinds) \subseteq DOMAIN calls
      BY DEF Pending
    <3>3. ASSUME NEW flag, NEW kinds \in SUBSET {"row", "image", "confirm"}, FlagFits(flag, calls, kinds)
          PROVE  FitsOne(flag, kinds)
      <4>1. Has(calls, kinds) <=> Pending(kinds) # {}
        BY <3>1, <3>2 DEF Has
      <4>2. \A j, k \in Pending(kinds) : j = k
        BY <3>1, <3>2, <3>3 DEF FlagFits, One
      <4>. QED
        BY <3>3, <4>1, <4>2 DEF FlagFits
    <3>4. FlagsFit(dialog.saving, dialog.deleting, calls, page)
      BY DEF IInv, EditOK
    <3>5. CASE page = "labels"
      <4>1. FitsOne(dialog.saving, {"row", "image"}) /\ FitsOne(dialog.deleting, {"confirm"})
        BY <3>3, <3>4, <3>5 DEF FlagsFit, Saves
      <4>. QED
        BY <3>5, <4>1 DEF OneWriteEach
    <3>6. CASE page # "labels"
      <4>1. FitsOne(dialog.saving, {"row", "image"} \cup {"confirm"})
        BY <3>3, <3>4, <3>6 DEF FlagsFit, Saves
      <4>. QED
        BY <3>6, <4>1 DEF OneWriteEach
    <3>. QED
      BY <3>5, <3>6
  <2>. QED
    BY <2>1, <2>2 DEF WritesAreSingle
<1>. QED
  BY <1>1, PagesInvariance, PTL

\* A form that reports success has each of its lines registered, and a product
\* that was reported as saved with an image has one, unless it was removed.
THEOREM SuccessIsTrue == Spec => []SuccessIsWhole
<1>1. IInv => SuccessIsWhole
  BY DEF IInv, FormOK, PostsOK, EditOK, SuccessIsWhole, SuccessMeansApplied, SavesAreWhole
<1>. QED
  BY <1>1, PagesInvariance, PTL

-----------------------------------------------------------------------------
(* The places of a form *)

Records ==
    /\ pick = [wh |-> pick.wh, zone |-> pick.zone, aisle |-> pick.aisle, loc |-> pick.loc]
    /\ options = [zones |-> options.zones, aisles |-> options.aisles, locs |-> options.locs]

\* The choices and the options are records, only a transfer has an origin, and
\* a form is shown on a page that has one.
Shaped ==
    /\ Records
    /\ form.from # None => page = "movements"
    /\ form.shown => page \in FormPages \cup {"movements"}

Choosing ==
    \/ \E z \in Zones \cup {None} : OnZoneChange(z)
    \/ \E a \in Aisles \cup {None} : OnAisleChange(a)
    \/ \E l \in Locations \cup {None} : OnLocationChange(l)

\* What a step of a form does to its places.
KeepsPlaces == UNCHANGED <<pick, options>> /\ form'.from = form.from
DropsPlaces == pick' = NoPick /\ options' = NoOptions /\ form'.from = None
Chooses == Choosing /\ form'.from = form.from
Roots ==
    \E w : OnWarehouse(w, calls) /\ (form'.from # None => w = WarehouseOf(form'.from))
Lists == \E k \in DOMAIN calls, ok \in BOOLEAN : HearOptions(k, ok) /\ form'.from = form.from

LEMMA FormMoves ==
    ASSUME form \in FormType, form.from # None => page = "movements", FillForm \/ HearForm
    PROVE  /\ KeepsPlaces \/ DropsPlaces \/ Chooses \/ Roots \/ Lists
           /\ form'.from # None => page = "movements"
           /\ form'.shown => form.shown \/ page \in FormPages \cup {"movements"}
<1>. DEFINE Goal == /\ KeepsPlaces \/ DropsPlaces \/ Chooses \/ Roots \/ Lists
                    /\ form'.from # None => page = "movements"
                    /\ form'.shown => form.shown \/ page \in FormPages \cup {"movements"}
<1>1. ASSUME UNCHANGED <<pick, options>>, form'.from = form.from,
             form'.shown => form.shown \/ page \in FormPages \cup {"movements"}
      PROVE  Goal
  BY <1>1 DEF KeepsPlaces
<1>2. ASSUME pick' = NoPick, options' = NoOptions, form'.from = None, form'.shown => form.shown
      PROVE  Goal
  BY <1>2 DEF DropsPlaces
<1>3. /\ Closed(form).from = None /\ ~Closed(form).shown
      /\ [Closed(form) EXCEPT !.succeeded = FALSE].from = None
      /\ ~[Closed(form) EXCEPT !.succeeded = FALSE].shown
      /\ [Closed(form) EXCEPT !.saving = FALSE].from = None
      /\ ~[Closed(form) EXCEPT !.saving = FALSE].shown
  BY DEF Closed, NewForm
<1>4. CASE OpenModal
  <2>1. form' = [form EXCEPT !.shown = TRUE] /\ UNCHANGED <<pick, options>>
        /\ page \in FormPages \cup {"movements"}
    BY <1>4 DEF OpenModal
  <2>. QED
    BY <1>1, <2>1 DEF FormType
<1>5. CASE CloseModal
  BY <1>2, <1>3, <1>5 DEF CloseModal, CloseForm
<1>6. ASSUME NEW lines, Rewrite(lines)
      PROVE  Goal
  <2>1. form' = [form EXCEPT !.lines = lines] /\ UNCHANGED <<pick, options>>
    BY <1>6 DEF Rewrite
  <2>. QED
    BY <1>1, <2>1 DEF FormType
<1>7. CASE AddLine \/ \E i \in DOMAIN form.lines : RemoveLine(i) \/ FillLine(i)
  BY <1>6, <1>7 DEF AddLine, RemoveLine, FillLine
<1>8. CASE OnPlaceChange
  BY <1>8 DEF OnPlaceChange, PickPlace, Chooses, Choosing, formVars
<1>9. CASE Submit
  <2>. DEFINE n == IF page = "movements" THEN 1 ELSE Len(form.lines)
              x == form.submission + 1
  <2>1. form' = [form EXCEPT !.saving = TRUE, !.submission = x, !.sent = n]
        /\ UNCHANGED <<pick, options>>
    BY <1>9 DEF Submit
  <2>. HIDE DEF n, x
  <2>. QED
    BY <1>1, <2>1 DEF FormType
<1>10. ASSUME NEW w \in Warehouses \cup {None}, OnWarehouseChange(w)
       PROVE  Goal
  <2>1. /\ page \in FormPages /\ OnWarehouse(w, calls) /\ form' = form
    BY <1>10 DEF OnWarehouseChange, formVars
  <2>2. form.from = None
    BY <2>1 DEF FormPages
  <2>. QED
    BY <2>1, <2>2 DEF Roots
<1>11. ASSUME NEW p \in Products \cup {None}, OnProductChange(p)
       PROVE  Goal
  <2>1. /\ form' = [form EXCEPT !.product = p, !.entries = {}, !.from = None,
                                !.loadingEntries = (p # None)]
        /\ pick' = NoPick /\ options' = NoOptions
    BY <1>11 DEF OnProductChange
  <2>2. form'.from = None /\ form'.shown = form.shown
    BY <2>1 DEF FormType
  <2>. QED
    BY <1>2, <2>1, <2>2
<1>12. ASSUME NEW e \in Locations \cup {None}, OnOriginChange(e)
       PROVE  Goal
  <2>1. /\ page = "movements" /\ form' = [form EXCEPT !.from = e]
        /\ OnWarehouse(IF e = None THEN None ELSE WarehouseOf(e), calls)
    BY <1>12 DEF OnOriginChange
  <2>2. form'.from = e /\ form'.shown = form.shown
    BY <2>1 DEF FormType
  <2>. QED
    BY <2>1, <2>2 DEF Roots
<1>13. ASSUME NEW k \in DOMAIN calls, NEW ok \in BOOLEAN, HearOptions(k, ok), UNCHANGED formVars
       PROVE  Goal
  BY <1>13 DEF Lists, formVars
<1>14. ASSUME NEW k \in DOMAIN calls, NEW ok \in BOOLEAN, HearEntries(k, ok)
       PROVE  Goal
  <2>. DEFINE x == IF ok THEN StockAt[calls[k].about.product] ELSE form.entries
  <2>1. form' = [form EXCEPT !.loadingEntries = FALSE, !.entries = x] /\ UNCHANGED <<pick, options>>
    BY <1>14 DEF HearEntries
  <2>. HIDE DEF x
  <2>. QED
    BY <1>1, <2>1 DEF FormType
<1>15. ASSUME NEW k \in DOMAIN calls, NEW ok \in BOOLEAN, ServeOther(k, ok) \/ HearPost(k)
       PROVE  Goal
  BY <1>1, <1>15 DEF ServeOther, HearPost
<1>16. ASSUME NEW k \in DOMAIN calls, HearPosted(k) \/ HearPostError(k)
       PROVE  Goal
  <2>1. /\ UNCHANGED <<pick, options>>
        /\ \/ form' = [form EXCEPT !.saving = FALSE, !.succeeded = TRUE]
           \/ form' = [form EXCEPT !.saving = FALSE]
    BY <1>16 DEF HearPosted, HearPostError
  <2>2. form'.from = form.from /\ form'.shown = form.shown
    BY <2>1 DEF FormType
  <2>. QED
    BY <1>1, <2>1, <2>2
<1>17. ASSUME NEW k \in DOMAIN calls, HearTransferred(k)
       PROVE  Goal
  BY <1>2, <1>3, <1>17 DEF HearTransferred, CloseForm
<1>. QED
  BY <1>4, <1>5, <1>7, <1>8, <1>9, <1>10, <1>11, <1>12, <1>13, <1>14, <1>15, <1>16, <1>17
     DEF FillForm, HearForm

LEMMA RecordsKept ==
    ASSUME Records,
           \/ UNCHANGED <<pick, options>> \/ Choosing \/ \E w, cs : OnWarehouse(w, cs)
           \/ pick' = NoPick /\ options' = NoOptions
           \/ \E k \in DOMAIN calls, ok \in BOOLEAN : HearOptions(k, ok)
           \/ \E w, cs : ResetForWarehouse(w, cs)
           \/ \E k \in DOMAIN calls, ok \in BOOLEAN :
                  HearLookup(k, ok) \/ HearScannedAisles(k, ok) \/ HearScannedLocs(k, ok)
    PROVE  Records'
<1>1. CASE UNCHANGED <<pick, options>>
  BY <1>1 DEF Records
<1>2. CASE Choosing
  BY <1>2 DEF Records, Choosing, OnZoneChange, OnAisleChange, OnLocationChange
<1>3. CASE \E w, cs : OnWarehouse(w, cs)
  BY <1>3 DEF Records, OnWarehouse, NoPick, NoOptions
<1>4. CASE pick' = NoPick /\ options' = NoOptions
  BY <1>4 DEF Records, NoPick, NoOptions
<1>5. ASSUME NEW k \in DOMAIN calls, NEW ok \in BOOLEAN, HearOptions(k, ok)
      PROVE  Records'
  BY <1>5 DEF Records, HearOptions, Listed
<1>6. CASE \E w, cs : ResetForWarehouse(w, cs)
  BY <1>6 DEF Records, ResetForWarehouse, NoPick
<1>7. ASSUME NEW k \in DOMAIN calls, NEW ok \in BOOLEAN,
             HearLookup(k, ok) \/ HearScannedAisles(k, ok) \/ HearScannedLocs(k, ok)
      PROVE  Records'
  <2>1. CASE HearLookup(k, ok)
    BY <2>1 DEF Records, HearLookup
  <2>2. CASE HearScannedAisles(k, ok)
    BY <2>2 DEF Records, HearScannedAisles
  <2>3. CASE HearScannedLocs(k, ok)
    BY <2>3 DEF Records, HearScannedLocs
  <2>. QED
    BY <1>7, <2>1, <2>2, <2>3
<1>. QED
  BY <1>1, <1>2, <1>3, <1>4, <1>5, <1>6, <1>7

LEMMA ShapedKept == Shaped /\ IInv /\ [Next]_vars => Shaped'
<1>. SUFFICES ASSUME Shaped, IInv, [Next]_vars PROVE Shaped'
  OBVIOUS
<1>1. form \in FormType
  BY DEF IInv, FormOK
<1>2. ASSUME UNCHANGED <<page, pick, options, form>>
      PROVE  Shaped'
  BY <1>2 DEF Shaped, Records
<1>3. CASE UseList \/ KeepList \/ UNCHANGED vars
  BY <1>2, <1>3 DEF UseList, KeepList, formVars, vars
<1>4. CASE FormNext
  <2>1. page' = page /\ (FillForm \/ HearForm)
    BY <1>4 DEF FormNext
  <2>2. /\ KeepsPlaces \/ DropsPlaces \/ Chooses \/ Roots \/ Lists
        /\ form'.from # None => page = "movements"
        /\ form'.shown => form.shown \/ page \in FormPages \cup {"movements"}
    BY <1>1, <2>1, FormMoves DEF Shaped
  <2>3. Records'
    BY <2>2, RecordsKept DEF KeepsPlaces, DropsPlaces, Chooses, Roots, Lists, Shaped
  <2>. QED
    BY <2>1, <2>2, <2>3 DEF Shaped
<1>5. CASE CountNext /\ UNCHANGED <<formVars, editVars>>
  <2>1. page' = page /\ form' = form /\ (UseCounts \/ HearCountCalls)
    BY <1>5 DEF CountNext, formVars
  <2>2. CASE UseCounts
    <3>1. CASE PickLocation
      <4>1. Choosing
        BY <3>1 DEF PickLocation, Choosing
      <4>2. Records'
        BY <4>1, RecordsKept DEF Shaped
      <4>. QED
        BY <2>1, <4>2 DEF Shaped
    <3>2. CASE ~PickLocation
      <4>1. UNCHANGED <<pick, options>>
        BY <2>2, <3>2 DEF UseCounts, ToggleCreate, ActOnSelected, SubmitCountLine,
           RemoveCountLine, UpdateCountLine, LoadDetail, SubmitCreate, ScanLocation
      <4>2. Records'
        BY <4>1, RecordsKept DEF Shaped
      <4>. QED
        BY <2>1, <4>2 DEF Shaped
    <3>. QED
      BY <3>1, <3>2
  <2>3. CASE HearCountCalls
    <3>1. \/ UNCHANGED <<pick, options>> \/ \E w, cs : ResetForWarehouse(w, cs)
          \/ \E k \in DOMAIN calls, ok \in BOOLEAN : HearOptions(k, ok)
          \/ \E k \in DOMAIN calls, ok \in BOOLEAN :
                 HearLookup(k, ok) \/ HearScannedAisles(k, ok) \/ HearScannedLocs(k, ok)
      BY <2>3 DEF HearCountCalls, HearCounts, HearDetail, HearCreate, AfterDetailAction,
         HearLine, HandleActionError, HearWrite
    <3>2. Records'
      BY <3>1, RecordsKept DEF Shaped
    <3>. QED
      BY <2>1, <3>2 DEF Shaped
  <2>. QED
    BY <2>1, <2>2, <2>3
<1>6. CASE EditNext /\ UNCHANGED <<pick, options, formVars, detail>>
  BY <1>2, <1>6 DEF EditNext, formVars
<1>. QED
  BY <1>3, <1>4, <1>5, <1>6 DEF Next

\* A step of a form that lists no options for a choice that has been changed
LEMMA CoherentKept ==
    ASSUME Records, Coherent,
           \/ KeepsPlaces \/ DropsPlaces \/ Chooses \/ Roots
           \/ /\ form'.from = form.from
              /\ \E k \in DOMAIN calls, ok \in BOOLEAN :
                     HearOptions(k, ok) /\ (ok => ~Overtaken(calls[k]))
    PROVE  Coherent'
<1>1. CASE KeepsPlaces
  BY <1>1 DEF KeepsPlaces, Coherent
<1>2. CASE DropsPlaces
  BY <1>2 DEF DropsPlaces, Coherent, NoPick, NoOptions
<1>3. ASSUME form'.from = form.from, NEW z \in Zones \cup {None}, OnZoneChange(z)
      PROVE  Coherent'
  <2>1. /\ pick'.wh = pick.wh /\ pick'.zone = z /\ pick'.aisle = None /\ pick'.loc = None
        /\ options'.zones = options.zones /\ options'.aisles = {} /\ options'.locs = {}
        /\ z \in options.zones \cup {None}
    BY <1>3 DEF OnZoneChange, Records
  <2>. QED
    BY <1>3, <2>1 DEF Coherent
<1>4. ASSUME form'.from = form.from, NEW a \in Aisles \cup {None}, OnAisleChange(a)
      PROVE  Coherent'
  <2>1. /\ pick'.wh = pick.wh /\ pick'.zone = pick.zone /\ pick'.aisle = a /\ pick'.loc = None
        /\ options'.zones = options.zones /\ options'.aisles = options.aisles /\ options'.locs = {}
        /\ a \in options.aisles \cup {None}
    BY <1>4 DEF OnAisleChange, Records
  <2>. QED
    BY <1>4, <2>1 DEF Coherent
<1>5. ASSUME form'.from = form.from, NEW l \in Locations \cup {None}, OnLocationChange(l)
      PROVE  Coherent'
  <2>1. /\ pick'.wh = pick.wh /\ pick'.zone = pick.zone /\ pick'.aisle = pick.aisle
        /\ pick'.loc = l /\ options' = options /\ l \in options.locs \cup {None}
    BY <1>5 DEF OnLocationChange, Records
  <2>. QED
    BY <1>5, <2>1 DEF Coherent
<1>6. CASE Chooses
  BY <1>3, <1>4, <1>5, <1>6 DEF Chooses, Choosing
<1>7. CASE Roots
  <2>1. PICK w : OnWarehouse(w, calls) /\ (form'.from # None => w = WarehouseOf(form'.from))
    BY <1>7 DEF Roots
  <2>2. /\ pick'.wh = w /\ pick'.zone = None /\ pick'.aisle = None /\ pick'.loc = None
        /\ options'.zones = {} /\ options'.aisles = {} /\ options'.locs = {}
    BY <2>1 DEF OnWarehouse, NoPick, NoOptions
  <2>. QED
    BY <2>1, <2>2 DEF Coherent
<1>8. ASSUME form'.from = form.from, NEW k \in DOMAIN calls, NEW ok \in BOOLEAN, HearOptions(k, ok),
             ok => ~Overtaken(calls[k])
      PROVE  Coherent'
  <2>1. pick' = pick /\ calls[k].kind \in {"zones", "aisles", "locs"}
    BY <1>8 DEF HearOptions
  <2>2. CASE ~ok
    BY <1>8, <2>1, <2>2 DEF HearOptions, Coherent
  <2>3. CASE ok /\ calls[k].kind = "zones"
    <3>1. options' = [options EXCEPT !.zones = Under(calls[k].about.wh)] /\ calls[k].about.wh = pick.wh
      BY <1>8, <2>3 DEF HearOptions, Listed, Overtaken
    <3>2. /\ options'.zones = Under(pick.wh) /\ options'.aisles = options.aisles
          /\ options'.locs = options.locs
      BY <3>1 DEF Records
    <3>. QED
      BY <1>8, <2>1, <3>2 DEF Coherent
  <2>4. CASE ok /\ calls[k].kind = "aisles"
    <3>1. options' = [options EXCEPT !.aisles = Under(calls[k].about.zone)] /\ calls[k].about.zone = pick.zone
      BY <1>8, <2>4 DEF HearOptions, Listed, Overtaken
    <3>2. /\ options'.zones = options.zones /\ options'.aisles = Under(pick.zone)
          /\ options'.locs = options.locs
      BY <3>1 DEF Records
    <3>. QED
      BY <1>8, <2>1, <3>2 DEF Coherent
  <2>5. CASE ok /\ calls[k].kind = "locs"
    <3>1. options' = [options EXCEPT !.locs = Under(calls[k].about.aisle)] /\ calls[k].about.aisle = pick.aisle
      BY <1>8, <2>5 DEF HearOptions, Listed, Overtaken
    <3>2. /\ options'.zones = options.zones /\ options'.aisles = options.aisles
          /\ options'.locs = Under(pick.aisle)
      BY <3>1 DEF Records
    <3>. QED
      BY <1>8, <2>1, <3>2 DEF Coherent
  <2>. QED
    BY <2>1, <2>2, <2>3, <2>4, <2>5
<1>. QED
  BY <1>1, <1>2, <1>6, <1>7, <1>8

LEMMA CoherentPlace ==
    ASSUME Coherent, pick.loc # None
    PROVE  WarehouseOf(pick.loc) = pick.wh
<1>1. pick.loc \in DOMAIN Parent /\ Parent[pick.loc] = pick.aisle
  BY DEF Coherent, Under
<1>2. \A n \in DOMAIN Parent : Parent[n] # None
  BY PlacesFormATree
<1>3. pick.aisle \in DOMAIN Parent /\ Parent[pick.aisle] = pick.zone
  BY <1>1, <1>2 DEF Coherent, Under
<1>4. pick.zone \in DOMAIN Parent /\ Parent[pick.zone] = pick.wh
  BY <1>2, <1>3 DEF Coherent, Under
<1>. QED
  BY <1>1, <1>3, <1>4 DEF WarehouseOf

LEMMA CoherentPosts ==
    ASSUME IInv, Shaped, Coherent, Submit, NEW c \in Posts' \ Posts
    PROVE  PlacesOf(c.about)
<1>. DEFINE n == IF page = "movements" THEN 1 ELSE Len(form.lines)
            s == [i \in 1..n |-> Post(i)]
<1>1. calls' = calls \o s /\ Editing /\ IsFormValid
  BY DEF Submit
<1>2. n \in Nat
  BY DEF IInv, FormOK, FormType
<1>3. PICK k \in DOMAIN calls' : c = calls'[k] /\ k \in Awaited(calls')
  BY DEF Posts, Awaited
<1>4. (\E j \in DOMAIN calls : calls'[k] = calls[j]) \/ \E i \in 1..n : calls'[k] = Post(i)
  <2>1. s = [i \in 1..n |-> s[i]] /\ \A i \in 1..n : s[i] = Post(i)
    OBVIOUS
  <2>2. \A i \in 1..n : CallOK(s[i], page) /\ Tag(s[i]) = "awaited"
    <3>1. form.submission + 1 \in Nat
      BY DEF IInv, FormOK, FormType
    <3>2. ASSUME NEW i \in 1..n
          PROVE  CallOK(Post(i), page) /\ Tag(Post(i)) = "awaited"
      <4>1. i \in Nat
        BY <1>2
      <4>. QED
        BY <3>1, <4>1 DEF CallOK, Post, Call, Kinds, Tag
    <3>. QED
      BY <2>1, <3>2
  <2>. HIDE DEF n, s
  <2>3. CallsOK(calls, page)
    BY DEF IInv
  <2>4. Joined(calls \o s, calls, s, n)
    BY <1>2, <2>1, <2>2, <2>3, Posting
  <2>. QED
    BY <1>1, <2>1, <2>4 DEF Joined
<1>5. ASSUME NEW j \in DOMAIN calls, calls'[k] = calls[j]
      PROVE  FALSE
  BY <1>3, <1>5 DEF Posts, Awaited
<1>6. PICK i \in 1..n : c = Post(i)
  BY <1>3, <1>4, <1>5
<1>7. page \in FormPages \cup {"movements"}
  BY <1>1 DEF Editing, Shaped
<1>8. pick.loc # None
  BY <1>1 DEF IsFormValid
<1>9. WarehouseOf(pick.loc) = pick.wh
  BY <1>8, CoherentPlace
<1>10. form.from # None => WarehouseOf(form.from) = pick.wh
  BY DEF Coherent
<1>11. /\ c.about.wh = pick.wh
       /\ c.about.from \in {None, pick.loc, form.from} /\ c.about.to \in {None, pick.loc}
  BY <1>6, <1>7 DEF Post, Call, FormPages
<1>. QED
  BY <1>9, <1>10, <1>11 DEF PlacesOf

LEMMA NoneSentIsKept ==
    ASSUME IInv, CallsOK(calls', page'), NoneSent(calls', calls)
    PROVE  Posts' \subseteq Posts
<1>1. \A cs : \A k \in DOMAIN cs :
          cs[k].kind = "post" => (cs[k].about.awaited <=> Tag(cs[k]) = "awaited")
  BY DEF Tag
<1>2. ASSUME NEW c \in Posts'
      PROVE  c \in Posts
  <2>1. PICK k \in DOMAIN calls' : c = calls'[k] /\ c.kind = "post" /\ c.about.awaited
    BY DEF Posts, Awaited
  <2>2. PICK i \in DOMAIN calls : calls[i] = c
    BY <1>1, <2>1 DEF NoneSent
  <2>. QED
    BY <2>1, <2>2 DEF Posts, Awaited
<1>. QED
  BY <1>2

LEMMA FollowingStep ==
    ASSUME IInv, Shaped, [Next]_vars, page # "inventory", Coherent
    PROVE  /\ Coherent' \/ \E k \in DOMAIN calls : Overtaken(calls[k]) /\ HearOptions(k, TRUE)
           /\ \A c \in Posts' \ Posts : PlacesOf(c.about)
<1>. DEFINE Goal == /\ Coherent' \/ \E k \in DOMAIN calls : Overtaken(calls[k]) /\ HearOptions(k, TRUE)
                    /\ \A c \in Posts' \ Posts : PlacesOf(c.about)
<1>1. /\ CallsOK(calls, page) /\ ListOK(calls, list) /\ FormOK(calls, form, applied, page)
      /\ EditOK(calls, dialog, items, page) /\ form \in FormType
  BY DEF IInv, FormOK
<1>2. CallsOK(calls', page')
  BY StepsAreSound DEF IInv
<1>3. ASSUME UNCHANGED <<pick, options, form>>, NoneSent(calls', calls)
      PROVE  Goal
  <2>1. Coherent'
    BY <1>3 DEF Coherent
  <2>. QED
    BY <1>2, <1>3, <2>1, NoneSentIsKept
<1>4. CASE UseList \/ KeepList
  <2>1. Same(calls', calls, Told \ {"list"}) /\ "awaited" \in Told \ {"list"}
    BY <1>1, <1>4, ListSteps DEF UseList, KeepList, Told
  <2>. QED
    BY <1>3, <1>4, <2>1, SameSendsNone DEF UseList, KeepList, formVars
<1>5. CASE FormNext
  <2>1. FillForm \/ HearForm
    BY <1>5 DEF FormNext
  <2>2. KeepsPlaces \/ DropsPlaces \/ Chooses \/ Roots \/ Lists
    BY <1>1, <2>1, FormMoves DEF Shaped
  <2>3. Coherent' \/ \E k \in DOMAIN calls : Overtaken(calls[k]) /\ HearOptions(k, TRUE)
    BY <2>2, CoherentKept DEF Shaped, Lists
  <2>4. Submit \/ NoneSent(calls', calls)
    BY <1>1, <2>1, FormSteps
  <2>. QED
    BY <1>2, <2>3, <2>4, CoherentPosts, NoneSentIsKept
<1>6. CASE CountNext
  BY <1>6 DEF CountNext
<1>7. CASE EditNext /\ UNCHANGED <<pick, options, formVars, detail>>
  <2>1. Same(calls', calls, Outside) /\ "awaited" \in Outside
    BY <1>1, <1>7, DialogsAreUsed, EditsAreHeard DEF EditNext, Outside, FormTags
  <2>. QED
    BY <1>3, <1>7, <2>1, SameSendsNone DEF formVars
<1>8. CASE UNCHANGED vars
  <2>1. NoneSent(calls', calls)
    BY <1>8 DEF vars, NoneSent
  <2>. QED
    BY <1>3, <1>8, <2>1 DEF vars
<1>. QED
  BY <1>4, <1>5, <1>6, <1>7, <1>8 DEF Next

\* Whatever is chosen, closed and answered in whatever order, for every tree of
\* warehouses: only an answer to a choice that has been changed since makes a
\* form mix two branches, and a form that mixes none sends locations of the
\* warehouse it names.
THEOREM PlacesAreFollowed == Spec => PlacesFollowChoices
<1>. DEFINE Step == page # "inventory" /\ Coherent =>
                /\ Coherent' \/ \E k \in DOMAIN calls : Overtaken(calls[k]) /\ HearOptions(k, TRUE)
                /\ \A c \in Posts' \ Posts : PlacesOf(c.about)
<1>1. Init => Shaped
  BY DEF Init, FormInit, NewForm, Shaped, Records, NoPick, NoOptions
<1>2. Shaped /\ IInv /\ [Next]_vars => Shaped'
  BY ShapedKept
<1>3. Shaped /\ IInv /\ [Next]_vars => [Step]_<<calls, pick, options, form>>
  BY FollowingStep
<1>4. Spec => []IInv
  BY PagesInvariance
<1>. QED
  BY <1>1, <1>2, <1>3, <1>4, PTL DEF Spec, PlacesFollowChoices
=============================================================================
