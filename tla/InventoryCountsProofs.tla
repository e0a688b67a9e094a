----------------------- MODULE InventoryCountsProofs -----------------------
(***************************************************************************)
(* What the handlers of InventoryCounts keep for every number of counts,   *)
(* lines, callers and calls at once, although they check before they write *)
(* and never look again; and that one call at a time is a step of          *)
(* CountLifecycle.                                                         *)
(***************************************************************************)
EXTENDS InventoryCounts, FiniteSetTheorems, TLAPS

\* What a handler has learnt by its checks and may rely on when it writes,
\* because no other handler can make it false: the count is its company's,
\* a count it is completing was started, a location is in the warehouse.
ChecksHold ==
    \A r \in Callers :
        /\ pc[r] \notin {"idle", "status"} => Visible(r, call[r].count)
        /\ pc[r] = "lines" => call[r].op = "complete"
        /\ pc[r] = "location" => call[r].op = "addLine"
        /\ pc[r] = "existing" => call[r].op = "addLine"
        /\ pc[r] = "line" => call[r].op \in LineOps
        /\ pc[r] \in {"lines", "write"} /\ call[r].op = "complete"
             => startedAt[call[r].count]
        /\ pc[r] \in {"existing", "write"} /\ call[r].op = "addLine"
             => LocationWarehouse[call[r].arg] = CountWarehouse[call[r].count]

\* The dates follow the status: a status that starting or completing wrote
\* leaves its date, and a count with a date is never a draft again.
DatesFollowStatus ==
    \A c \in Counts :
        /\ status[c] \in {"IN_PROGRESS", "COMPLETED"} \/ completedAt[c] => startedAt[c]
        /\ startedAt[c] => status[c] \notin {"absent", "DRAFT"}

LocalsAreFunctions == differences = [r \in Callers |-> differences[r]]

IInv ==
    /\ TypeOK /\ LocalsAreFunctions
    /\ ChecksHold /\ DatesFollowStatus
    /\ OneLinePerLocation /\ LinesKeepTheirLocation /\ TerminalStatusIsAudited

-----------------------------------------------------------------------------
\* What a call names, by its operation.
LEMMA CallShape ==
    ASSUME NEW m \in Calls
    PROVE  /\ m.count \in Counts
           /\ m.op = "addLine" => m.arg \in Locations /\ m.qty \in Quantities
           /\ m.op = "updateLine" => m.arg \in LineIds /\ m.qty \in Quantities
           /\ m.op = "removeLine" => m.arg \in LineIds
  BY DEF Calls, Call, CountOps

LEMMA InitEstablishesIInv == Init => IInv
  BY NoCallIsNone
  DEF Init, IInv, TypeOK, LocalsAreFunctions, ChecksHold, DatesFollowStatus, Nothing,
      OneLinePerLocation, LinesKeepTheirLocation, TerminalStatusIsAudited, Terminal, Statuses,
      Statements, LineOps

\* A statement that only reads moves its handler on and changes no row.
LEMMA ReadPreservesIInv ==
    ASSUME IInv, NEW r \in Callers,
           Receive(r) \/ ReadStatus(r) \/ FindInactiveWarehouse(r) \/ ReadLines(r)
             \/ FindLocation(r) \/ FindExistingLine(r) \/ FindLine(r) \/ FailWrite(r)
    PROVE  IInv'
<1> USE DEF database
<1>1. UNCHANGED database
  BY DEF Receive, ReadStatus, FindInactiveWarehouse, ReadLines, LookUp, FindLocation,
         FindExistingLine, FindLine, FailWrite, Refuse
<1>2. TypeOK' /\ LocalsAreFunctions'
  <2>1. CASE Receive(r)
    BY <2>1, <1>1 DEF IInv, TypeOK, LocalsAreFunctions, Receive, Statements
  <2>2. CASE ReadLines(r) /\ ~Refuse(r)
    <3>1. PICK c \in Counts : c = call[r].count
      BY <2>2, CallShape DEF IInv, TypeOK, ReadLines
    <3>2. \A i \in LinesOf(c) : line[i].counted - line[i].expected \in Int
      BY <2>2, <3>1, NullIsNoQuantity, QuantitiesAreNaturals, NoLineIsNone
      DEF IInv, TypeOK, ReadLines, AllCounted, LinesOf, CountLines
    <3>3. LinesOf(c) \subseteq issued
      BY DEF IInv, TypeOK, LinesOf
    <3>. QED
      BY <2>2, <1>1, <3>1, <3>2, <3>3
      DEF IInv, TypeOK, LocalsAreFunctions, ReadLines, Go, Statements
  <2>3. CASE Refuse(r)
    BY <2>3, <1>1 DEF IInv, TypeOK, LocalsAreFunctions, Refuse, Answer, Nothing, Statements
  <2>4. CASE (ReadStatus(r) \/ FindLocation(r) \/ FindExistingLine(r) \/ FindLine(r)) /\ ~Refuse(r)
    BY <2>4, <1>1
    DEF IInv, TypeOK, LocalsAreFunctions, ReadStatus, FindLocation, FindExistingLine,
        FindLine, LookUp, Go, AfterStatus, Statements
  <2>. QED  BY <2>1, <2>2, <2>3, <2>4 DEF FindInactiveWarehouse, FailWrite
<1>3. ChecksHold'
  <2>1. CASE Receive(r)
    BY <2>1, <1>1 DEF IInv, TypeOK, ChecksHold, Receive, Visible
  <2>2. CASE ReadLines(r) /\ ~Refuse(r)
    BY <2>2, <1>1 DEF IInv, TypeOK, ChecksHold, ReadLines, Go, Visible
  <2>3. CASE Refuse(r)
    BY <2>3, <1>1 DEF IInv, TypeOK, ChecksHold, Refuse, Answer, Visible
  <2>4. CASE ReadStatus(r) /\ ~Refuse(r)
    <3>1. /\ Visible(r, call[r].count)
          /\ call[r].op = "complete" => startedAt[call[r].count]
      BY <2>4, CallShape DEF IInv, TypeOK, ReadStatus, StatusAllows, Required, DatesFollowStatus
    <3>. QED
      BY <2>4, <1>1, <3>1
      DEF IInv, TypeOK, ChecksHold, ReadStatus, Go, AfterStatus, Visible, LineOps
  <2>5. CASE (FindLocation(r) \/ FindExistingLine(r) \/ FindLine(r)) /\ ~Refuse(r)
    BY <2>5, <1>1
    DEF IInv, TypeOK, ChecksHold, FindLocation, FindExistingLine, FindLine, LookUp,
        InItsWarehouse, Go, Visible, LineOps
  <2>. QED  BY <2>1, <2>2, <2>3, <2>4, <2>5 DEF FindInactiveWarehouse, FailWrite
<1>4. /\ DatesFollowStatus' /\ OneLinePerLocation' /\ LinesKeepTheirLocation'
      /\ TerminalStatusIsAudited'
  BY <1>1
  DEF IInv, DatesFollowStatus, OneLinePerLocation, LinesKeepTheirLocation, TerminalStatusIsAudited
<1>. QED  BY <1>2, <1>3, <1>4 DEF IInv

-----------------------------------------------------------------------------
\* A handler that answers forgets its call: what the others have checked stands
\* as long as no date is unset.
LEMMA AnswerKeepsChecks ==
    ASSUME IInv, NEW r \in Callers, Answer(r),
           \A c \in Counts : startedAt[c] => startedAt'[c]
    PROVE  ChecksHold'
  BY CallShape DEF IInv, TypeOK, ChecksHold, Answer, Visible

\* An answer leaves the handlers' variables with their types.
LEMMA AnswerKeepsLocals ==
    ASSUME IInv, NEW r \in Callers, Answer(r), issued \subseteq issued'
    PROVE  /\ LocalsAreFunctions'
           /\ pc' \in [Callers -> Statements]
           /\ call' \in [Callers -> Calls \cup {NoCall}]
           /\ \A s \in Callers : pc'[s] # "idle" => call'[s] \in Calls
           /\ \A s \in Callers :
                  /\ DOMAIN differences'[s] \subseteq issued'
                  /\ \A i \in DOMAIN differences'[s] : differences'[s][i] \in Int
  BY DEF IInv, TypeOK, LocalsAreFunctions, Answer, Nothing, Statements

\* Writes of the count itself: creating and starting it.
LEMMA StatusWritePreservesIInv ==
    ASSUME IInv, NEW r \in Callers, WriteCreate(r) \/ WriteStart(r)
    PROVE  IInv'
<1>1. PICK c \in Counts : c = call[r].count
  BY CallShape DEF IInv, TypeOK, WriteCreate, WriteStart, Writing
<1>2. Answer(r) /\ UNCHANGED <<completedAt, line, issued, live, audit>>
  BY DEF WriteCreate, WriteStart
<1>3. \A d \in Counts : startedAt[d] => startedAt'[d]
  BY DEF IInv, TypeOK, WriteCreate, WriteStart
<1>4. TypeOK' /\ LocalsAreFunctions'
  BY <1>1, <1>2, AnswerKeepsLocals DEF IInv, TypeOK, WriteCreate, WriteStart, Statuses
<1>5. DatesFollowStatus'
  BY <1>1, <1>2 DEF IInv, TypeOK, DatesFollowStatus, WriteCreate, WriteStart
<1>6. OneLinePerLocation' /\ LinesKeepTheirLocation'
  BY <1>2 DEF IInv, OneLinePerLocation, LinesKeepTheirLocation
<1>7. TerminalStatusIsAudited'
  BY <1>1, <1>2 DEF IInv, TypeOK, TerminalStatusIsAudited, Terminal, WriteCreate, WriteStart
<1>. QED  BY <1>2, <1>3, <1>4, <1>5, <1>6, <1>7, AnswerKeepsChecks DEF IInv

\* The two transactions that end a count: the row in the audit log is by a
\* caller whose company the count was found in.
LEMMA EndPreservesIInv ==
    ASSUME IInv, NEW r \in Callers, WriteComplete(r) \/ WriteCancel(r)
    PROVE  IInv'
<1>1. PICK c \in Counts : c = call[r].count
  BY CallShape DEF IInv, TypeOK, WriteComplete, WriteCancel, Writing
<1>2. Answer(r) /\ UNCHANGED <<startedAt, issued, live>>
  BY DEF WriteComplete, WriteCancel
<1>3. PICK s \in Terminal : /\ status' = [status EXCEPT ![c] = s]
                             /\ audit' = audit \cup {AuditRow(r, s)}
  BY <1>1 DEF WriteComplete, WriteCancel, Terminal
<1>4. /\ completedAt' \in [Counts -> BOOLEAN]
      /\ \A d \in Counts : completedAt'[d] => completedAt[d] \/ startedAt[d]
      /\ s = "COMPLETED" => startedAt[c]
  BY <1>1, <1>3 DEF IInv, TypeOK, ChecksHold, WriteComplete, WriteCancel, Writing
<1>5. /\ line' \in [LineIds -> CountLines \cup {NoLine}]
      /\ \A i \in LineIds :
             /\ line'[i] = NoLine <=> line[i] = NoLine
             /\ line[i] # NoLine => /\ line'[i].count = line[i].count
                                    /\ line'[i].location = line[i].location
  <2>1. CASE WriteCancel(r)
    BY <2>1 DEF IInv, TypeOK, WriteCancel
  <2>2. CASE WriteComplete(r)
    <3>1. \A i \in DOMAIN differences[r] :
              i \in LineIds /\ line[i] \in CountLines /\ differences[r][i] \in Int
      BY <2>2 DEF IInv, TypeOK, WriteComplete
    <3>2. \A i \in DOMAIN differences[r] :
              /\ line'[i] = [line[i] EXCEPT !.difference = differences[r][i]]
              /\ line'[i] \in CountLines
      BY <2>2, <3>1 DEF WriteComplete, CountLines
    <3>3. \A i \in LineIds : i \notin DOMAIN differences[r] => line'[i] = line[i]
      BY <2>2 DEF WriteComplete
    <3>4. line' = [i \in LineIds |-> line'[i]]
      BY <2>2 DEF WriteComplete
    <3>5. NoLine \notin CountLines
      BY NoLineIsNone DEF CountLines
    <3>6. \A i \in DOMAIN differences[r] :
              line'[i].count = line[i].count /\ line'[i].location = line[i].location
      BY <3>1, <3>2 DEF CountLines
    <3>. QED  BY <3>1, <3>2, <3>3, <3>4, <3>5, <3>6 DEF IInv, TypeOK
  <2>. QED  BY <2>1, <2>2
<1>6. AuditRow(r, s) \in [count: Counts, status: Terminal, caller: Callers]
  BY <1>1, <1>3 DEF AuditRow
<1>7. TypeOK' /\ LocalsAreFunctions'
  <2>1. status' \in [Counts -> Statuses]
    BY <1>3 DEF IInv, TypeOK, Statuses
  <2>2. \A i \in LineIds : line'[i] # NoLine => i \in issued'
    <3>1. \A i \in LineIds : line[i] # NoLine => i \in issued
      BY DEF IInv, TypeOK
    <3>. QED  BY <3>1, <1>2, <1>5
  <2>3. audit' \subseteq [count: Counts, status: Terminal, caller: Callers]
    BY <1>3, <1>6 DEF IInv, TypeOK
  <2>. QED
    BY <2>1, <2>2, <2>3, <1>2, <1>4, <1>5, AnswerKeepsLocals DEF IInv, TypeOK
<1>8. DatesFollowStatus'
  BY <1>2, <1>3, <1>4 DEF IInv, TypeOK, DatesFollowStatus, Terminal
<1>9. OneLinePerLocation' /\ LinesKeepTheirLocation'
  <2>1. OneLinePerLocation'
    <3>1. OneLinePerLocation
      BY DEF IInv
    <3>. QED  BY <3>1, <1>5 DEF OneLinePerLocation
  <2>2. LinesKeepTheirLocation'
    <3>1. LinesKeepTheirLocation
      BY DEF IInv
    <3>. QED  BY <3>1, <1>2, <1>5 DEF LinesKeepTheirLocation
  <2>. QED  BY <2>1, <2>2
<1>10. TerminalStatusIsAudited'
  <2>1. CallerCompany[r] = WarehouseCompany[CountWarehouse[c]]
    BY <1>1 DEF IInv, ChecksHold, Visible, WriteComplete, WriteCancel, Writing
  <2>2. \A a \in audit' : CallerCompany[a.caller] = WarehouseCompany[CountWarehouse[a.count]]
    BY <2>1, <1>1, <1>3 DEF IInv, TerminalStatusIsAudited, AuditRow
  <2>3. \A d \in Counts : status'[d] \in Terminal =>
            \E a \in audit' : a.count = d /\ a.status = status'[d]
    <3> SUFFICES ASSUME NEW d \in Counts, status'[d] \in Terminal
                 PROVE  \E a \in audit' : a.count = d /\ a.status = status'[d]
      OBVIOUS
    <3>1. CASE d = c
      <4>1. status'[d] = s
        BY <3>1, <1>3 DEF IInv, TypeOK
      <4>2. AuditRow(r, s) \in audit' /\ AuditRow(r, s).count = d /\ AuditRow(r, s).status = s
        BY <3>1, <1>1, <1>3 DEF AuditRow
      <4>. QED  BY <4>1, <4>2
    <3>2. CASE d # c
      BY <3>2, <1>3 DEF IInv, TypeOK, TerminalStatusIsAudited
    <3>. QED  BY <3>1, <3>2
  <2>. QED  BY <2>2, <2>3 DEF TerminalStatusIsAudited
<1>. QED  BY <1>2, <1>7, <1>8, <1>9, <1>10, AnswerKeepsChecks DEF IInv

-----------------------------------------------------------------------------
\* A new line: the unique index keeps the count's locations apart, and the
\* location was found in the count's warehouse.
LEMMA AddLinePreservesIInv ==
    ASSUME IInv, NEW r \in Callers, WriteAddLine(r)
    PROVE  IInv'
<1>1. PICK m \in Calls : m = call[r]
  BY DEF IInv, TypeOK, WriteAddLine, Writing
<1>2. /\ m.count \in Counts /\ m.arg \in Locations /\ m.qty \in Quantities
      /\ m.arg \in live /\ ~Listed(m.count, m.arg)
      /\ LocationWarehouse[m.arg] = CountWarehouse[m.count]
  BY <1>1, CallShape DEF IInv, ChecksHold, WriteAddLine, Writing, InsertFits
<1>. DEFINE row == [count |-> m.count, location |-> m.arg, expected |-> m.qty,
                    counted |-> Null, difference |-> Null]
<1>3. PICK i \in LineIds \ issued :
          issued' = issued \cup {i} /\ line' = [line EXCEPT ![i] = row]
  BY <1>1 DEF WriteAddLine
<1>4. row \in CountLines /\ row # NoLine
  BY <1>2, NoLineIsNone DEF CountLines
<1>5. Answer(r) /\ UNCHANGED <<status, startedAt, completedAt, live, audit>>
  BY DEF WriteAddLine
<1>. HIDE DEF row
<1>6. TypeOK' /\ LocalsAreFunctions'
  BY <1>3, <1>4, <1>5, AnswerKeepsLocals DEF IInv, TypeOK
<1>7. \A j \in LineIds : line'[j] = IF j = i THEN row ELSE line[j]
  BY <1>3 DEF IInv, TypeOK
<1>8. \A j \in LineIds :
          line[j] # NoLine => line[j].count # m.count \/ line[j].location # m.arg
  BY <1>2 DEF Listed, LinesOf
<1>9. row.count = m.count /\ row.location = m.arg
  BY DEF row
<1>10. OneLinePerLocation'
  BY <1>7, <1>8, <1>9 DEF IInv, OneLinePerLocation
<1>11. LinesKeepTheirLocation'
  BY <1>2, <1>5, <1>7, <1>9 DEF IInv, LinesKeepTheirLocation
<1>12. DatesFollowStatus' /\ TerminalStatusIsAudited'
  BY <1>5 DEF IInv, DatesFollowStatus, TerminalStatusIsAudited
<1>. QED  BY <1>5, <1>6, <1>10, <1>11, <1>12, AnswerKeepsChecks DEF IInv

\* A line keeps its count and its location for as long as it exists.
LEMMA LineWritePreservesIInv ==
    ASSUME IInv, NEW r \in Callers, WriteUpdateLine(r) \/ WriteRemoveLine(r)
    PROVE  IInv'
<1>1. PICK m \in Calls : m = call[r]
  BY DEF IInv, TypeOK, WriteUpdateLine, WriteRemoveLine, Writing
<1>2. m.arg \in LineIds /\ line[m.arg] \in CountLines
  BY <1>1, CallShape DEF IInv, TypeOK, WriteUpdateLine, WriteRemoveLine, Writing
<1>3. Answer(r) /\ UNCHANGED <<status, startedAt, completedAt, issued, live, audit>>
  BY DEF WriteUpdateLine, WriteRemoveLine
<1>4. /\ line' \in [LineIds -> CountLines \cup {NoLine}]
      /\ \A i \in LineIds : line'[i] # NoLine =>
             /\ line[i] # NoLine
             /\ line'[i].count = line[i].count
             /\ line'[i].location = line[i].location
  <2>1. CASE WriteRemoveLine(r)
    BY <2>1, <1>1, <1>2 DEF IInv, TypeOK, WriteRemoveLine
  <2>2. CASE WriteUpdateLine(r)
    <3>1. m.qty \in Quantities
      BY <2>2, <1>1, CallShape DEF WriteUpdateLine, Writing
    <3>. DEFINE row == [line[m.arg] EXCEPT !.counted = m.qty, !.difference = Null]
    <3>2. line' = [line EXCEPT ![m.arg] = row]
      BY <2>2, <1>1, <1>2 DEF IInv, TypeOK, WriteUpdateLine
    <3>3. /\ row \in CountLines
          /\ row.count = line[m.arg].count /\ row.location = line[m.arg].location
      BY <1>2, <3>1 DEF CountLines
    <3>4. line[m.arg] # NoLine
      BY <2>2, <1>1 DEF WriteUpdateLine
    <3>. HIDE DEF row
    <3>. QED  BY <1>2, <3>2, <3>3, <3>4 DEF IInv, TypeOK
  <2>. QED  BY <2>1, <2>2
<1>5. TypeOK' /\ LocalsAreFunctions'
  BY <1>3, <1>4, AnswerKeepsLocals DEF IInv, TypeOK
<1>6. OneLinePerLocation' /\ LinesKeepTheirLocation'
  BY <1>3, <1>4 DEF IInv, OneLinePerLocation, LinesKeepTheirLocation
<1>7. DatesFollowStatus' /\ TerminalStatusIsAudited'
  BY <1>3 DEF IInv, DatesFollowStatus, TerminalStatusIsAudited
<1>. QED  BY <1>3, <1>5, <1>6, <1>7, AnswerKeepsChecks DEF IInv

\* A location that a line names is not deleted.
LEMMA DeletePreservesIInv ==
    ASSUME IInv, NEW l \in Locations, DeleteLocation(l)
    PROVE  IInv'
<1>1. TypeOK' /\ LocalsAreFunctions' /\ ChecksHold'
  BY DEF IInv, TypeOK, LocalsAreFunctions, ChecksHold, Visible, DeleteLocation
<1>2. /\ DatesFollowStatus' /\ OneLinePerLocation' /\ LinesKeepTheirLocation'
      /\ TerminalStatusIsAudited'
  BY DEF IInv, DatesFollowStatus, OneLinePerLocation, LinesKeepTheirLocation,
         TerminalStatusIsAudited, DeleteLocation
<1>. QED  BY <1>1, <1>2 DEF IInv

-----------------------------------------------------------------------------
\* The inductive invariant holds in every reachable state: what a handler has
\* checked and relies on is never undone by another one.
THEOREM Invariance == Spec => []IInv
<1>1. Init => IInv
  BY InitEstablishesIInv
<1>2. IInv /\ [Next]_vars => IInv'
  <2> SUFFICES ASSUME IInv, [Next]_vars PROVE IInv'
    OBVIOUS
  <2>1. CASE UNCHANGED vars
    BY <2>1
    DEF vars, database, IInv, TypeOK, LocalsAreFunctions, ChecksHold, Visible, DatesFollowStatus,
        OneLinePerLocation, LinesKeepTheirLocation, TerminalStatusIsAudited
  <2>2. ASSUME NEW r \in Callers,
               Receive(r) \/ ReadStatus(r) \/ FindInactiveWarehouse(r) \/ ReadLines(r)
                 \/ FindLocation(r) \/ FindExistingLine(r) \/ FindLine(r) \/ FailWrite(r)
        PROVE  IInv'
    BY <2>2, ReadPreservesIInv
  <2>3. ASSUME NEW r \in Callers, Write(r)
        PROVE  IInv'
    BY <2>3, StatusWritePreservesIInv, EndPreservesIInv, AddLinePreservesIInv,
       LineWritePreservesIInv DEF Write
  <2>4. ASSUME NEW l \in Locations, DeleteLocation(l)
        PROVE  IInv'
    BY <2>4, DeletePreservesIInv
  <2>. QED  BY <2>1, <2>2, <2>3, <2>4 DEF Next
<1>. QED  BY <1>1, <1>2, PTL DEF Spec

\* No race of addLine calls, each of which found the location free, puts a
\* location on a count twice.
THEOREM OneLineEach == Spec => []OneLinePerLocation
<1>1. IInv => OneLinePerLocation
  BY DEF IInv
<1>. QED  BY <1>1, Invariance, PTL

\* A line's location exists and belongs to the count's warehouse, and so to
\* its company.
THEOREM LinesStayInWarehouse == Spec => []LinesKeepTheirLocation
<1>1. IInv => LinesKeepTheirLocation
  BY DEF IInv
<1>. QED  BY <1>1, Invariance, PTL

\* However calls that end a count race, the status they leave has its audit
\* row, by a caller of the count's company.
THEOREM EveryEndIsAudited == Spec => []TerminalStatusIsAudited
<1>1. IInv => TerminalStatusIsAudited
  BY DEF IInv
<1>. QED  BY <1>1, Invariance, PTL

\* A completed count had been started.
THEOREM NoCompletionWithoutStart == Spec => []CompletedWasStarted
<1>1. IInv => CompletedWasStarted
  BY DEF IInv, DatesFollowStatus, CompletedWasStarted
<1>. QED  BY <1>1, Invariance, PTL

\* The rows and the handlers' variables keep their types.
THEOREM TypeCorrectness == Spec => []TypeOK
<1>1. IInv => TypeOK
  BY DEF IInv
<1>. QED  BY <1>1, Invariance, PTL

-----------------------------------------------------------------------------
(* One call at a time *)

OneAtATime == \A r, s \in Callers : pc[r] # "idle" /\ pc[s] # "idle" => r = s

\* With no other call beside it, what a handler has checked is still so when it
\* writes: the status, the lines that were counted, the line that is named.
ChecksAreFresh ==
    \A r \in Callers :
        /\ pc[r] \notin {"idle", "status"} =>
               status[call[r].count] \in Required(call[r].op)
        /\ pc[r] = "write" /\ call[r].op = "complete" =>
               /\ AllCounted(call[r].count)
               /\ differences[r] =
                      [i \in LinesOf(call[r].count) |-> line[i].counted - line[i].expected]
        /\ pc[r] = "write" /\ call[r].op \in LineOps =>
               call[r].arg \in LinesOf(call[r].count)

SerialInv == OneAtATime /\ ChecksAreFresh

\* A call is received only when no other is running.
LEMMA CallersTakeTurns ==
    ASSUME IInv, OneAtATime, InFlight = 1, Next
    PROVE  OneAtATime'
<1>1. ASSUME NEW r \in Callers, Receive(r)
      PROVE  OneAtATime'
  <2>. DEFINE busy == {s \in Callers : pc[s] # "idle"}
  <2>1. IsFiniteSet(busy)
    BY CallersAreFinite, FS_Subset
  <2>2. Cardinality(busy) < 1
    BY <1>1 DEF Receive
  <2>3. busy = {}
    BY <2>1, <2>2, FS_EmptySet, FS_CardinalityType
  <2>. QED
    BY <1>1, <2>3 DEF Receive, OneAtATime, IInv, TypeOK
<1>2. ASSUME NEW r \in Callers,
             ReadStatus(r) \/ FindInactiveWarehouse(r) \/ ReadLines(r) \/ FindLocation(r)
               \/ FindExistingLine(r) \/ FindLine(r) \/ Write(r) \/ FailWrite(r)
      PROVE  pc[r] # "idle" /\ \E to : pc' = [pc EXCEPT ![r] = to]
  BY <1>2
  DEF ReadStatus, FindInactiveWarehouse, ReadLines, FindLocation, FindExistingLine, FindLine,
      LookUp, Write, WriteCreate, WriteStart, WriteComplete, WriteCancel, WriteAddLine,
      WriteUpdateLine, WriteRemoveLine, Writing, FailWrite, Refuse, Answer, Go
<1>3. ASSUME NEW r \in Callers, pc[r] # "idle", \E to : pc' = [pc EXCEPT ![r] = to]
      PROVE  OneAtATime'
  BY <1>3 DEF OneAtATime, IInv, TypeOK
<1>4. ASSUME NEW l \in Locations, DeleteLocation(l)
      PROVE  OneAtATime'
  BY <1>4 DEF DeleteLocation, OneAtATime
<1>. QED
  BY <1>1, <1>2, <1>3, <1>4 DEF Next

\* The one handler that is running learns more, or answers.
LEMMA ChecksStayFresh ==
    ASSUME IInv, SerialInv, InFlight = 1, Next
    PROVE  SerialInv'
<1>1. OneAtATime'
  BY CallersTakeTurns DEF SerialInv
<1>2. ASSUME NEW r \in Callers, pc[r] # "idle", pc'[r] # "idle",
             \A s \in Callers : s # r => pc'[s] = pc[s],
             call' = call, database' = database,
             pc'[r] # "status" => status[call[r].count] \in Required(call[r].op),
             pc'[r] = "write" /\ call[r].op = "complete" =>
                 /\ AllCounted(call[r].count)
                 /\ differences'[r] =
                        [i \in LinesOf(call[r].count) |-> line[i].counted - line[i].expected],
             pc'[r] = "write" /\ call[r].op \in LineOps => call[r].arg \in LinesOf(call[r].count)
      PROVE  ChecksAreFresh'
  BY <1>2 DEF SerialInv, OneAtATime, ChecksAreFresh, database, LinesOf, AllCounted
<1>3. ASSUME NEW r \in Callers, pc[r] # "idle", Answer(r)
      PROVE  ChecksAreFresh'
  BY <1>3 DEF SerialInv, OneAtATime, ChecksAreFresh, Answer, IInv, TypeOK
<1>4. ASSUME NEW r \in Callers, Receive(r)
      PROVE  ChecksAreFresh'
  <2>1. pc'[r] = "status"
    BY <1>4 DEF Receive, IInv, TypeOK
  <2>2. \A s \in Callers : s # r => pc'[s] = "idle"
    BY <1>1, <2>1 DEF OneAtATime
  <2>. QED
    BY <2>1, <2>2 DEF ChecksAreFresh
<1>5. ASSUME NEW r \in Callers, ReadStatus(r)
      PROVE  ChecksAreFresh'
  <2>1. CASE Refuse(r)
    BY <1>3, <1>5, <2>1 DEF Refuse, ReadStatus
  <2>2. CASE StatusAllows(r) /\ Go(r, AfterStatus(call[r].op)) /\ UNCHANGED <<database, differences>>
    <3>1. /\ pc[r] = "status" /\ pc'[r] = AfterStatus(call[r].op)
          /\ \A s \in Callers : s # r => pc'[s] = pc[s]
      BY <1>5, <2>2 DEF ReadStatus, Go, IInv, TypeOK
    <3>2. /\ AfterStatus(call[r].op) # "idle"
          /\ AfterStatus(call[r].op) = "write" =>
                 call[r].op # "complete" /\ call[r].op \notin LineOps
      BY DEF AfterStatus, LineOps
    <3>. QED
      BY <1>2, <2>2, <3>1, <3>2 DEF StatusAllows, Go
  <2>. QED
    BY <1>5, <2>1, <2>2 DEF ReadStatus
<1>6. ASSUME NEW r \in Callers, ReadLines(r)
      PROVE  ChecksAreFresh'
  <2>. DEFINE c == call[r].count
  <2>1. CASE Refuse(r)
    BY <1>3, <1>6, <2>1 DEF Refuse, ReadLines
  <2>2. CASE ~Refuse(r)
    <3>1. /\ AllCounted(c) /\ pc[r] = "lines" /\ pc'[r] = "write"
          /\ \A s \in Callers : s # r => pc'[s] = pc[s]
          /\ call' = call /\ database' = database
      BY <1>6, <2>2 DEF ReadLines, Go, IInv, TypeOK
    <3>2. differences'[r] = [i \in LinesOf(c) |-> line[i].counted - line[i].expected]
      BY <1>6, <2>2 DEF ReadLines, IInv, LocalsAreFunctions
    <3>3. call[r].op = "complete" /\ status[c] \in Required(call[r].op)
      BY <3>1 DEF IInv, ChecksHold, SerialInv, ChecksAreFresh
    <3>. QED
      BY <1>2, <3>1, <3>2, <3>3 DEF LineOps
  <2>. QED
    BY <2>1, <2>2
<1>7. ASSUME NEW r \in Callers, FindLocation(r) \/ FindExistingLine(r) \/ FindLine(r)
      PROVE  ChecksAreFresh'
  <2>1. CASE Refuse(r)
    BY <1>3, <1>7, <2>1 DEF Refuse, FindLocation, FindExistingLine, FindLine, LookUp
  <2>2. CASE ~Refuse(r)
    <3>1. /\ pc[r] \in {"location", "existing", "line"} /\ pc'[r] \in {"existing", "write"}
          /\ \A s \in Callers : s # r => pc'[s] = pc[s]
          /\ call' = call /\ database' = database
          /\ pc[r] = "line" => call[r].arg \in LinesOf(call[r].count)
      BY <1>7, <2>2 DEF FindLocation, FindExistingLine, FindLine, LookUp, Go, IInv, TypeOK
    <3>2. /\ pc[r] \in {"location", "existing"} => call[r].op = "addLine"
          /\ pc[r] = "line" => call[r].op \in LineOps
          /\ status[call[r].count] \in Required(call[r].op)
      BY <3>1 DEF IInv, ChecksHold, SerialInv, ChecksAreFresh
    <3>. QED
      BY <1>2, <3>1, <3>2 DEF LineOps
  <2>. QED
    BY <2>1, <2>2
<1>8. ASSUME NEW r \in Callers, FindInactiveWarehouse(r) \/ Write(r) \/ FailWrite(r)
      PROVE  ChecksAreFresh'
  <2>1. pc[r] # "idle" /\ Answer(r)
    BY <1>8
    DEF FindInactiveWarehouse, Write, WriteCreate, WriteStart, WriteComplete, WriteCancel,
        WriteAddLine, WriteUpdateLine, WriteRemoveLine, Writing, FailWrite, Refuse
  <2>. QED
    BY <1>3, <2>1
<1>9. ASSUME NEW l \in Locations, DeleteLocation(l)
      PROVE  ChecksAreFresh'
  BY <1>9 DEF DeleteLocation, SerialInv, ChecksAreFresh, LinesOf, AllCounted
<1>. QED
  BY <1>1, <1>4, <1>5, <1>6, <1>7, <1>8, <1>9 DEF Next, SerialInv

\* Nothing is stale as long as one call runs at a time.
LEMMA SerialChecks ==
    ASSUME InFlight = 1
    PROVE  Spec => []SerialInv
<1>1. Init => SerialInv
  BY DEF Init, SerialInv, OneAtATime, ChecksAreFresh
<1>2. IInv /\ SerialInv /\ [Next]_vars => SerialInv'
  <2>1. ASSUME UNCHANGED vars, SerialInv PROVE SerialInv'
    BY <2>1 DEF vars, database, SerialInv, OneAtATime, ChecksAreFresh, LinesOf, AllCounted
  <2>. QED
    BY <2>1, ChecksStayFresh
<1>. QED
  BY <1>1, <1>2, Invariance, PTL DEF Spec

-----------------------------------------------------------------------------
(* One call at a time implements CountLifecycle. *)

\* What the sheet shows of a line.
Shown(row) ==
    [expected |-> row.expected, counted |-> row.counted, difference |-> row.difference]

SheetIsTheLines ==
    \A c \in Counts, l \in Locations :
        /\ \A i \in LinesOf(c) : line[i].location = l => SheetLine(c, l) = Shown(line[i])
        /\ ~Listed(c, l) => SheetLine(c, l) = NoLine

LEMMA SheetFollows == OneLinePerLocation => SheetIsTheLines
<1>. SUFFICES ASSUME OneLinePerLocation, NEW c \in Counts, NEW l \in Locations
              PROVE  /\ \A i \in LinesOf(c) : line[i].location = l => SheetLine(c, l) = Shown(line[i])
                     /\ ~Listed(c, l) => SheetLine(c, l) = NoLine
  BY DEF SheetIsTheLines
<1>1. ASSUME NEW i \in LinesOf(c), line[i].location = l
      PROVE  SheetLine(c, l) = Shown(line[i])
  <2>1. \A j \in LinesOf(c) : line[j].location = l => j = i
    BY <1>1 DEF OneLinePerLocation, LinesOf
  <2>2. (CHOOSE j \in LinesOf(c) : line[j].location = l) = i
    BY <1>1, <2>1
  <2>. QED
    BY <1>1, <2>2 DEF SheetLine, LineAt, Listed, Shown
<1>. QED
  BY <1>1 DEF SheetLine

LEMMA SheetFollowsNext == OneLinePerLocation' => SheetIsTheLines'
  BY SheetFollows, PTL

\* A line is never shown as an empty place of the sheet.
LEMMA LinesAreShown ==
    ASSUME NEW row \in CountLines
    PROVE  /\ Shown(row) # NoLine
           /\ Shown(row) \in [expected: Quantities, counted: Quantities \cup {Null},
                              difference: Int \cup {Null}]
  BY NoLineIsNone DEF Shown, CountLines

\* The locations of the abstract sheet are those of the lines.
LEMMA ListedAreTheLines ==
    ASSUME TypeOK, OneLinePerLocation, NEW c \in Counts
    PROVE  Lifecycle!Listed(c) = {l \in Locations : Listed(c, l)}
<1>1. ASSUME NEW l \in Locations
      PROVE  SheetLine(c, l) # NoLine <=> Listed(c, l)
  <2>1. CASE Listed(c, l)
    <3>1. PICK i \in LinesOf(c) : line[i].location = l
      BY <2>1 DEF Listed
    <3>2. SheetLine(c, l) = Shown(line[i]) /\ line[i] \in CountLines
      BY <3>1, SheetFollows DEF SheetIsTheLines, TypeOK, LinesOf
    <3>. QED
      BY <2>1, <3>2, LinesAreShown
  <2>2. CASE ~Listed(c, l)
    BY <2>2 DEF SheetLine
  <2>. QED
    BY <2>1, <2>2
<1>. QED
  BY <1>1 DEF Lifecycle!Listed

Sheet == [c \in Counts |-> [l \in Locations |-> SheetLine(c, l)]]

\* A place is shown as it was when its line is the same.
LEMMA OtherPlacesStay ==
    ASSUME OneLinePerLocation, OneLinePerLocation', NEW c \in Counts, NEW l \in Locations,
           \A i \in LineIds :
               \/ line[i] # NoLine /\ line[i].count = c /\ line[i].location = l
               \/ line'[i] # NoLine /\ line'[i].count = c /\ line'[i].location = l
               => line'[i] = line[i]
    PROVE  SheetLine(c, l)' = SheetLine(c, l)
<1>1. SheetIsTheLines /\ SheetIsTheLines'
  BY SheetFollows, SheetFollowsNext
<1>2. ASSUME NEW i \in LinesOf(c), line[i].location = l
      PROVE  SheetLine(c, l)' = SheetLine(c, l)
  <2>1. i \in LinesOf(c)' /\ line'[i] = line[i]
    BY <1>2 DEF LinesOf
  <2>2. SheetLine(c, l) = Shown(line[i])
    BY <1>1, <1>2 DEF SheetIsTheLines
  <2>3. SheetLine(c, l)' = Shown(line'[i])
    BY <1>1, <1>2, <2>1 DEF SheetIsTheLines
  <2>. QED
    BY <2>1, <2>2, <2>3
<1>3. ASSUME ~Listed(c, l)
      PROVE  SheetLine(c, l)' = SheetLine(c, l)
  <2>1. ~Listed(c, l)'
    BY <1>3 DEF Listed, LinesOf
  <2>. QED
    BY <1>1, <1>3, <2>1 DEF SheetIsTheLines
<1>. QED
  BY <1>2, <1>3 DEF Listed

LEMMA OnePlaceChanges ==
    ASSUME NEW c \in Counts, NEW l \in Locations, NEW shown, SheetLine(c, l)' = shown,
           \A d \in Counts, k \in Locations :
               d # c \/ k # l => SheetLine(d, k)' = SheetLine(d, k)
    PROVE  Sheet' = [Sheet EXCEPT ![c][l] = shown]
<1>1. Sheet' = [d \in Counts |-> [k \in Locations |-> SheetLine(d, k)']]
  BY DEF Sheet
<1>2. [Sheet EXCEPT ![c][l] = shown] =
          [d \in Counts |-> [k \in Locations |->
              IF d = c /\ k = l THEN shown ELSE SheetLine(d, k)]]
  BY DEF Sheet
<1>3. \A d \in Counts, k \in Locations :
          SheetLine(d, k)' = IF d = c /\ k = l THEN shown ELSE SheetLine(d, k)
  OBVIOUS
<1>. QED
  BY <1>1, <1>2, <1>3

\* Reading, refusing and deleting a location leave the sheet as it is.
LEMMA SheetStays ==
    ASSUME UNCHANGED <<status, line>>
    PROVE  UNCHANGED Lifecycle!vars
<1>1. \A c \in Counts, l \in Locations : SheetLine(c, l)' = SheetLine(c, l)
  BY DEF SheetLine, LineAt, Listed, LinesOf
<1>. QED
  BY <1>1 DEF Lifecycle!vars

LEMMA StatusChanges ==
    ASSUME IInv, SerialInv, NEW r \in Callers, WriteCreate(r) \/ WriteStart(r) \/ WriteCancel(r)
    PROVE  Lifecycle!Next
<1>. DEFINE c == call[r].count
<1>1. c \in Counts /\ status[c] \in Required(call[r].op)
  BY CallShape
  DEF IInv, TypeOK, SerialInv, ChecksAreFresh, WriteCreate, WriteStart, WriteCancel, Writing
<1>2. UNCHANGED [d \in Counts |-> [l \in Locations |-> SheetLine(d, l)]]
  <2>1. line' = line
    BY DEF WriteCreate, WriteStart, WriteCancel
  <2>. QED
    BY <2>1 DEF SheetLine, LineAt, Listed, LinesOf
<1>3. CASE WriteCreate(r)
  BY <1>1, <1>2, <1>3 DEF WriteCreate, Lifecycle!Next, Lifecycle!Create, Lifecycle!Becomes
<1>4. CASE WriteStart(r)
  BY <1>1, <1>2, <1>4
  DEF WriteStart, Writing, Required, Lifecycle!Next, Lifecycle!Start, Lifecycle!Becomes
<1>5. CASE WriteCancel(r)
  BY <1>1, <1>2, <1>5
  DEF WriteCancel, Writing, Required, Lifecycle!Next, Lifecycle!Cancel, Lifecycle!Becomes,
      Lifecycle!Open
<1>. QED
  BY <1>3, <1>4, <1>5

LEMMA AddLineAdds ==
    ASSUME IInv, IInv', SerialInv, NEW r \in Callers, WriteAddLine(r)
    PROVE  Lifecycle!Next
<1>1. PICK m \in Calls : m = call[r]
  BY DEF IInv, TypeOK, WriteAddLine, Writing
<1>. DEFINE c == m.count
            l == m.arg
            row == [count |-> c, location |-> l, expected |-> m.qty,
                    counted |-> Null, difference |-> Null]
<1>2. /\ c \in Counts /\ l \in Locations /\ m.qty \in Quantities
      /\ ~Listed(c, l) /\ status[c] \in Required("addLine")
  BY <1>1, CallShape DEF WriteAddLine, Writing, InsertFits, SerialInv, ChecksAreFresh
<1>3. PICK i \in LineIds \ issued : line' = [line EXCEPT ![i] = row]
  BY <1>1 DEF WriteAddLine
<1>4. /\ line[i] = NoLine /\ line'[i] = row /\ row # NoLine
      /\ \A j \in LineIds : j # i => line'[j] = line[j]
  <2>1. row \in CountLines
    BY <1>2 DEF CountLines
  <2>. QED
    BY <1>3, <2>1, NoLineIsNone DEF IInv, TypeOK, CountLines
<1>5. SheetLine(c, l)' = [expected |-> m.qty, counted |-> Null, difference |-> Null]
  <2>1. i \in LinesOf(c)' /\ line'[i].location = l
    BY <1>4 DEF LinesOf
  <2>2. SheetLine(c, l)' = Shown(line'[i])
    BY <1>2, <2>1, SheetFollowsNext DEF SheetIsTheLines, IInv
  <2>. QED
    BY <1>4, <2>2 DEF Shown
<1>6. \A d \in Counts, k \in Locations : d # c \/ k # l => SheetLine(d, k)' = SheetLine(d, k)
  BY <1>4, OtherPlacesStay DEF IInv
<1>7. Sheet' = [Sheet EXCEPT ![c][l] =
                    [expected |-> m.qty, counted |-> Null, difference |-> Null]]
  BY <1>2, <1>5, <1>6, OnePlaceChanges
<1>8. l \notin Lifecycle!Listed(c)
  BY <1>2, ListedAreTheLines DEF IInv
<1>9. Lifecycle!Add(c, l, m.qty)
  <2>1. status[c] \in Lifecycle!Open /\ status' = status
    BY <1>2 DEF WriteAddLine, Required, Lifecycle!Open
  <2>. QED
    BY <1>7, <1>8, <2>1 DEF Lifecycle!Add, Sheet
<1>. QED
  BY <1>2, <1>9 DEF Lifecycle!Next

Updated(row, n) == [row EXCEPT !.counted = n, !.difference = Null]
Settled(row, d) == [row EXCEPT !.difference = d]

\* Changing a line changes what is shown of it in the same way.
LEMMA ShownChanges ==
    ASSUME NEW row \in CountLines, NEW n, NEW d
    PROVE  /\ Shown(Updated(row, n)) = Updated(Shown(row), n)
           /\ Shown(Settled(row, d)) = Settled(Shown(row), d)
<1>. DEFINE e == row.expected
            q == row.counted
<1>1. /\ Updated(row, n).expected = e /\ Updated(row, n).counted = n
      /\ Updated(row, n).difference = Null
      /\ Settled(row, d).expected = e /\ Settled(row, d).counted = q
      /\ Settled(row, d).difference = d
  BY DEF Updated, Settled, CountLines
<1>2. ASSUME NEW x, Shown(row) = [expected |-> e, counted |-> q, difference |-> x]
      PROVE  /\ Updated(Shown(row), n) = [expected |-> e, counted |-> n, difference |-> Null]
             /\ Settled(Shown(row), d) = [expected |-> e, counted |-> q, difference |-> d]
  <2>. DEFINE recounted == [Shown(row) EXCEPT !.counted = n]
  <2>. HIDE DEF e, q
  <2>1. recounted = [expected |-> e, counted |-> n, difference |-> x]
    BY <1>2
  <2>. HIDE DEF recounted
  <2>2. [recounted EXCEPT !.difference = Null] = [expected |-> e, counted |-> n, difference |-> Null]
    BY <2>1
  <2>3. [Shown(row) EXCEPT !.difference = d] = [expected |-> e, counted |-> q, difference |-> d]
    BY <1>2
  <2>. QED
    BY <2>2, <2>3 DEF recounted, Updated, Settled
<1>. QED
  BY <1>1, <1>2 DEF Shown

LEMMA UpdateLineCounts ==
    ASSUME IInv, IInv', SerialInv, NEW r \in Callers, WriteUpdateLine(r)
    PROVE  Lifecycle!Next
<1>1. PICK m \in Calls : m = call[r]
  BY DEF IInv, TypeOK, WriteUpdateLine, Writing
<1>. DEFINE c == m.count
            i == m.arg
            row == Updated(line[i], m.qty)
<1>2. /\ c \in Counts /\ i \in LinesOf(c) /\ m.qty \in Quantities
      /\ status[c] \in Required("updateLine")
  BY <1>1, CallShape DEF WriteUpdateLine, Writing, LineOps, SerialInv, ChecksAreFresh
<1>0. PICK l \in Locations : l = line[i].location
  BY <1>2 DEF IInv, TypeOK, LinesOf, CountLines
<1>3. /\ i \in LineIds /\ line[i] # NoLine /\ line[i] \in CountLines
      /\ l = line[i].location /\ line[i].count = c
  BY <1>0, <1>2 DEF IInv, TypeOK, LinesOf, CountLines
<1>4. /\ line'[i] = row /\ row.count = c /\ row.location = l /\ row # NoLine
      /\ \A j \in LineIds : j # i => line'[j] = line[j]
  <2>1. row \in CountLines /\ row.count = c /\ row.location = l
    BY <1>2, <1>3 DEF CountLines, Updated
  <2>2. row # NoLine
    BY <2>1, NoLineIsNone DEF CountLines
  <2>3. line' = [line EXCEPT ![i] = row]
    BY <1>1, <1>3 DEF WriteUpdateLine, Updated, IInv, TypeOK
  <2>. HIDE DEF row
  <2>. QED
    BY <1>3, <2>1, <2>2, <2>3 DEF IInv, TypeOK
<1>5. SheetLine(c, l) = Shown(line[i])
  BY <1>2, <1>3, SheetFollows DEF SheetIsTheLines, IInv
<1>6. SheetLine(c, l)' = Updated(Shown(line[i]), m.qty)
  <2>1. i \in LinesOf(c)' /\ line'[i].location = l
    BY <1>3, <1>4 DEF LinesOf
  <2>2. SheetLine(c, l)' = Shown(line'[i])
    BY <1>2, <1>3, <2>1, SheetFollowsNext DEF SheetIsTheLines, IInv
  <2>3. Shown(row) = Updated(Shown(line[i]), m.qty)
    BY <1>3, ShownChanges
  <2>. HIDE DEF row
  <2>. QED
    BY <1>4, <2>2, <2>3
<1>7. ASSUME NEW d \in Counts, NEW k \in Locations, d # c \/ k # l
      PROVE  SheetLine(d, k)' = SheetLine(d, k)
  <2>. HIDE DEF row
  <2>. QED
    BY <1>3, <1>4, <1>7, OtherPlacesStay DEF IInv
<1>8. Sheet' = [Sheet EXCEPT ![c][l] = Updated(Shown(line[i]), m.qty)]
  BY <1>2, <1>3, <1>6, <1>7, OnePlaceChanges
<1>9. Sheet' = [Sheet EXCEPT ![c][l].counted = m.qty, ![c][l].difference = Null]
  <2>. DEFINE old == Shown(line[i])
  <2>1. /\ Sheet = [d \in Counts |-> Sheet[d]] /\ Sheet[c] = [k \in Locations |-> Sheet[c][k]]
        /\ Sheet[c][l] = old
    BY <1>2, <1>3, <1>5 DEF Sheet
  <2>2. \A new : [[Sheet EXCEPT ![c][l].counted = m.qty] EXCEPT ![c][l].difference = new]
            = [Sheet EXCEPT ![c][l] = [old EXCEPT !.counted = m.qty, !.difference = new]]
    <3>. HIDE DEF old
    <3>. QED
      BY <1>2, <1>3, <2>1
  <2>. QED
    BY <1>8, <2>2 DEF Updated
<1>10. l \in Lifecycle!Listed(c)
  BY <1>2, <1>3, ListedAreTheLines DEF IInv, Listed
<1>11. Lifecycle!Count(c, l, m.qty)
  <2>1. status[c] \in Lifecycle!Open /\ status' = status
    BY <1>2 DEF WriteUpdateLine, Required, Lifecycle!Open
  <2>. QED
    BY <1>9, <1>10, <2>1 DEF Lifecycle!Count, Sheet
<1>. QED
  BY <1>2, <1>3, <1>11 DEF Lifecycle!Next

LEMMA RemoveLineRemoves ==
    ASSUME IInv, IInv', SerialInv, NEW r \in Callers, WriteRemoveLine(r)
    PROVE  Lifecycle!Next
<1>1. PICK m \in Calls : m = call[r]
  BY DEF IInv, TypeOK, WriteRemoveLine, Writing
<1>. DEFINE c == m.count
            i == m.arg
<1>2. c \in Counts /\ i \in LinesOf(c) /\ status[c] \in Required("removeLine")
  BY <1>1, CallShape DEF WriteRemoveLine, Writing, LineOps, SerialInv, ChecksAreFresh
<1>0. PICK l \in Locations : l = line[i].location
  BY <1>2 DEF IInv, TypeOK, LinesOf, CountLines
<1>3. /\ i \in LineIds /\ line[i] # NoLine
      /\ l = line[i].location /\ line[i].count = c
  BY <1>0, <1>2 DEF LinesOf
<1>4. line'[i] = NoLine /\ \A j \in LineIds : j # i => line'[j] = line[j]
  BY <1>1, <1>3 DEF WriteRemoveLine, IInv, TypeOK
<1>5. SheetLine(c, l)' = NoLine
  <2>1. \A j \in LinesOf(c) : line[j].location = l => j = i
    BY <1>3 DEF IInv, OneLinePerLocation, LinesOf
  <2>2. ~Listed(c, l)'
    BY <1>4, <2>1 DEF Listed, LinesOf
  <2>. QED
    BY <1>2, <1>3, <2>2, SheetFollowsNext DEF SheetIsTheLines, IInv
<1>6. \A d \in Counts, k \in Locations : d # c \/ k # l => SheetLine(d, k)' = SheetLine(d, k)
  BY <1>3, <1>4, OtherPlacesStay DEF IInv
<1>7. Sheet' = [Sheet EXCEPT ![c][l] = NoLine]
  BY <1>2, <1>3, <1>5, <1>6, OnePlaceChanges
<1>8. l \in Lifecycle!Listed(c)
  BY <1>2, <1>3, ListedAreTheLines DEF IInv, Listed
<1>9. Lifecycle!Remove(c, l)
  <2>1. status[c] = "DRAFT" /\ status' = status
    BY <1>2 DEF WriteRemoveLine, Required
  <2>. QED
    BY <1>7, <1>8, <2>1 DEF Lifecycle!Remove, Sheet
<1>. QED
  BY <1>2, <1>3, <1>9 DEF Lifecycle!Next

\* The differences that complete has computed are still those of the lines.
LEMMA CompleteSettles ==
    ASSUME IInv, IInv', SerialInv, NEW r \in Callers, WriteComplete(r)
    PROVE  Lifecycle!Next
<1>0. PICK c \in Counts : c = call[r].count
  BY CallShape DEF IInv, TypeOK, WriteComplete, Writing
<1>1. /\ c = call[r].count /\ status[c] = "IN_PROGRESS" /\ AllCounted(c)
      /\ differences[r] = [i \in LinesOf(c) |-> line[i].counted - line[i].expected]
  BY <1>0 DEF WriteComplete, Writing, Required, SerialInv, ChecksAreFresh
<1>2. \A i \in LinesOf(c) :
          /\ i \in LineIds /\ line[i] \in CountLines /\ line[i] # NoLine
          /\ line[i].count = c /\ line[i].location \in Locations
  BY DEF IInv, TypeOK, LinesOf, CountLines
<1>3. /\ \A i \in LinesOf(c) :
             line'[i] = [line[i] EXCEPT !.difference = line[i].counted - line[i].expected]
      /\ \A i \in LineIds : i \notin LinesOf(c) => line'[i] = line[i]
  BY <1>1, <1>2 DEF WriteComplete
<1>4. \A i \in LineIds : (line'[i] = NoLine <=> line[i] = NoLine) /\
          (line[i] # NoLine => line'[i].count = line[i].count
                               /\ line'[i].location = line[i].location)
  <2>1. \A i \in LinesOf(c) :
            line'[i].count = line[i].count /\ line'[i].location = line[i].location
    BY <1>2, <1>3 DEF CountLines
  <2>2. ASSUME NEW i \in LinesOf(c)
        PROVE  line'[i] # NoLine
    <3>1. line[i].counted \in Quantities /\ line[i].expected \in Quantities
      BY <1>1, <1>2 DEF AllCounted, CountLines
    <3>2. line[i].counted - line[i].expected \in Int
      <4>1. \A q \in Quantities : q \in Int
        BY QuantitiesAreNaturals
      <4>2. \A p, q \in Quantities : p - q \in Int
        BY <4>1
      <4>. QED
        BY <3>1, <4>2
    <3>3. line'[i] \in CountLines
      BY <1>2, <1>3, <3>2 DEF CountLines
    <3>. QED
      BY <3>3, NoLineIsNone DEF CountLines
  <2>. QED
    BY <1>2, <1>3, <2>1, <2>2
<1>5. ASSUME NEW l \in Locations
      PROVE  SheetLine(c, l)' = IF Listed(c, l) THEN Lifecycle!Settle(SheetLine(c, l))
                                                ELSE SheetLine(c, l)
  <2>1. ASSUME NEW i \in LinesOf(c), line[i].location = l
        PROVE  SheetLine(c, l)' = Lifecycle!Settle(SheetLine(c, l))
    <3>1. SheetLine(c, l) = Shown(line[i])
      BY <1>1, <2>1, SheetFollows DEF SheetIsTheLines, IInv
    <3>2. i \in LinesOf(c)' /\ line'[i].location = l
      BY <1>2, <1>4, <2>1 DEF LinesOf
    <3>3. SheetLine(c, l)' = Shown(line'[i])
      BY <1>1, <3>2, SheetFollowsNext DEF SheetIsTheLines, IInv
    <3>4. Shown(line'[i]) = Lifecycle!Settle(Shown(line[i]))
      <4>. DEFINE d == line[i].counted - line[i].expected
      <4>1. Lifecycle!Settle(Shown(line[i])) = Settled(Shown(line[i]), d)
        <5>1. d = Shown(line[i]).counted - Shown(line[i]).expected
          BY DEF Shown
        <5>. QED
          BY <5>1 DEF Lifecycle!Settle, Settled
      <4>2. line'[i] = Settled(line[i], d)
        BY <1>3, <2>1 DEF Settled
      <4>. QED
        BY <1>2, <2>1, <4>1, <4>2, ShownChanges
    <3>. QED
      BY <3>1, <3>3, <3>4
  <2>2. CASE ~Listed(c, l)
    <3>1. ~Listed(c, l)'
      BY <1>4, <2>2 DEF Listed, LinesOf
    <3>. QED
      BY <2>2, <3>1 DEF SheetLine
  <2>. QED
    BY <2>1, <2>2 DEF Listed
<1>6. \A d \in Counts, k \in Locations : d # c => SheetLine(d, k)' = SheetLine(d, k)
  <2>. SUFFICES ASSUME NEW d \in Counts, NEW k \in Locations, d # c
                PROVE  SheetLine(d, k)' = SheetLine(d, k)
    OBVIOUS
  <2>1. \A i \in LineIds :
            \/ line[i] # NoLine /\ line[i].count = d /\ line[i].location = k
            \/ line'[i] # NoLine /\ line'[i].count = d /\ line'[i].location = k
            => line'[i] = line[i]
    BY <1>2, <1>3, <1>4
  <2>. QED
    BY <2>1, OtherPlacesStay DEF IInv
<1>7. Sheet' = [Sheet EXCEPT ![c] =
          [l \in Locations |-> IF l \in Lifecycle!Listed(c) THEN Lifecycle!Settle(@[l]) ELSE @[l]]]
  <2>. DEFINE settled ==
                [l \in Locations |-> IF l \in Lifecycle!Listed(c) THEN Lifecycle!Settle(Sheet[c][l])
                                                                  ELSE Sheet[c][l]]
  <2>1. settled = [l \in Locations |-> SheetLine(c, l)']
    <3>1. \A l \in Locations : l \in Lifecycle!Listed(c) <=> Listed(c, l)
      BY <1>1, ListedAreTheLines DEF IInv
    <3>2. \A l \in Locations : Sheet[c][l] = SheetLine(c, l)
      BY <1>1 DEF Sheet
    <3>. QED
      BY <1>5, <3>1, <3>2
  <2>2. Sheet' = [Sheet EXCEPT ![c] = settled]
    <3>1. Sheet' = [d \in Counts |-> [l \in Locations |-> SheetLine(d, l)']]
      BY DEF Sheet
    <3>2. Sheet = [d \in Counts |-> [l \in Locations |-> SheetLine(d, l)]]
      BY DEF Sheet
    <3>. HIDE DEF settled
    <3>. QED
      BY <1>1, <1>6, <2>1, <3>1, <3>2
  <2>. QED
    BY <2>2
<1>8. Lifecycle!Listed(c) # {} /\ \A l \in Lifecycle!Listed(c) : Sheet[c][l].counted # Null
  <2>1. PICK i \in LinesOf(c) : TRUE
    BY <1>1 DEF AllCounted
  <2>2. line[i].location \in Lifecycle!Listed(c)
    BY <1>1, <1>2, ListedAreTheLines DEF IInv, Listed
  <2>3. ASSUME NEW l \in Lifecycle!Listed(c)
        PROVE  Sheet[c][l].counted # Null
    <3>1. PICK j \in LinesOf(c) : l \in Locations /\ line[j].location = l
      BY <1>1, <2>3, ListedAreTheLines DEF IInv, Listed
    <3>2. Sheet[c][l] = Shown(line[j])
      BY <1>1, <3>1, SheetFollows DEF Sheet, SheetIsTheLines, IInv
    <3>. QED
      BY <1>1, <3>1, <3>2 DEF AllCounted, Shown
  <2>. QED
    BY <2>2, <2>3
<1>9. status' = [status EXCEPT ![c] = "COMPLETED"]
  BY <1>1 DEF WriteComplete
<1>10. Lifecycle!Complete(c)
  BY <1>1, <1>7, <1>8, <1>9 DEF Lifecycle!Complete, Lifecycle!Becomes, Sheet
<1>. QED
  BY <1>1, <1>10 DEF Lifecycle!Next

\* With one call at a time the handlers, each of which checks and writes in
\* statements of its own, are the steps of a count's life; the readings and the
\* refusals between are stutters.  With two calls they are not: TerminalStatusIsFinal.
THEOREM SerialRefinement ==
    ASSUME InFlight = 1
    PROVE  Spec => ImplementsLifecycle
<1>1. Init => Lifecycle!Init
  BY DEF Init, Lifecycle!Init, SheetLine, Listed, LinesOf
<1>2. IInv /\ IInv' /\ SerialInv /\ [Next]_vars => [Lifecycle!Next]_(Lifecycle!vars)
  <2>. SUFFICES ASSUME IInv, IInv', SerialInv, [Next]_vars
                PROVE  Lifecycle!Next \/ UNCHANGED Lifecycle!vars
    OBVIOUS
  <2>1. CASE UNCHANGED vars
    BY <2>1, SheetStays DEF vars, database
  <2>2. ASSUME NEW r \in Callers, Write(r)
        PROVE  Lifecycle!Next
    BY <2>2, StatusChanges, AddLineAdds, UpdateLineCounts, RemoveLineRemoves, CompleteSettles
    DEF Write
  <2>3. ASSUME NEW r \in Callers,
               Receive(r) \/ ReadStatus(r) \/ FindInactiveWarehouse(r) \/ ReadLines(r)
                 \/ FindLocation(r) \/ FindExistingLine(r) \/ FindLine(r) \/ FailWrite(r)
        PROVE  UNCHANGED Lifecycle!vars
    <3>1. UNCHANGED <<status, line>>
      BY <2>3
      DEF Receive, ReadStatus, FindInactiveWarehouse, ReadLines, LookUp, FindLocation,
          FindExistingLine, FindLine, FailWrite, Refuse, database
    <3>. QED
      BY <3>1, SheetStays
  <2>4. ASSUME NEW l \in Locations, DeleteLocation(l)
        PROVE  UNCHANGED Lifecycle!vars
    BY <2>4, SheetStays DEF DeleteLocation
  <2>. QED
    BY <2>1, <2>2, <2>3, <2>4 DEF Next
<1>. QED
  BY <1>1, <1>2, Invariance, SerialChecks, PTL DEF Spec, ImplementsLifecycle, Lifecycle!Spec
=============================================================================
