------------------------------- MODULE Records -------------------------------
(***************************************************************************)
(* The business tables of one workspace (customers, services,              *)
(* appointments, invoices with their details) and the request handlers     *)
(* that write them.  A handler judges by unlocked reads, remembers the     *)
(* INSERTs and the UPDATEs it is about to send, and commits them later at  *)
(* READ COMMITTED: an UPDATE carries only the columns that differ from     *)
(* what was read, an INSERT or a new reference is refused by the foreign   *)
(* keys when the row referred to is gone, and an UPDATE of a row that is   *)
(* gone fails.  All reads of a handler are taken as one.                   *)
(*                                                                         *)
(* A row is Unused before its INSERT and Erased after its permanent        *)
(* deletion: the database gives no id twice.  A slot is a day: one time of *)
(* the day stands for all.  Every status other than Cancelled counts as    *)
(* Pending does.                                                           *)
(***************************************************************************)
EXTENDS Naturals

CONSTANTS
  Customers, Services, Appointments, Invoices,  \* the ids of each table
  Phones, Emails,   \* normalised telephone numbers and addresses
  MaxDay,           \* bound: the last day there is
  Handlers,         \* requests that may run at the same time
  None,             \* NULL
  Unused, Erased    \* not inserted yet; permanently deleted

Ids == Customers \union Services \union Appointments \union Invoices
Days == 1..MaxDay
Statuses == {"Pending", "Cancelled"}

ASSUME RecordConstants ==
  /\ Customers \intersect Services = {}
  /\ Customers \intersect (Appointments \union Invoices) = {}
  /\ Services \intersect (Appointments \union Invoices) = {}
  /\ Appointments \intersect Invoices = {}
  /\ None \notin Phones \union Emails
  /\ MaxDay \in Nat \ {0}
  /\ Unused # Erased

VARIABLES
  row,      \* the committed rows
  today,    \* the date of the workspace
  handler   \* what each handler is about to write

vars == <<row, today, handler>>

CustomerRow ==
  [deleted : BOOLEAN, phone : Phones \union {None}, email : Emails \union {None}]
ServiceRow == [deleted : BOOLEAN]
AppointmentRow ==
  [deleted : BOOLEAN, customer : Customers, services : {{s} : s \in Services},
   slot : Days, status : Statuses]
InvoiceRow ==
  [deleted : BOOLEAN, customer : Customers, services : (SUBSET Services) \ {{}}]

RowsOf(x) ==
  CASE x \in Customers    -> CustomerRow
    [] x \in Services     -> ServiceRow
    [] x \in Appointments -> AppointmentRow
    [] x \in Invoices     -> InvoiceRow

\* The two marks are no rows.
ASSUME MarkConstants == \A x \in Ids : Unused \notin RowsOf(x) /\ Erased \notin RowsOf(x)

Exists(x) == row[x] \notin {Unused, Erased}
Live(x) == Exists(x) /\ ~row[x].deleted
InBin(x) == Exists(x) /\ row[x].deleted

\* The foreign keys among some columns of a booking (an appointment or an
\* invoice).
Refers(columns) ==
  (IF "customer" \in DOMAIN columns THEN {columns.customer} ELSE {})
    \union (IF "services" \in DOMAIN columns THEN columns.services ELSE {})

\* The bookings of x, those in the bin included.
History(x) ==
  {b \in Appointments \union Invoices : Exists(b) /\ x \in Refers(row[b])}

Idle == [insert |-> {}, set |-> [x \in {} |-> None]]

\* Types, and the foreign keys: whatever a row refers to has a row.
TypeOK ==
  /\ \A x \in Ids : Exists(x) => row[x] \in RowsOf(x)
  /\ \A x \in Ids : Exists(x) => \A y \in Refers(row[x]) : Exists(y)
  /\ today \in Days
  /\ \A h \in Handlers :
       /\ DOMAIN handler[h].set \subseteq Ids
       /\ handler[h].insert \subseteq DOMAIN handler[h].set
       /\ \A x \in handler[h].insert :
            row[x] = Unused /\ handler[h].set[x] \in RowsOf(x)

Init ==
  /\ row = [x \in Ids |-> Unused]
  /\ today = 1
  /\ handler = [h \in Handlers |-> Idle]

-----------------------------------------------------------------------------

\* The id of a row that is inserted is nobody else's.
Free(x) == row[x] = Unused /\ \A h \in Handlers : x \notin handler[h].insert

\* The handler is about to send these rows.
Insert(h, rows) ==
  /\ handler[h] = Idle
  /\ handler' = [handler EXCEPT ![h] = [insert |-> DOMAIN rows, set |-> rows]]
  /\ UNCHANGED <<row, today>>

\* The handler is about to make row x read as new.  Columns that are equal
\* already are not sent; with none left there is nothing to commit.
Update(h, x, new) ==
  LET changed == {f \in DOMAIN new : new[f] # row[x][f]} IN
  /\ handler[h] = Idle
  /\ changed # {}
  /\ handler' = [handler EXCEPT ![h] =
       [insert |-> {}, set |-> [y \in {x} |-> [f \in changed |-> new[f]]]]]
  /\ UNCHANGED <<row, today>>

\* The database accepts what the handler sends.
Accepted(h) ==
  \A x \in DOMAIN handler[h].set :
    /\ x \in handler[h].insert \/ Exists(x)
    /\ \A y \in Refers(handler[h].set[x]) : Exists(y)

Overlaid(old, columns) ==
  [f \in DOMAIN old |-> IF f \in DOMAIN columns THEN columns[f] ELSE old[f]]

Commit(h) ==
  /\ handler[h] # Idle
  /\ Accepted(h)
  /\ row' = [x \in Ids |->
       CASE x \in handler[h].insert     -> handler[h].set[x]
         [] x \notin DOMAIN handler[h].set -> row[x]
         [] OTHER                       -> Overlaid(row[x], handler[h].set[x])]
  /\ handler' = [handler EXCEPT ![h] = Idle]
  /\ UNCHANGED today

\* Refused by the database, or any other exception: everything is rolled back.
Rollback(h) ==
  /\ handler[h] # Idle
  /\ handler' = [handler EXCEPT ![h] = Idle]
  /\ UNCHANGED <<row, today>>

DayPasses ==
  /\ today < MaxDay
  /\ today' = today + 1
  /\ UNCHANGED <<row, handler>>
=============================================================================
