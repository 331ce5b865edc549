--------------------------- MODULE BookingsProofs ---------------------------
(***************************************************************************)
(* Proofs about the business tables (Records, CustomerRecords, Bookings)   *)
(* and what is read off them (Reports), for any number of rows, days and   *)
(* file rows: first with any number of handlers, then with requests that   *)
(* do not overlap.                                                         *)
(***************************************************************************)
EXTENDS Reports, TLAPS

USE RecordConstants, MarkConstants, CustomerConstants DEF Ids

-----------------------------------------------------------------------------
(* Rows and columns.                                                       *)

LEMMA RowsOfTables ==
  /\ \A c \in Customers : RowsOf(c) = CustomerRow
  /\ \A s \in Services : RowsOf(s) = ServiceRow
  /\ \A a \in Appointments : RowsOf(a) = AppointmentRow
  /\ \A i \in Invoices : RowsOf(i) = InvoiceRow
  BY DEF RowsOf

LEMMA CustomerFields ==
  ASSUME NEW r \in CustomerRow
  PROVE  /\ DOMAIN r = {"deleted", "phone", "email"}
         /\ r.deleted \in BOOLEAN
         /\ r.phone \in Phones \union {None} /\ r.email \in Emails \union {None}
         /\ Refers(r) = {}
  BY DEF CustomerRow, Refers

LEMMA ServiceFields ==
  ASSUME NEW r \in ServiceRow
  PROVE  DOMAIN r = {"deleted"} /\ r.deleted \in BOOLEAN /\ Refers(r) = {}
  BY DEF ServiceRow, Refers

LEMMA AppointmentFields ==
  ASSUME NEW r \in AppointmentRow
  PROVE  /\ DOMAIN r = {"deleted", "customer", "services", "slot", "status"}
         /\ r.deleted \in BOOLEAN /\ r.customer \in Customers
         /\ \E s \in Services : r.services = {s}
         /\ r.slot \in Days /\ r.status \in Statuses
         /\ Refers(r) = {r.customer} \union r.services
  BY DEF AppointmentRow, Refers

LEMMA InvoiceFields ==
  ASSUME NEW r \in InvoiceRow
  PROVE  /\ DOMAIN r = {"deleted", "customer", "services"}
         /\ r.deleted \in BOOLEAN /\ r.customer \in Customers
         /\ r.services \subseteq Services /\ r.services # {}
         /\ Refers(r) = {r.customer} \union r.services
  BY DEF InvoiceRow, Refers

LEMMA RowsMade ==
  /\ \A d \in BOOLEAN, p \in Phones \union {None}, e \in Emails \union {None} :
       [deleted |-> d, phone |-> p, email |-> e] \in CustomerRow
  /\ \A d \in BOOLEAN : [deleted |-> d] \in ServiceRow
  /\ \A d \in BOOLEAN, c \in Customers, s \in Services, t \in Days, st \in Statuses :
       [deleted |-> d, customer |-> c, services |-> {s}, slot |-> t, status |-> st]
         \in AppointmentRow
  /\ \A d \in BOOLEAN, c \in Customers, ss \in (SUBSET Services) \ {{}} :
       [deleted |-> d, customer |-> c, services |-> ss] \in InvoiceRow
  BY DEF CustomerRow, ServiceRow, AppointmentRow, InvoiceRow

\* Some columns of a row of x.
Agree(columns, new) ==
  DOMAIN columns \subseteq DOMAIN new /\ \A f \in DOMAIN columns : columns[f] = new[f]
Partial(x, columns) == \E new \in RowsOf(x) : Agree(columns, new)

LEMMA IdsOfTables ==
  ASSUME NEW x \in Ids
  PROVE  x \in Customers \/ x \in Services \/ x \in Appointments \/ x \in Invoices
  OBVIOUS

LEMMA OverlaidFields ==
  \A old, columns :
    /\ DOMAIN Overlaid(old, columns) = DOMAIN old
    /\ \A f \in DOMAIN old : Overlaid(old, columns)[f] =
         IF f \in DOMAIN columns THEN columns[f] ELSE old[f]
  BY DEF Overlaid

\* A row with some columns of another row of its table is a row of the table.
LEMMA OverlaidRow ==
  ASSUME NEW x \in Ids, NEW old \in RowsOf(x), NEW columns, Partial(x, columns)
  PROVE  Overlaid(old, columns) \in RowsOf(x)
<1>1. PICK new \in RowsOf(x) : Agree(columns, new)
  BY DEF Partial
<1> DEFINE D == DOMAIN columns
<1>2. CASE x \in Customers
  <2>1. old \in CustomerRow /\ new \in CustomerRow
    BY <1>1, <1>2, RowsOfTables
  <2>2. Overlaid(old, columns) =
          [deleted |-> IF "deleted" \in D THEN new.deleted ELSE old.deleted,
           phone |-> IF "phone" \in D THEN new.phone ELSE old.phone,
           email |-> IF "email" \in D THEN new.email ELSE old.email]
    BY <1>1, <2>1, CustomerFields DEF Overlaid, Agree
  <2> QED
    BY <1>2, <2>1, <2>2, CustomerFields, RowsMade, RowsOfTables
<1>3. CASE x \in Services
  <2>1. old \in ServiceRow /\ new \in ServiceRow
    BY <1>1, <1>3, RowsOfTables
  <2>2. Overlaid(old, columns) =
          [deleted |-> IF "deleted" \in D THEN new.deleted ELSE old.deleted]
    BY <1>1, <2>1, ServiceFields DEF Overlaid, Agree
  <2> QED
    BY <1>3, <2>1, <2>2, ServiceFields, RowsMade, RowsOfTables
<1>4. CASE x \in Appointments
  <2>1. old \in AppointmentRow /\ new \in AppointmentRow
    BY <1>1, <1>4, RowsOfTables
  <2>2. Overlaid(old, columns) =
          [deleted |-> IF "deleted" \in D THEN new.deleted ELSE old.deleted,
           customer |-> IF "customer" \in D THEN new.customer ELSE old.customer,
           services |-> IF "services" \in D THEN new.services ELSE old.services,
           slot |-> IF "slot" \in D THEN new.slot ELSE old.slot,
           status |-> IF "status" \in D THEN new.status ELSE old.status]
    BY <1>1, <2>1, AppointmentFields DEF Overlaid, Agree
  <2> QED
    BY <1>4, <2>1, <2>2, AppointmentFields, RowsMade, RowsOfTables
<1>5. CASE x \in Invoices
  <2>1. old \in InvoiceRow /\ new \in InvoiceRow
    BY <1>1, <1>5, RowsOfTables
  <2>2. Overlaid(old, columns) =
          [deleted |-> IF "deleted" \in D THEN new.deleted ELSE old.deleted,
           customer |-> IF "customer" \in D THEN new.customer ELSE old.customer,
           services |-> IF "services" \in D THEN new.services ELSE old.services]
    BY <1>1, <2>1, InvoiceFields DEF Overlaid, Agree
  <2> QED
    BY <1>5, <2>1, <2>2, InvoiceFields, RowsMade, RowsOfTables
<1> QED
  BY <1>2, <1>3, <1>4, <1>5, IdsOfTables

LEMMA OverlaidRefers ==
  \A old, columns : Refers(Overlaid(old, columns)) \subseteq Refers(old) \union Refers(columns)
  BY DEF Refers, Overlaid

-----------------------------------------------------------------------------
(* What a request has checked about the rows it is about to write.         *)

\* No other appointment in use holds the slot of r.
NoClash(a, r) ==
  \A b \in Appointments \ {a} : Live(b) =>
    row[b].status = "Cancelled" \/ row[b].services # r.services \/ row[b].slot # r.slot

ContactsChecked(rows) ==
  \A c \in Customers \intersect DOMAIN rows :
    /\ Conflicts(rows[c]) = {}
    /\ \A d \in Customers \intersect DOMAIN rows : d # c => ~SameContact(rows[c], rows[d])

InsertChecked(rows) ==
  /\ \A x \in DOMAIN rows :
       /\ x \in Ids /\ row[x] = Unused
       /\ rows[x] \in RowsOf(x) /\ rows[x].deleted = FALSE
       /\ \A y \in Refers(rows[x]) : Live(y)
       /\ x \in Appointments => DOMAIN rows = {x} /\ NoClash(x, rows[x])
  /\ "overwrite" \notin ImportModes => ContactsChecked(rows)

UpdateChecked(x, new) ==
  /\ x \in Ids /\ Exists(x) /\ new \in RowsOf(x)
  /\ x \in Customers \union Services /\ new.deleted => History(x) = {}
  /\ \A y \in Refers(new) : Live(y) \/ y \in Refers(row[x])
  /\ x \in Customers => \/ Conflicts(new) \ {x} = {}
                        \/ new.phone = row[x].phone /\ new.email = row[x].email
  /\ x \in Appointments /\ Live(x) => new.deleted \/ NoClash(x, new)

Request(h) ==
  \/ CustomerRequest(h) \/ ImportRequest(h) \/ ServiceRequest(h)
  \/ AppointmentRequest(h) \/ InvoiceRequest(h) \/ RestoreRequest(h)

InsertsChecked(h) ==
  \E rows : Insert(h, rows) /\ (\A x \in DOMAIN rows : Free(x)) /\ InsertChecked(rows)
UpdatesChecked(h) == \E x \in Ids : \E new : Update(h, x, new) /\ UpdateChecked(x, new)

\* The columns of new that are sent.
Sent(x, new) == [f \in {g \in DOMAIN new : new[g] # row[x][g]} |-> new[f]]

LEMMA NewCustomerFacts ==
  ASSUME NEW k, k.phone \in Phones \union {None}, k.email \in Emails \union {None}
  PROVE  /\ NewCustomer(k) \in CustomerRow
         /\ NewCustomer(k).deleted = FALSE
         /\ NewCustomer(k).phone = k.phone /\ NewCustomer(k).email = k.email
         /\ Refers(NewCustomer(k)) = {}
<1>1. NewCustomer(k) \in CustomerRow
  BY RowsMade DEF NewCustomer
<1> QED
  BY <1>1, CustomerFields DEF NewCustomer

LEMMA ConflictsOfNew ==
  ASSUME NEW k, k.phone \in Phones \union {None}, k.email \in Emails \union {None}
  PROVE  Conflicts(NewCustomer(k)) = Conflicts(k)
<1> DEFINE n == NewCustomer(k)
<1>1. n.phone = k.phone /\ n.email = k.email
  BY NewCustomerFacts
<1> HIDE DEF n
<1>2. Conflicts(n) = Conflicts(k)
  BY <1>1 DEF Conflicts, SameContact
<1> QED
  BY <1>2 DEF n

\* One row is inserted.
LEMMA InsertOne ==
  ASSUME NEW h, NEW x \in Ids, NEW r \in RowsOf(x), Free(x), Insert(h, [z \in {x} |-> r]),
         r.deleted = FALSE, \A y \in Refers(r) : Live(y),
         x \in Appointments => NoClash(x, r),
         x \in Customers => Conflicts(r) = {}
  PROVE  InsertsChecked(h)
<1> DEFINE rows == [z \in {x} |-> r]
<1>1. DOMAIN rows = {x} /\ rows[x] = r
  OBVIOUS
<1>2. Insert(h, rows)
  OBVIOUS
<1> HIDE DEF rows
<1>3. ContactsChecked(rows)
  BY <1>1 DEF ContactsChecked
<1>4. InsertChecked(rows)
  BY <1>1, <1>3 DEF InsertChecked, Free
<1>5. \A y \in DOMAIN rows : Free(y)
  BY <1>1
<1> QED
  BY <1>2, <1>4, <1>5 DEF InsertsChecked

LEMMA CustomerRequestChecked ==
  ASSUME TypeOK, NEW h, CustomerRequest(h)
  PROVE  InsertsChecked(h) \/ UpdatesChecked(h)
<1>1. PICK c \in Customers :
        \/ \E contact \in Contact : CreateCustomer(h, c, contact) \/ UpdateCustomer(h, c, contact)
        \/ DeleteCustomer(h, c)
  BY DEF CustomerRequest
<1>2. c \in Ids /\ RowsOf(c) = CustomerRow /\ c \notin Appointments
  BY RowsOfTables
<1>3. ASSUME NEW k \in Contact, CreateCustomer(h, c, k) PROVE InsertsChecked(h)
  <2>1. k.phone \in Phones \union {None} /\ k.email \in Emails \union {None}
    BY DEF Contact
  <2> DEFINE r == NewCustomer(k)
  <2>2. r \in CustomerRow /\ r.deleted = FALSE /\ Refers(r) = {} /\ Conflicts(r) = {}
    BY <1>3, <2>1, NewCustomerFacts, ConflictsOfNew DEF CreateCustomer
  <2>3. Free(c) /\ Insert(h, [z \in {c} |-> r])
    BY <1>3 DEF CreateCustomer
  <2> HIDE DEF r
  <2> QED
    BY <1>2, <2>2, <2>3, InsertOne
<1>4. ASSUME NEW k \in Contact, UpdateCustomer(h, c, k) PROVE UpdatesChecked(h)
  <2>1. k.phone \in Phones \union {None} /\ k.email \in Emails \union {None}
    BY DEF Contact
  <2> DEFINE r == NewCustomer(k)
  <2>2. r \in CustomerRow /\ r.deleted = FALSE /\ Refers(r) = {} /\ Conflicts(r) \ {c} = {}
    BY <1>4, <2>1, NewCustomerFacts, ConflictsOfNew DEF UpdateCustomer
  <2>3. Exists(c) /\ Update(h, c, r)
    BY <1>4 DEF UpdateCustomer, Live
  <2> HIDE DEF r
  <2>4. UpdateChecked(c, r)
    BY <1>2, <2>2, <2>3 DEF UpdateChecked
  <2> QED
    BY <1>2, <2>3, <2>4 DEF UpdatesChecked
<1>5. CASE DeleteCustomer(h, c)
  <2> DEFINE r == [row[c] EXCEPT !.deleted = TRUE]
  <2>1. Exists(c) /\ row[c] \in CustomerRow /\ History(c) = {}
    BY <1>2, <1>5 DEF DeleteCustomer, Live, NeverBooked, TypeOK
  <2>2. r \in CustomerRow /\ r.phone = row[c].phone /\ r.email = row[c].email
    BY <2>1 DEF CustomerRow
  <2>3. Refers(r) = {}
    BY <2>2, CustomerFields
  <2>4. Update(h, c, r)
    BY <1>5 DEF DeleteCustomer
  <2> HIDE DEF r
  <2>5. UpdateChecked(c, r)
    BY <1>2, <2>1, <2>2, <2>3 DEF UpdateChecked
  <2> QED
    BY <1>2, <2>4, <2>5 DEF UpdatesChecked
<1> QED
  BY <1>1, <1>3, <1>4, <1>5

LEMMA ServiceRequestChecked ==
  ASSUME TypeOK, NEW h, ServiceRequest(h)
  PROVE  InsertsChecked(h) \/ UpdatesChecked(h)
<1>1. PICK s \in Services : CreateService(h, s) \/ DeleteService(h, s)
  BY DEF ServiceRequest
<1>2. s \in Ids /\ RowsOf(s) = ServiceRow /\ s \notin Appointments /\ s \notin Customers
  BY RowsOfTables
<1>3. CASE CreateService(h, s)
  <2> DEFINE r == [deleted |-> FALSE]
  <2>1. r \in ServiceRow /\ r.deleted = FALSE
    BY RowsMade
  <2>2. Refers(r) = {}
    BY <2>1, ServiceFields
  <2>3. Free(s) /\ Insert(h, [z \in {s} |-> r])
    BY <1>3 DEF CreateService
  <2> HIDE DEF r
  <2> QED
    BY <1>2, <2>1, <2>2, <2>3, InsertOne
<1>4. CASE DeleteService(h, s)
  <2> DEFINE r == [deleted |-> TRUE]
  <2>1. r \in ServiceRow
    BY RowsMade
  <2>2. Refers(r) = {}
    BY <2>1, ServiceFields
  <2>3. Exists(s) /\ History(s) = {} /\ Update(h, s, r)
    BY <1>4 DEF DeleteService, Live, NeverBooked
  <2> HIDE DEF r
  <2>4. UpdateChecked(s, r)
    BY <1>2, <2>1, <2>2, <2>3 DEF UpdateChecked
  <2> QED
    BY <1>2, <2>3, <2>4 DEF UpdatesChecked
<1> QED
  BY <1>1, <1>3, <1>4

\* A row that is changed in nothing but its mark of deletion.
LEMMA Remarked ==
  ASSUME TypeOK, NEW x \in Ids, Exists(x), NEW d \in BOOLEAN
  PROVE  LET r == [row[x] EXCEPT !.deleted = d]
         IN  r \in RowsOf(x) /\ r.deleted = d /\ Refers(r) = Refers(row[x])
<1> DEFINE r == [row[x] EXCEPT !.deleted = d]
<1>1. row[x] \in RowsOf(x)
  BY DEF TypeOK
<1>2. CASE x \in Customers
  <2>1. row[x] \in CustomerRow
    BY <1>1, <1>2, RowsOfTables
  <2>2. r = [deleted |-> d, phone |-> row[x].phone, email |-> row[x].email]
    BY <2>1 DEF CustomerRow
  <2>3. r \in CustomerRow /\ r.deleted = d
    BY <2>1, <2>2, CustomerFields, RowsMade
  <2> HIDE DEF r
  <2> QED
    BY <1>2, <2>1, <2>3, CustomerFields, RowsOfTables DEF r
<1>3. CASE x \in Services
  <2>1. row[x] \in ServiceRow
    BY <1>1, <1>3, RowsOfTables
  <2>2. r = [deleted |-> d]
    BY <2>1 DEF ServiceRow
  <2>3. r \in ServiceRow /\ r.deleted = d
    BY <2>1, <2>2, RowsMade
  <2> HIDE DEF r
  <2> QED
    BY <1>3, <2>1, <2>3, ServiceFields, RowsOfTables DEF r
<1>4. CASE x \in Appointments
  <2>1. row[x] \in AppointmentRow
    BY <1>1, <1>4, RowsOfTables
  <2> DEFINE o == row[x]
  <2>2. r = [deleted |-> d, customer |-> o.customer, services |-> o.services, slot |-> o.slot,
             status |-> o.status]
    BY <2>1 DEF AppointmentRow
  <2>3. r \in AppointmentRow /\ r.deleted = d /\ r.customer = o.customer /\ r.services = o.services
    BY <2>1, <2>2, AppointmentFields, RowsMade
  <2> HIDE DEF r
  <2> QED
    BY <1>4, <2>1, <2>3, AppointmentFields, RowsOfTables DEF r
<1>5. CASE x \in Invoices
  <2>1. row[x] \in InvoiceRow
    BY <1>1, <1>5, RowsOfTables
  <2> DEFINE o == row[x]
  <2>2. r = [deleted |-> d, customer |-> o.customer, services |-> o.services]
    BY <2>1 DEF InvoiceRow
  <2>3. r \in InvoiceRow /\ r.deleted = d /\ r.customer = o.customer /\ r.services = o.services
    BY <2>1, <2>2, InvoiceFields, RowsMade
  <2> HIDE DEF r
  <2> QED
    BY <1>5, <2>1, <2>3, InvoiceFields, RowsOfTables DEF r
<1> QED
  BY <1>2, <1>3, <1>4, <1>5, IdsOfTables

\* Bookings are deleted and restored unchanged.
LEMMA RemarkedBooking ==
  ASSUME TypeOK, NEW h, NEW b \in Appointments \union Invoices, NEW d \in BOOLEAN, Exists(b),
         Update(h, b, [row[b] EXCEPT !.deleted = d]), Live(b) => d
  PROVE  UpdatesChecked(h)
<1> DEFINE r == [row[b] EXCEPT !.deleted = d]
<1>1. b \in Ids /\ b \notin Customers \union Services
  OBVIOUS
<1>2. r \in RowsOf(b) /\ r.deleted = d /\ Refers(r) = Refers(row[b])
  BY <1>1, Remarked
<1>3. Update(h, b, r)
  OBVIOUS
<1> HIDE DEF r
<1>4. UpdateChecked(b, r)
  BY <1>1, <1>2 DEF UpdateChecked
<1> QED
  BY <1>1, <1>3, <1>4 DEF UpdatesChecked

LEMMA AppointmentRequestChecked ==
  ASSUME TypeOK, NEW h, AppointmentRequest(h)
  PROVE  InsertsChecked(h) \/ UpdatesChecked(h)
<1>1. PICK a \in Appointments :
        \/ \E c \in Customers, s \in Services, t \in Days, status \in Statuses :
             \/ CreateAppointment(h, a, c, s, t, status)
             \/ UpdateAppointment(h, a, c, s, t, status)
        \/ DeleteAppointment(h, a)
  BY DEF AppointmentRequest
<1>2. a \in Ids /\ RowsOf(a) = AppointmentRow /\ a \notin Customers \union Services
  BY RowsOfTables
<1>3. CASE DeleteAppointment(h, a)
  BY <1>3, RemarkedBooking DEF DeleteAppointment, Live
<1>4. ASSUME NEW c \in Customers, NEW s \in Services, NEW t \in Days, NEW status \in Statuses,
             \/ CreateAppointment(h, a, c, s, t, status)
             \/ UpdateAppointment(h, a, c, s, t, status)
      PROVE  InsertsChecked(h) \/ UpdatesChecked(h)
  <2> DEFINE r == [deleted |-> FALSE, customer |-> c, services |-> {s}, slot |-> t,
                   status |-> status]
  <2>1. /\ r \in AppointmentRow /\ r.deleted = FALSE
        /\ r.services = {s} /\ r.slot = t /\ r.customer = c
    BY RowsMade
  <2>2. Bookable(c, {s}) /\ SlotFree(a, s, t)
    BY <1>4 DEF CreateAppointment, UpdateAppointment
  <2>3. (Free(a) /\ Insert(h, [z \in {a} |-> r])) \/ (Live(a) /\ Update(h, a, r))
    <3>1. CASE CreateAppointment(h, a, c, s, t, status)
      <4>1. Free(a) /\ Insert(h, [z \in {a} |-> r])
        BY <3>1 DEF CreateAppointment
      <4> QED
        BY <4>1
    <3>2. CASE UpdateAppointment(h, a, c, s, t, status)
      BY <3>2 DEF UpdateAppointment
    <3> QED
      BY <1>4, <3>1, <3>2
  <2> HIDE DEF r
  <2>4. \A y \in Refers(r) : Live(y)
    BY <2>1, <2>2, AppointmentFields DEF Bookable
  <2>5. NoClash(a, r)
    BY <2>1, <2>2 DEF SlotFree, NoClash
  <2>6. CASE Free(a) /\ Insert(h, [z \in {a} |-> r])
    BY <1>2, <2>1, <2>4, <2>5, <2>6, InsertOne
  <2>7. CASE Live(a) /\ Update(h, a, r)
    <3>1. UpdateChecked(a, r)
      BY <1>2, <2>1, <2>4, <2>5, <2>7 DEF UpdateChecked, Live
    <3> QED
      BY <1>2, <2>7, <3>1 DEF UpdatesChecked
  <2> QED
    BY <2>3, <2>6, <2>7
<1> QED
  BY <1>1, <1>3, <1>4

LEMMA InvoiceRequestChecked ==
  ASSUME TypeOK, NEW h, InvoiceRequest(h)
  PROVE  InsertsChecked(h) \/ UpdatesChecked(h)
<1>1. PICK i \in Invoices :
        \/ \E c \in Customers, services \in SUBSET Services : CreateInvoice(h, i, c, services)
        \/ DeleteInvoice(h, i)
  BY DEF InvoiceRequest
<1>2. /\ i \in Ids /\ RowsOf(i) = InvoiceRow /\ i \notin Appointments
      /\ i \notin Customers \union Services
  BY RowsOfTables
<1>3. CASE DeleteInvoice(h, i)
  BY <1>3, RemarkedBooking DEF DeleteInvoice, Live
<1>4. ASSUME NEW c \in Customers, NEW services \in SUBSET Services,
             CreateInvoice(h, i, c, services)
      PROVE  InsertsChecked(h)
  <2> DEFINE r == [deleted |-> FALSE, customer |-> c, services |-> services]
  <2>1. r \in InvoiceRow /\ r.deleted = FALSE /\ r.services = services /\ r.customer = c
    BY <1>4, RowsMade DEF CreateInvoice
  <2>2. Bookable(c, services) /\ Free(i) /\ Insert(h, [z \in {i} |-> r])
    BY <1>4 DEF CreateInvoice
  <2> HIDE DEF r
  <2>3. \A y \in Refers(r) : Live(y)
    BY <2>1, <2>2, InvoiceFields DEF Bookable
  <2> QED
    BY <1>2, <2>1, <2>2, <2>3, InsertOne
<1> QED
  BY <1>1, <1>3, <1>4

LEMMA RestoreRequestChecked ==
  ASSUME TypeOK, NEW h, RestoreRequest(h)
  PROVE  UpdatesChecked(h)
<1>1. ASSUME NEW c \in Customers, RestoreCustomer(h, c) PROVE UpdatesChecked(h)
  <2> DEFINE r == [row[c] EXCEPT !.deleted = FALSE]
  <2>1. c \in Ids /\ Exists(c) /\ Update(h, c, r) /\ c \notin Appointments
    BY <1>1 DEF RestoreCustomer, InBin
  <2>2. r \in RowsOf(c) /\ r.deleted = FALSE /\ Refers(r) = Refers(row[c])
    BY <2>1, Remarked
  <2>3. row[c] \in CustomerRow
    BY <2>1, RowsOfTables DEF TypeOK
  <2>4. r.phone = row[c].phone /\ r.email = row[c].email
    BY <2>3 DEF CustomerRow
  <2> HIDE DEF r
  <2>5. UpdateChecked(c, r)
    BY <2>1, <2>2, <2>4 DEF UpdateChecked
  <2> QED
    BY <2>1, <2>5 DEF UpdatesChecked
<1>2. ASSUME NEW s \in Services, RestoreService(h, s) PROVE UpdatesChecked(h)
  <2> DEFINE r == [deleted |-> FALSE]
  <2>1. r \in ServiceRow /\ r.deleted = FALSE
    BY RowsMade
  <2>2. Refers(r) = {} /\ RowsOf(s) = ServiceRow /\ s \in Ids /\ s \notin Customers \union Appointments
    BY <2>1, ServiceFields, RowsOfTables
  <2>3. Exists(s) /\ Update(h, s, r)
    BY <1>2 DEF RestoreService, InBin
  <2> HIDE DEF r
  <2>4. UpdateChecked(s, r)
    BY <2>1, <2>2, <2>3 DEF UpdateChecked
  <2> QED
    BY <2>2, <2>3, <2>4 DEF UpdatesChecked
<1>3. ASSUME NEW a \in Appointments, RestoreAppointment(h, a) PROVE UpdatesChecked(h)
  BY <1>3, RemarkedBooking DEF RestoreAppointment, InBin, Live
<1>4. ASSUME NEW i \in Invoices, RestoreInvoice(h, i) PROVE UpdatesChecked(h)
  BY <1>4, RemarkedBooking DEF RestoreInvoice, InBin, Live
<1> QED
  BY <1>1, <1>2, <1>3, <1>4 DEF RestoreRequest

LEMMA ImportRequestChecked ==
  ASSUME TypeOK, NEW h, ImportRequest(h)
  PROVE  InsertsChecked(h)
<1>1. ASSUME NEW new \in SUBSET Services, ImportServices(h, new) PROVE InsertsChecked(h)
  <2> DEFINE r == [deleted |-> FALSE]
             rows == [s \in new |-> r]
  <2>1. r \in ServiceRow /\ r.deleted = FALSE
    BY RowsMade
  <2>2. Refers(r) = {}
    BY <2>1, ServiceFields
  <2>3. (\A s \in new : Free(s)) /\ Insert(h, rows)
    BY <1>1 DEF ImportServices
  <2>4. DOMAIN rows = new /\ \A s \in new : rows[s] = r
    OBVIOUS
  <2> HIDE DEF r, rows
  <2>5. \A s \in new : s \in Ids /\ RowsOf(s) = ServiceRow /\ s \notin Appointments /\ s \notin Customers
    BY RowsOfTables
  <2>6. InsertChecked(rows)
    BY <2>1, <2>2, <2>3, <2>4, <2>5 DEF InsertChecked, ContactsChecked, Free
  <2> QED
    BY <2>3, <2>4, <2>6 DEF InsertsChecked
<1>2. ASSUME NEW n \in 1..MaxFile, NEW file \in [1..n -> FileRow], NEW mode \in ImportModes,
             ImportCustomers(h, file, mode)
      PROVE  InsertsChecked(h)
  <2> DEFINE new == Imported(file, mode)
  <2>1. new \subseteq 1..n
    BY DEF Imported
  <2>2. PICK id \in [new -> {c \in Customers : Free(c)}] :
          /\ \A i, j \in new : i # j => id[i] # id[j]
          /\ Insert(h, [c \in {id[i] : i \in new} |->
               NewCustomer(file[CHOOSE i \in new : id[i] = c])])
    BY <1>2 DEF ImportCustomers
  <2> DEFINE at(c) == CHOOSE i \in new : id[i] = c
             rows == [c \in {id[i] : i \in new} |-> NewCustomer(file[at(c)])]
  <2>3. DOMAIN rows = {id[i] : i \in new} /\ Insert(h, rows)
    BY <2>2
  <2>4. \A c \in DOMAIN rows : /\ rows[c] = NewCustomer(file[at(c)])
                               /\ at(c) \in new /\ id[at(c)] = c
    OBVIOUS
  <2>5. \A c \in DOMAIN rows : c \in Customers /\ Free(c)
    BY <2>2, <2>3
  <2>6. \A i \in new : file[i].phone \in Phones \union {None} /\ file[i].email \in Emails \union {None}
    BY <2>1 DEF FileRow
  <2> HIDE DEF rows, at
  <2>7. ASSUME NEW c \in DOMAIN rows
        PROVE  /\ rows[c] \in CustomerRow /\ rows[c].deleted = FALSE /\ Refers(rows[c]) = {}
               /\ rows[c].phone = file[at(c)].phone /\ rows[c].email = file[at(c)].email
               /\ Conflicts(rows[c]) = Conflicts(file[at(c)])
    <3> DEFINE k == file[at(c)]
    <3>1. k.phone \in Phones \union {None} /\ k.email \in Emails \union {None}
      BY <2>4, <2>6
    <3>2. rows[c] = NewCustomer(k)
      BY <2>4
    <3> HIDE DEF k
    <3>3. /\ NewCustomer(k) \in CustomerRow /\ NewCustomer(k).deleted = FALSE
          /\ NewCustomer(k).phone = k.phone /\ NewCustomer(k).email = k.email
          /\ Refers(NewCustomer(k)) = {}
      BY <3>1, NewCustomerFacts
    <3>4. Conflicts(NewCustomer(k)) = Conflicts(k)
      BY <3>1, ConflictsOfNew
    <3> QED
      BY <3>2, <3>3, <3>4 DEF k
  <2>8. ASSUME "overwrite" \notin ImportModes PROVE ContactsChecked(rows)
    <3>1. \A i \in new : ~Duplicate(file, i)
      BY <2>8 DEF Imported
    <3>2. \A i, j \in new : i < j => ~SameContact(file[j], file[i])
      <4>1. ASSUME NEW i \in new, NEW j \in new, i < j PROVE ~SameContact(file[j], file[i])
        <5>1. i \in 1..(j - 1)
          BY <2>1, <4>1
        <5> QED
          BY <3>1, <5>1 DEF Duplicate
      <4> QED
        BY <4>1
    <3>3. \A i, j \in new : i # j => ~SameContact(file[j], file[i])
      <4>1. \A i, j \in new : SameContact(file[i], file[j]) => SameContact(file[j], file[i])
        BY DEF SameContact
      <4>2. \A i, j \in new : i # j => i < j \/ j < i
        BY <2>1
      <4> QED
        BY <3>2, <4>1, <4>2
    <3>4. ASSUME NEW c \in DOMAIN rows, NEW d \in DOMAIN rows, c # d
          PROVE  ~SameContact(rows[c], rows[d])
      <4>1. at(c) \in new /\ at(d) \in new /\ at(c) # at(d)
        BY <2>4, <3>4
      <4>2. ~SameContact(file[at(c)], file[at(d)])
        BY <3>3, <4>1
      <4> QED
        BY <2>7, <4>2 DEF SameContact
    <3>5. \A c \in DOMAIN rows : Conflicts(rows[c]) = {}
      BY <2>4, <2>7, <3>1 DEF Duplicate
    <3> QED
      BY <3>4, <3>5 DEF ContactsChecked
  <2>9. \A c \in DOMAIN rows : c \in Ids /\ RowsOf(c) = CustomerRow /\ c \notin Appointments
    BY <2>5, RowsOfTables
  <2>10. InsertChecked(rows)
    BY <2>5, <2>7, <2>8, <2>9 DEF InsertChecked, Free
  <2> QED
    BY <2>3, <2>5, <2>10 DEF InsertsChecked
<1> QED
  BY <1>1, <1>2 DEF ImportRequest

\* Every request inserts rows, or updates one, that it has checked.
LEMMA RequestChecked ==
  ASSUME TypeOK, NEW h, Request(h)
  PROVE  InsertsChecked(h) \/ UpdatesChecked(h)
  BY CustomerRequestChecked, ServiceRequestChecked, AppointmentRequestChecked,
     InvoiceRequestChecked, RestoreRequestChecked, ImportRequestChecked DEF Request

-----------------------------------------------------------------------------
(* Any number of handlers.  What they are about to write overlaps freely,  *)
(* except that no two insert one row.                                      *)

RowInv ==
  /\ DOMAIN row = Ids /\ today \in Days
  /\ \A x \in Ids : Exists(x) => /\ row[x] \in RowsOf(x)
                                 /\ \A y \in Refers(row[x]) : Exists(y)

\* A row to be inserted is whole and not there yet; of a row to be updated,
\* which was there, some columns of a row of its table are sent.
PendingRow(x, inserted, columns) ==
  IF inserted THEN row[x] = Unused /\ columns \in RowsOf(x)
              ELSE row[x] # Unused /\ Partial(x, columns)

Pending(h) ==
  /\ handler[h].insert \subseteq DOMAIN handler[h].set
  /\ DOMAIN handler[h].set \subseteq Ids
  /\ \A x \in DOMAIN handler[h].set :
       PendingRow(x, x \in handler[h].insert, handler[h].set[x])

PendingInv ==
  /\ DOMAIN handler = Handlers
  /\ \A h \in Handlers : Pending(h)
  /\ \A h, k \in Handlers : h # k => handler[h].insert \intersect handler[k].insert = {}

Inv == RowInv /\ PendingInv

LEMMA InvTypes == ASSUME Inv PROVE TypeOK
  BY DEF Inv, RowInv, PendingInv, Pending, PendingRow, TypeOK

LEMMA IdlePending == Idle.insert = {} /\ DOMAIN Idle.set = {}
  BY DEF Idle

LEMMA InitInv == ASSUME Init PROVE Inv
<1>1. RowInv
  BY DEF Init, RowInv, Exists, Days
<1>2. \A h \in Handlers : handler[h] = Idle
  BY DEF Init
<1>3. PendingInv
  BY <1>2, IdlePending DEF Init, PendingInv, Pending
<1> QED
  BY <1>1, <1>3 DEF Inv

MayPend(h, p) ==
  /\ p.insert \subseteq DOMAIN p.set
  /\ DOMAIN p.set \subseteq Ids
  /\ \A x \in DOMAIN p.set : PendingRow(x, x \in p.insert, p.set[x])
  /\ \A k \in Handlers \ {h} : p.insert \intersect handler[k].insert = {}

\* The rows stay; what one handler is about to write is replaced.
LEMMA HandlerReplaced ==
  ASSUME Inv, NEW h \in Handlers, NEW p, handler' = [handler EXCEPT ![h] = p],
         UNCHANGED <<row, today>>, MayPend(h, p)
  PROVE  Inv'
<1>1. RowInv'
  BY DEF Inv, RowInv, Exists
<1>2. DOMAIN handler' = Handlers
  BY DEF Inv, PendingInv
<1>3. handler'[h] = p /\ \A k \in Handlers \ {h} : handler'[k] = handler[k]
  BY DEF Inv, PendingInv
<1>4. ASSUME NEW k \in Handlers PROVE Pending(k)'
  <2>1. CASE k = h
    BY <1>3, <2>1 DEF Pending, PendingRow, MayPend
  <2>2. CASE k # h
    BY <1>3, <2>2 DEF Inv, PendingInv, Pending, PendingRow
  <2> QED
    BY <2>1, <2>2
<1>5. ASSUME NEW k \in Handlers, NEW l \in Handlers, k # l
      PROVE  handler'[k].insert \intersect handler'[l].insert = {}
  BY <1>3, <1>5 DEF Inv, PendingInv, MayPend
<1> QED
  BY <1>1, <1>2, <1>4, <1>5 DEF Inv, PendingInv

LEMMA RequestInv ==
  ASSUME Inv, NEW h \in Handlers, Request(h)
  PROVE  Inv'
<1>1. ASSUME NEW rows, Insert(h, rows), \A x \in DOMAIN rows : Free(x), InsertChecked(rows)
      PROVE  Inv'
  <2> DEFINE p == [insert |-> DOMAIN rows, set |-> rows]
  <2>1. p.insert = DOMAIN rows /\ p.set = rows
    OBVIOUS
  <2>2. handler' = [handler EXCEPT ![h] = p] /\ UNCHANGED <<row, today>>
    BY <1>1 DEF Insert
  <2> HIDE DEF p
  <2>3. \A x \in DOMAIN rows : x \in Ids /\ PendingRow(x, TRUE, rows[x])
    BY <1>1 DEF InsertChecked, PendingRow
  <2>4. \A k \in Handlers : DOMAIN rows \intersect handler[k].insert = {}
    BY <1>1 DEF Free
  <2>5. \A x \in DOMAIN p.set : PendingRow(x, x \in p.insert, p.set[x])
    BY <2>1, <2>3 DEF PendingRow
  <2>6. MayPend(h, p)
    BY <2>1, <2>3, <2>4, <2>5 DEF MayPend
  <2> QED
    BY <2>2, <2>6, HandlerReplaced
<1>2. ASSUME NEW x \in Ids, NEW new, Update(h, x, new), UpdateChecked(x, new)
      PROVE  Inv'
  <2> DEFINE changed == {f \in DOMAIN new : new[f] # row[x][f]}
             columns == [f \in changed |-> new[f]]
             p == [insert |-> {}, set |-> [y \in {x} |-> columns]]
  <2>1. p.insert = {} /\ DOMAIN p.set = {x} /\ p.set[x] = columns
    OBVIOUS
  <2>2. handler' = [handler EXCEPT ![h] = p] /\ UNCHANGED <<row, today>>
    BY <1>2 DEF Update
  <2>3. Agree(columns, new)
    BY DEF Agree
  <2> HIDE DEF p, columns
  <2>4. PendingRow(x, FALSE, columns)
    BY <1>2, <2>3 DEF PendingRow, UpdateChecked, Exists, Partial
  <2>5. \A y \in DOMAIN p.set : PendingRow(y, y \in p.insert, p.set[y])
    BY <2>1, <2>4 DEF PendingRow
  <2>6. MayPend(h, p)
    BY <2>1, <2>5 DEF MayPend
  <2> QED
    BY <2>2, <2>6, HandlerReplaced
<1> QED
  BY <1>1, <1>2, RequestChecked, InvTypes DEF InsertsChecked, UpdatesChecked

LEMMA RollbackInv ==
  ASSUME Inv, NEW h \in Handlers, Rollback(h)
  PROVE  Inv'
  BY IdlePending, HandlerReplaced DEF Rollback, MayPend

\* What a commit makes of each row.
LEMMA CommitRows ==
  ASSUME Inv, NEW h \in Handlers, Commit(h), NEW x \in Ids
  PROVE  LET p == handler[h] IN
         /\ x \in p.insert => /\ row[x] = Unused /\ row'[x] = p.set[x] /\ row'[x] \in RowsOf(x)
                              /\ \A y \in Refers(row'[x]) : Exists(y)
         /\ x \notin DOMAIN p.set => row'[x] = row[x]
         /\ x \in DOMAIN p.set \ p.insert =>
              /\ Exists(x) /\ row'[x] = Overlaid(row[x], p.set[x]) /\ row'[x] \in RowsOf(x)
              /\ \A y \in Refers(row'[x]) : Exists(y)
<1> DEFINE p == handler[h]
<1>1. Pending(h) /\ Accepted(h)
  BY DEF Commit, Inv, PendingInv
<1>2. row'[x] = CASE x \in p.insert -> p.set[x]
                  [] x \notin DOMAIN p.set -> row[x]
                  [] OTHER -> Overlaid(row[x], p.set[x])
  BY DEF Commit
<1> HIDE DEF p
<1>3. CASE x \in p.insert
  BY <1>1, <1>2, <1>3 DEF p, Pending, PendingRow, Accepted
<1>4. CASE x \notin DOMAIN p.set
  BY <1>1, <1>2, <1>4 DEF p, Pending
<1>5. CASE x \in DOMAIN p.set \ p.insert
  <2>1. Exists(x) /\ Partial(x, p.set[x]) /\ \A y \in Refers(p.set[x]) : Exists(y)
    BY <1>1, <1>5 DEF p, Pending, PendingRow, Accepted
  <2>2. row'[x] = Overlaid(row[x], p.set[x])
    BY <1>2, <1>5
  <2>3. row[x] \in RowsOf(x) /\ \A y \in Refers(row[x]) : Exists(y)
    BY <2>1 DEF Inv, RowInv
  <2>4. row'[x] \in RowsOf(x)
    BY <2>1, <2>2, <2>3, OverlaidRow
  <2>5. \A y \in Refers(row'[x]) : Exists(y)
    BY <2>1, <2>2, <2>3, OverlaidRefers
  <2> QED
    BY <1>5, <2>1, <2>2, <2>4, <2>5 DEF p
<1> QED
  BY <1>3, <1>4, <1>5 DEF p

LEMMA RefersToIds ==
  ASSUME NEW x \in Ids, NEW r \in RowsOf(x)
  PROVE  /\ Refers(r) \subseteq Customers \union Services
         /\ x \in Customers \union Services => Refers(r) = {}
  BY RowsOfTables, CustomerFields, ServiceFields, AppointmentFields, InvoiceFields, IdsOfTables

LEMMA CommitInv ==
  ASSUME Inv, NEW h \in Handlers, Commit(h)
  PROVE  Inv'
<1>1. DOMAIN row' = Ids /\ today' = today
  BY DEF Commit
<1>2. \A x \in Ids : Exists(x) => Exists(x)'
  BY CommitRows DEF Exists
<1>3. \A x \in Ids : row[x] # Unused => row'[x] # Unused
  BY CommitRows
<1>4. \A x \in Ids : row[x] = Unused /\ x \notin handler[h].insert => row'[x] = Unused
  BY CommitRows DEF Exists
<1>5. RowInv'
  <2>1. ASSUME NEW x \in Ids, Exists(x)'
        PROVE  row'[x] \in RowsOf(x) /\ \A y \in Refers(row'[x]) : Exists(y)
    BY <2>1, CommitRows DEF Exists, Inv, RowInv
  <2>2. ASSUME NEW x \in Ids, Exists(x)'
        PROVE  row'[x] \in RowsOf(x) /\ \A y \in Refers(row'[x]) : Exists(y)'
    BY <1>2, <2>1, <2>2, RefersToIds
  <2> QED
    BY <1>1, <2>2 DEF Inv, RowInv
<1>6. /\ DOMAIN handler' = Handlers /\ handler'[h] = Idle
      /\ \A k \in Handlers \ {h} : handler'[k] = handler[k]
  BY DEF Commit, Inv, PendingInv
<1>7. ASSUME NEW k \in Handlers PROVE Pending(k)'
  <2>1. CASE k = h
    BY <1>6, <2>1, IdlePending DEF Pending
  <2>2. CASE k # h
    <3>1. Pending(k) /\ handler[k].insert \intersect handler[h].insert = {}
      BY <2>2 DEF Inv, PendingInv
    <3>2. handler'[k] = handler[k]
      BY <1>6, <2>2
    <3>3. ASSUME NEW x \in DOMAIN handler[k].set
          PROVE  PendingRow(x, x \in handler[k].insert, handler[k].set[x])'
      BY <1>3, <1>4, <3>1, <3>2 DEF Pending, PendingRow
    <3> QED
      BY <3>1, <3>2, <3>3 DEF Pending
  <2> QED
    BY <2>1, <2>2
<1>8. ASSUME NEW k \in Handlers, NEW l \in Handlers, k # l
      PROVE  handler'[k].insert \intersect handler'[l].insert = {}
  BY <1>6, <1>8, IdlePending DEF Inv, PendingInv
<1> QED
  BY <1>5, <1>6, <1>7, <1>8 DEF Inv, PendingInv

\* Nothing refers to what is erased.
LEMMA EraseInv ==
  ASSUME Inv, NEW x \in Ids, Erase(x)
  PROVE  Inv'
<1>1. Exists(x) /\ History(x) = {}
  BY DEF Erase, InBin, Erasable
<1>2. /\ DOMAIN row' = Ids /\ row'[x] = Erased /\ UNCHANGED <<today, handler>>
      /\ \A y \in Ids \ {x} : row'[y] = row[y]
  BY DEF Erase, Inv, RowInv
<1>3. ASSUME NEW y \in Ids, Exists(y)'
      PROVE  row'[y] \in RowsOf(y) /\ \A z \in Refers(row'[y]) : Exists(z)'
  <2>1. y # x /\ row'[y] = row[y] /\ Exists(y)
    BY <1>2, <1>3 DEF Exists
  <2>2. row[y] \in RowsOf(y) /\ \A z \in Refers(row[y]) : Exists(z)
    BY <2>1 DEF Inv, RowInv
  <2>3. x \notin Refers(row[y])
    BY <1>1, <2>1, <2>2, RefersToIds DEF History
  <2>4. ASSUME NEW z \in Refers(row[y]) PROVE Exists(z)'
    <3>1. z \in Ids \ {x} /\ Exists(z)
      BY <2>2, <2>3, RefersToIds
    <3> QED
      BY <1>2, <3>1 DEF Exists
  <2> QED
    BY <2>1, <2>2, <2>4
<1>4. RowInv'
  BY <1>2, <1>3 DEF Inv, RowInv
<1>5. \A y \in Ids : (row'[y] = Unused) <=> (row[y] = Unused)
  BY <1>1, <1>2 DEF Exists
<1>6. ASSUME NEW k \in Handlers PROVE Pending(k)'
  <2>1. Pending(k) /\ handler'[k] = handler[k]
    BY <1>2 DEF Inv, PendingInv
  <2> QED
    BY <1>5, <2>1 DEF Pending, PendingRow
<1> QED
  BY <1>2, <1>4, <1>6 DEF Inv, PendingInv

LEMMA Invariance == Spec => []Inv
<1>1. ASSUME Inv, [Next]_vars PROVE Inv'
  <2>1. ASSUME NEW h \in Handlers, Request(h) PROVE Inv'
    BY <1>1, <2>1, RequestInv
  <2>2. ASSUME NEW h \in Handlers, Commit(h) PROVE Inv'
    BY <1>1, <2>2, CommitInv
  <2>3. ASSUME NEW h \in Handlers, Rollback(h) PROVE Inv'
    BY <1>1, <2>3, RollbackInv
  <2>4. ASSUME NEW x \in Ids, Erase(x) PROVE Inv'
    BY <1>1, <2>4, EraseInv
  <2>5. CASE DayPasses
    BY <1>1, <2>5 DEF DayPasses, Inv, RowInv, PendingInv, Pending, PendingRow, Exists, Days
  <2>6. CASE UNCHANGED vars
    BY <1>1, <2>6 DEF vars, Inv, RowInv, PendingInv, Pending, PendingRow, Exists
  <2> QED
    BY <1>1, <2>1, <2>2, <2>3, <2>4, <2>5, <2>6 DEF Next, Request
<1> QED
  BY <1>1, InitInv, PTL DEF Spec

\* Rows have the fields of their tables and what a row refers to is there,
\* however the requests that write them overlap: the foreign keys and the
\* check under lock of a permanent deletion suffice for that.
THEOREM TypeCorrect == Spec => []TypeOK
  BY Invariance, InvTypes, PTL

-----------------------------------------------------------------------------
(* Reports and the audit.                                                  *)

LEMMA BookingFields ==
  ASSUME TypeOK
  PROVE  /\ \A c \in Customers : Exists(c) => row[c] \in CustomerRow
         /\ \A a \in Appointments : Exists(a) =>
              /\ row[a] \in AppointmentRow
              /\ Refers(row[a]) = {row[a].customer} \union row[a].services
         /\ \A i \in Invoices : Exists(i) =>
              /\ row[i] \in InvoiceRow
              /\ Refers(row[i]) = {row[i].customer} \union row[i].services
         /\ \A b \in Appointments \union Invoices : Exists(b) =>
              /\ row[b].customer \in Customers /\ row[b].services \subseteq Services
              /\ Exists(row[b].customer) /\ \A s \in row[b].services : Exists(s)
<1>1. \A x \in Ids : Exists(x) => row[x] \in RowsOf(x) /\ \A y \in Refers(row[x]) : Exists(y)
  BY DEF TypeOK
<1>2. \A c \in Customers : Exists(c) => row[c] \in CustomerRow
  BY <1>1, RowsOfTables
<1>3. ASSUME NEW a \in Appointments, Exists(a)
      PROVE  /\ row[a] \in AppointmentRow
             /\ Refers(row[a]) = {row[a].customer} \union row[a].services
             /\ row[a].customer \in Customers /\ row[a].services \subseteq Services
  BY <1>1, <1>3, RowsOfTables, AppointmentFields
<1>4. ASSUME NEW i \in Invoices, Exists(i)
      PROVE  /\ row[i] \in InvoiceRow
             /\ Refers(row[i]) = {row[i].customer} \union row[i].services
             /\ row[i].customer \in Customers /\ row[i].services \subseteq Services
  BY <1>1, <1>4, RowsOfTables, InvoiceFields
<1>5. ASSUME NEW b \in Appointments \union Invoices, Exists(b)
      PROVE  Exists(row[b].customer) /\ \A s \in row[b].services : Exists(s)
  BY <1>1, <1>3, <1>4, <1>5
<1> QED
  BY <1>2, <1>3, <1>4, <1>5

LEMMA IssueFields ==
  \A severity, code, id : /\ Issue(severity, code, id).severity = severity
                          /\ Issue(severity, code, id).id = id
  BY DEF Issue

\* What the audit says of the reference of a booking to a row that exists.
LEMMA ReferenceWarnings ==
  ASSUME NEW b, NEW y, Exists(y)
  PROVE  /\ \A issue \in ReferenceIssues(b, y) : issue.severity = "WARNING"
         /\ InBin(y) => \E issue \in ReferenceIssues(b, y) :
              issue.severity = "WARNING" /\ issue.id = {b}
<1>1. \A issue \in ReferenceIssues(b, y) : issue = Issue("WARNING", "SOFT_DELETED", {b})
  BY DEF ReferenceIssues
<1>2. InBin(y) => Issue("WARNING", "SOFT_DELETED", {b}) \in ReferenceIssues(b, y)
  BY DEF ReferenceIssues
<1> QED
  BY <1>1, <1>2, IssueFields

LEMMA ContactWarnings ==
  /\ \A issue \in ContactIssues : issue.severity = "WARNING"
  /\ \A c, d \in Customers, p \in Phones :
       c # d /\ Exists(c) /\ Exists(d) /\ row[c].phone = p /\ row[d].phone = p =>
         \E issue \in ContactIssues : issue.severity = "WARNING" /\ {c, d} \subseteq issue.id
  /\ \A c, d \in Customers, e \in Emails :
       c # d /\ Exists(c) /\ Exists(d) /\ row[c].email = e /\ row[d].email = e =>
         \E issue \in ContactIssues : issue.severity = "WARNING" /\ {c, d} \subseteq issue.id
<1> DEFINE With(field, value) == {c \in Customers : Exists(c) /\ row[c][field] = value}
           Phone(v) == Issue("WARNING", "CUSTOMER_DUPLICATE_PHONE", With("phone", v))
           Email(v) == Issue("WARNING", "CUSTOMER_DUPLICATE_EMAIL", With("email", v))
           P == {u \in Phones : \E c, d \in With("phone", u) : c # d}
           E == {u \in Emails : \E c, d \in With("email", u) : c # d}
<1>1. ContactIssues = {Phone(v) : v \in P} \union {Email(v) : v \in E}
  BY DEF ContactIssues
<1>2. \A v : Phone(v).severity = "WARNING" /\ Phone(v).id = With("phone", v)
  BY IssueFields, Zenon
<1>3. \A v : Email(v).severity = "WARNING" /\ Email(v).id = With("email", v)
  BY IssueFields, Zenon
<1>4. \A c, d \in Customers, p \in Phones :
        c # d /\ Exists(c) /\ Exists(d) /\ row[c].phone = p /\ row[d].phone = p =>
          p \in P /\ {c, d} \subseteq With("phone", p)
  OBVIOUS
<1>5. \A c, d \in Customers, e \in Emails :
        c # d /\ Exists(c) /\ Exists(d) /\ row[c].email = e /\ row[d].email = e =>
          e \in E /\ {c, d} \subseteq With("email", e)
  OBVIOUS
<1> HIDE DEF With, Phone, Email, P, E
<1> QED
  BY <1>1, <1>2, <1>3, <1>4, <1>5

\* A booking under something deleted has its warning.
LEMMA BookingWarnings ==
  ASSUME TypeOK, NEW b \in Appointments \union Invoices, Exists(b),
         NEW y \in {row[b].customer} \union row[b].services, ~Live(y)
  PROVE  Warned({b})
<1>1. Exists(y) /\ InBin(y)
  BY BookingFields DEF Live, InBin
<1>2. PICK issue \in ReferenceIssues(b, y) : issue.severity = "WARNING" /\ issue.id = {b}
  BY <1>1, ReferenceWarnings
<1>3. CASE b \in Appointments
  <2>1. y \in Refers(row[b])
    BY <1>3, BookingFields
  <2>2. issue \in AppointmentIssues
    BY <1>2, <1>3, <2>1 DEF AppointmentIssues
  <2> QED
    BY <1>2, <2>2 DEF Warned, Audit
<1>4. CASE b \in Invoices
  <2>1. issue \in InvoiceIssues \union DetailIssues
    BY <1>2, <1>4 DEF InvoiceIssues, DetailIssues
  <2> QED
    BY <1>2, <2>1 DEF Warned, Audit
<1> QED
  BY <1>3, <1>4

LEMMA AuditSeverities ==
  ASSUME TypeOK, NEW issue \in Audit
  PROVE  issue.severity = "WARNING"
<1>1. CASE issue \in ContactIssues
  BY <1>1, ContactWarnings
<1>2. CASE issue \in AppointmentIssues
  <2>1. PICK a \in Appointments : Exists(a) /\
          \E y \in Refers(row[a]) : issue \in ReferenceIssues(a, y)
    BY <1>2 DEF AppointmentIssues
  <2>2. \A y \in Refers(row[a]) : Exists(y)
    BY <2>1, BookingFields
  <2> QED
    BY <2>1, <2>2, ReferenceWarnings
<1>3. CASE issue \in InvoiceIssues
  <2>1. PICK i \in Invoices : Exists(i) /\ issue \in ReferenceIssues(i, row[i].customer)
    BY <1>3 DEF InvoiceIssues
  <2>2. Exists(row[i].customer)
    BY <2>1, BookingFields
  <2> QED
    BY <2>1, <2>2, ReferenceWarnings
<1>4. CASE issue \in DetailIssues
  <2>1. PICK i \in Invoices : Exists(i) /\
          \E s \in row[i].services : issue \in ReferenceIssues(i, s)
    BY <1>4 DEF DetailIssues
  <2>2. \A s \in row[i].services : Exists(s)
    BY <2>1, BookingFields
  <2> QED
    BY <2>1, <2>2, ReferenceWarnings
<1> QED
  BY <1>1, <1>2, <1>3, <1>4 DEF Audit

LEMMA TypedReported == ASSUME TypeOK PROVE RacesAreReported
<1>1. \A issue \in Audit : issue.severity # "ERROR"
  BY AuditSeverities
<1>2. ASSUME NEW c \in Customers, NEW d \in Customers, c # d, Exists(c), Exists(d),
             SameContact(row[c], row[d])
      PROVE  Warned({c, d})
  <2>1. row[c].phone \in Phones \union {None} /\ row[c].email \in Emails \union {None}
    BY <1>2, BookingFields, CustomerFields
  <2>2. \E issue \in ContactIssues : issue.severity = "WARNING" /\ {c, d} \subseteq issue.id
    BY <1>2, <2>1, ContactWarnings DEF SameContact
  <2> QED
    BY <2>2 DEF Warned, Audit
<1>3. ASSUME NEW i \in Summary.revenue, ~Warned({i})
      PROVE  /\ i \in CustomerInvoices(row[i].customer)
             /\ \A s \in row[i].services : s \in DOMAIN ServiceStatistics
  <2>1. i \in Invoices /\ Live(i) /\ Exists(i)
    BY DEF Summary, Live
  <2>2. \A y \in {row[i].customer} \union row[i].services : Live(y)
    BY <1>3, <2>1, BookingWarnings
  <2>3. row[i].services \subseteq Services
    BY <2>1, BookingFields
  <2> QED
    BY <2>1, <2>2, <2>3 DEF CustomerInvoices, ServiceStatistics
<1>4. ASSUME NEW a \in Summary.appointments, ~Warned({a})
      PROVE  ShownFor(a) \subseteq Dashboard.customers \union Dashboard.services
  <2>1. a \in Appointments /\ Live(a) /\ Exists(a)
    BY DEF Summary, Live
  <2>2. \A y \in {row[a].customer} \union row[a].services : Live(y)
    BY <1>4, <2>1, BookingWarnings
  <2>3. row[a].customer \in Customers /\ row[a].services \subseteq Services
    BY <2>1, BookingFields
  <2> QED
    BY <2>2, <2>3 DEF ShownFor, Dashboard
<1> QED
  BY <1>1, <1>2, <1>3, <1>4 DEF RacesAreReported

\* Whatever overlapping requests leave, the audit has a warning about each
\* contact that is shared and each booking a report leaves out, and never
\* finds a reference to nothing.
THEOREM RacesReported == Spec => []RacesAreReported
  BY TypeCorrect, TypedReported, PTL

\* As long as nothing deleted is referred to, the statistics tell one story.
LEMMA HistoriesAgree ==
  ASSUME TypeOK, DeletedHasNoHistory
  PROVE  FiguresAgree
<1>1. ASSUME NEW b \in Appointments \union Invoices, Live(b),
             NEW y \in {row[b].customer} \union row[b].services
      PROVE  Live(y)
  <2>1. Exists(b) /\ Exists(y) /\ y \in Refers(row[b]) /\ y \in Customers \union Services
    BY <1>1, BookingFields DEF Live
  <2>2. History(y) # {}
    BY <2>1 DEF History
  <2> QED
    BY <2>1, <2>2 DEF DeletedHasNoHistory, Live, InBin
<1>2. \A b \in Appointments \union Invoices : Live(b) =>
        /\ Live(row[b].customer) /\ \A s \in row[b].services : Live(s)
        /\ row[b].customer \in Customers /\ row[b].services \subseteq Services
  BY <1>1, BookingFields DEF Live
<1>3. \A x : Live(x) => Exists(x)
  BY DEF Live
<1> DEFINE Sold(c) == {i \in Invoices : Live(i) /\ row[i].customer = c}
           Named == {d \in Customers : Live(d) /\ \E i \in Invoices : Live(i) /\ row[i].customer = d}
           With(s) == {i \in Invoices : Live(i) /\ s \in row[i].services}
<1>4. /\ DOMAIN CustomerStatistics = Named
      /\ \A c \in Named : CustomerStatistics[c] = Sold(c)
  BY DEF CustomerStatistics
<1>5. UNION {CustomerStatistics[c] : c \in DOMAIN CustomerStatistics} = Summary.revenue
  <2>1. Summary.revenue = {i \in Invoices : Live(i)}
    BY DEF Summary
  <2>2. \A i : i \in UNION {CustomerStatistics[c] : c \in DOMAIN CustomerStatistics}
                <=> \E c \in Named : i \in Sold(c)
    BY <1>4
  <2>3. \A i : (\E c \in Named : i \in Sold(c)) <=> i \in Invoices /\ Live(i)
    BY <1>2
  <2> HIDE DEF Sold, Named
  <2> QED
    BY <2>1, <2>2, <2>3
<1>6. ASSUME NEW s \in Services
      PROVE  ServiceInvoices(s) =
               IF s \in DOMAIN ServiceStatistics THEN ServiceStatistics[s] ELSE {}
  <2>1. ServiceInvoices(s) = With(s)
    BY <1>2 DEF ServiceInvoices
  <2>2. s \in DOMAIN ServiceStatistics <=> With(s) # {}
    BY <1>2 DEF ServiceStatistics
  <2>3. s \in DOMAIN ServiceStatistics => ServiceStatistics[s] = With(s)
    BY DEF ServiceStatistics
  <2> HIDE DEF With
  <2> QED
    BY <2>1, <2>2, <2>3
<1>7. ASSUME NEW c \in DOMAIN CustomerStatistics
      PROVE  /\ CustomerStatistics[c] = CustomerInvoices(c)
             /\ CustomerInvoices(c) = CustomerHistory(c) \intersect Invoices
  <2>1. c \in Customers /\ Live(c) /\ CustomerStatistics[c] = Sold(c)
    BY <1>4
  <2>2. CustomerInvoices(c) = Sold(c)
    BY <2>1 DEF CustomerInvoices
  <2>3. ASSUME NEW i \in Invoices, Live(i) PROVE c \in Refers(row[i]) <=> row[i].customer = c
    BY <1>2, <1>3, <2>1, <2>3, BookingFields
  <2>4. CustomerHistory(c) \intersect Invoices = Sold(c)
    BY <1>3, <2>1, <2>3 DEF CustomerHistory, History
  <2> QED
    BY <2>1, <2>2, <2>4
<1>8. Summary.revenue = InvoiceSummary /\ InvoiceSummary = ListedInvoices
  BY <1>2, <1>3 DEF Summary, InvoiceSummary, ListedInvoices
<1>9. ASSUME NEW days
      PROVE  ListedAppointments(days) = {a \in Appointments : Live(a) /\ row[a].slot \in days}
  BY <1>2, <1>3 DEF ListedAppointments
<1>10. Dashboard.appointments = ListedAppointments({today})
  <2>1. Dashboard.appointments = {a \in Appointments : Live(a) /\ row[a].slot = today}
    BY DEF Dashboard
  <2>2. ListedAppointments({today}) = {a \in Appointments : Live(a) /\ row[a].slot \in {today}}
    BY <1>9
  <2> QED
    BY <2>1, <2>2
<1>11. Summary.appointments = UNION {AppointmentSummary(Days)[s] : s \in Statuses}
  <2>1. \A a \in Appointments : Live(a) => row[a].slot \in Days /\ row[a].status \in Statuses
    BY <1>3, BookingFields, AppointmentFields
  <2>2. ListedAppointments(Days) = {a \in Appointments : Live(a)}
    BY <1>9, <2>1
  <2>3. \A s \in Statuses :
          AppointmentSummary(Days)[s] = {a \in Appointments : Live(a) /\ row[a].status = s}
    BY <2>2 DEF AppointmentSummary
  <2>4. \A a : a \in UNION {AppointmentSummary(Days)[s] : s \in Statuses}
                <=> \E s \in Statuses : a \in AppointmentSummary(Days)[s]
    OBVIOUS
  <2>5. \A a : (\E s \in Statuses : a \in AppointmentSummary(Days)[s])
                <=> a \in Appointments /\ Live(a)
    BY <2>1, <2>3
  <2> QED
    BY <2>4, <2>5 DEF Summary
<1>12. ASSUME NEW a \in Dashboard.appointments
       PROVE  ShownFor(a) \subseteq Dashboard.customers \union Dashboard.services
  BY <1>2 DEF Dashboard, ShownFor
<1> HIDE DEF Sold, Named, With
<1> QED
  BY <1>5, <1>6, <1>7, <1>8, <1>10, <1>11, <1>12 DEF FiguresAgree

-----------------------------------------------------------------------------
(* Requests that do not overlap.  Nothing is written between what a        *)
(* request has checked and its commit, so that what it checked still holds *)
(* of the rows then.                                                       *)

Serial == \A h, k \in Handlers : h = k

StillChecked(h) ==
  \/ handler[h] = Idle
  \/ handler[h].insert = DOMAIN handler[h].set /\ InsertChecked(handler[h].set)
  \/ \E x \in Ids : \E new :
       /\ UpdateChecked(x, new)
       /\ handler[h].insert = {} /\ DOMAIN handler[h].set = {x}
       /\ handler[h].set[x] = Sent(x, new)

SerialInv == \A h \in Handlers : StillChecked(h)

\* What a request has checked is about the rows alone.
LEMMA ChecksOfRows ==
  ASSUME UNCHANGED row
  PROVE  /\ \A rows : InsertChecked(rows)' <=> InsertChecked(rows)
         /\ \A x, new : UpdateChecked(x, new)' <=> UpdateChecked(x, new)
         /\ \A x, new : Sent(x, new)' = Sent(x, new)
<1>1. /\ \A x : Exists(x)' <=> Exists(x)
      /\ \A x : Live(x)' <=> Live(x)
      /\ \A a, r : NoClash(a, r)' <=> NoClash(a, r)
      /\ \A k : Conflicts(k)' = Conflicts(k)
      /\ \A x : History(x)' = History(x)
  BY DEF Exists, Live, NoClash, Conflicts, History
<1>2. \A rows : InsertChecked(rows)' <=> InsertChecked(rows)
  BY <1>1 DEF InsertChecked, ContactsChecked
<1>3. \A x, new : UpdateChecked(x, new)' <=> UpdateChecked(x, new)
  BY <1>1 DEF UpdateChecked
<1>4. \A x, new : Sent(x, new)' = Sent(x, new)
  BY DEF Sent
<1> QED
  BY <1>2, <1>3, <1>4

LEMMA StaysChecked ==
  ASSUME NEW h, StillChecked(h), UNCHANGED row, handler'[h] = handler[h]
  PROVE  StillChecked(h)'
  BY ChecksOfRows DEF StillChecked

LEMMA SerialRequest ==
  ASSUME Inv, NEW h \in Handlers, Request(h)
  PROVE  StillChecked(h)'
<1>1. ASSUME NEW rows, Insert(h, rows), InsertChecked(rows)
      PROVE  StillChecked(h)'
  <2>1. UNCHANGED row /\ handler'[h].insert = DOMAIN rows /\ handler'[h].set = rows
    BY <1>1 DEF Insert, Inv, PendingInv
  <2>2. InsertChecked(rows)'
    BY <1>1, <2>1, ChecksOfRows
  <2> QED
    BY <2>1, <2>2 DEF StillChecked
<1>2. ASSUME NEW x \in Ids, NEW new, Update(h, x, new), UpdateChecked(x, new)
      PROVE  StillChecked(h)'
  <2>1. /\ UNCHANGED row /\ handler'[h].insert = {} /\ DOMAIN handler'[h].set = {x}
        /\ handler'[h].set[x] = Sent(x, new)
    BY <1>2 DEF Update, Inv, PendingInv, Sent
  <2>2. UpdateChecked(x, new)' /\ Sent(x, new)' = Sent(x, new)
    BY <1>2, <2>1, ChecksOfRows
  <2> QED
    BY <2>1, <2>2 DEF StillChecked
<1> QED
  BY <1>1, <1>2, RequestChecked, InvTypes DEF InsertsChecked, UpdatesChecked

LEMMA SerialInvariance == ASSUME Serial PROVE Spec => []SerialInv
<1>1. Init => SerialInv
  BY DEF Init, SerialInv, StillChecked
<1>2. ASSUME Inv, SerialInv, [Next]_vars PROVE SerialInv'
  <2>1. SUFFICES ASSUME NEW h \in Handlers PROVE StillChecked(h)'
    BY DEF SerialInv
  <2>2. StillChecked(h) /\ DOMAIN handler = Handlers /\ \A k \in Handlers : k = h
    BY <1>2 DEF SerialInv, Serial, Inv, PendingInv
  <2>3. ASSUME NEW k \in Handlers, Request(k) PROVE StillChecked(h)'
    BY <1>2, <2>2, <2>3, SerialRequest
  <2>4. ASSUME NEW k \in Handlers, Commit(k) \/ Rollback(k) PROVE StillChecked(h)'
    <3>1. handler'[h] = Idle
      BY <2>2, <2>4 DEF Commit, Rollback
    <3> QED
      BY <3>1 DEF StillChecked
  <2>5. ASSUME NEW x \in Ids, Erase(x) PROVE StillChecked(h)'
    <3>1. handler'[h] = Idle
      BY <2>2, <2>5 DEF Erase
    <3> QED
      BY <3>1 DEF StillChecked
  <2>6. CASE DayPasses \/ UNCHANGED vars
    <3>1. UNCHANGED row /\ handler'[h] = handler[h]
      BY <2>6 DEF DayPasses, vars
    <3> QED
      BY <2>2, <3>1, StaysChecked
  <2> QED
    BY <1>2, <2>3, <2>4, <2>5, <2>6 DEF Next, Request
<1> QED
  BY <1>1, <1>2, Invariance, PTL DEF Spec

\* So a step writes rows that are checked against those that are there.
Inserted(rows) ==
  /\ InsertChecked(rows)
  /\ \A z \in Ids : row'[z] = IF z \in DOMAIN rows THEN rows[z] ELSE row[z]

Updated(x, new) ==
  /\ UpdateChecked(x, new)
  /\ row'[x] = new
  /\ \A z \in Ids \ {x} : row'[z] = row[z]

LEMMA SentMakesNew ==
  ASSUME NEW x \in Ids, NEW old \in RowsOf(x), NEW new \in RowsOf(x), row[x] = old
  PROVE  Overlaid(old, Sent(x, new)) = new
<1>1. DOMAIN old = DOMAIN new
  BY RowsOfTables, CustomerFields, ServiceFields, AppointmentFields, InvoiceFields, IdsOfTables
<1>2. new = [f \in DOMAIN new |-> new[f]]
  <2>1. CASE x \in Customers
    <3>1. new \in CustomerRow
      BY <2>1, RowsOfTables
    <3>2. new = [deleted |-> new.deleted, phone |-> new.phone, email |-> new.email]
      BY <3>1 DEF CustomerRow
    <3>3. [f \in DOMAIN new |-> new[f]] = [deleted |-> new.deleted, phone |-> new.phone, email |-> new.email]
      BY <3>1, CustomerFields
    <3> QED
      BY <3>2, <3>3
  <2>2. CASE x \in Services
    <3>1. new \in ServiceRow
      BY <2>2, RowsOfTables
    <3>2. new = [deleted |-> new.deleted]
      BY <3>1 DEF ServiceRow
    <3>3. [f \in DOMAIN new |-> new[f]] = [deleted |-> new.deleted]
      BY <3>1, ServiceFields
    <3> QED
      BY <3>2, <3>3
  <2>3. CASE x \in Appointments
    <3>1. new \in AppointmentRow
      BY <2>3, RowsOfTables
    <3>2. new = [deleted |-> new.deleted, customer |-> new.customer, services |-> new.services,
                   slot |-> new.slot, status |-> new.status]
      BY <3>1 DEF AppointmentRow
    <3>3. [f \in DOMAIN new |-> new[f]] = [deleted |-> new.deleted, customer |-> new.customer, services |-> new.services,
                   slot |-> new.slot, status |-> new.status]
      BY <3>1, AppointmentFields
    <3> QED
      BY <3>2, <3>3
  <2>4. CASE x \in Invoices
    <3>1. new \in InvoiceRow
      BY <2>4, RowsOfTables
    <3>2. new = [deleted |-> new.deleted, customer |-> new.customer, services |-> new.services]
      BY <3>1 DEF InvoiceRow
    <3>3. [f \in DOMAIN new |-> new[f]] = [deleted |-> new.deleted, customer |-> new.customer, services |-> new.services]
      BY <3>1, InvoiceFields
    <3> QED
      BY <3>2, <3>3
  <2> QED
    BY <2>1, <2>2, <2>3, <2>4, IdsOfTables
<1>3. Overlaid(old, Sent(x, new)) = [f \in DOMAIN new |-> new[f]]
  BY <1>1 DEF Overlaid, Sent
<1> QED
  BY <1>2, <1>3

LEMMA SerialSteps ==
  ASSUME Inv, SerialInv, [Next]_vars
  PROVE  \/ UNCHANGED row
         \/ \E rows : Inserted(rows)
         \/ \E x \in Ids : \E new : Updated(x, new)
         \/ \E x \in Ids : Erase(x)
<1>1. ASSUME NEW h \in Handlers, Request(h) PROVE UNCHANGED row
  BY <1>1, RequestChecked, InvTypes DEF InsertsChecked, UpdatesChecked, Insert, Update
<1>2. ASSUME NEW h \in Handlers, Commit(h)
      PROVE  (\E rows : Inserted(rows)) \/ (\E x \in Ids : \E new : Updated(x, new))
  <2>1. StillChecked(h) /\ handler[h] # Idle
    BY <1>2 DEF SerialInv, Commit
  <2> DEFINE p == handler[h]
  <2>2. CASE p.insert = DOMAIN p.set /\ InsertChecked(p.set)
    <3>1. \A z \in Ids : row'[z] = IF z \in DOMAIN p.set THEN p.set[z] ELSE row[z]
      BY <1>2, <2>2, CommitRows
    <3> QED
      BY <2>2, <3>1 DEF Inserted
  <2>3. ASSUME NEW x \in Ids, NEW new, UpdateChecked(x, new), p.insert = {},
               DOMAIN p.set = {x}, p.set[x] = Sent(x, new)
        PROVE  Updated(x, new)
    <3>1. /\ row'[x] = Overlaid(row[x], Sent(x, new))
          /\ \A z \in Ids \ {x} : row'[z] = row[z]
      BY <1>2, <2>3, CommitRows
    <3>2. row[x] \in RowsOf(x) /\ new \in RowsOf(x)
      BY <2>3 DEF UpdateChecked, Inv, RowInv
    <3>3. row'[x] = new
      BY <3>1, <3>2, SentMakesNew
    <3> QED
      BY <2>3, <3>1, <3>3 DEF Updated
  <2> QED
    BY <2>1, <2>2, <2>3 DEF StillChecked
<1> QED
  BY <1>1, <1>2 DEF Next, Request, Rollback, DayPasses, vars

-----------------------------------------------------------------------------

\* A row that is erased takes nothing else with it.
LEMMA EraseRows ==
  ASSUME Inv, NEW x \in Ids, Erase(x)
  PROVE  /\ ~Exists(x)' /\ History(x) = {}
         /\ \A y \in Ids \ {x} : row'[y] = row[y]
  BY DEF Erase, Inv, RowInv, Exists, Erasable

LEMMA HistoryStep ==
  ASSUME Inv, SerialInv, DeletedHasNoHistory, [Next]_vars
  PROVE  DeletedHasNoHistory'
<1> SUFFICES ASSUME NEW z \in Customers \union Services, InBin(z)',
                    NEW b \in Appointments \union Invoices, Exists(b)', z \in Refers(row'[b])
             PROVE  FALSE
  BY DEF DeletedHasNoHistory, History
<1>1. z \in Ids /\ b \in Ids /\ b # z /\ Exists(z)' /\ row'[z].deleted
  BY DEF InBin
<1>2. InBin(z) => ~(Exists(b) /\ z \in Refers(row[b]))
  BY DEF DeletedHasNoHistory, History
<1>3. CASE UNCHANGED row
  BY <1>1, <1>2, <1>3 DEF InBin, Exists
<1>4. ASSUME NEW rows, Inserted(rows) PROVE FALSE
  <2>1. z \notin DOMAIN rows
    BY <1>1, <1>4 DEF Inserted, InsertChecked
  <2>2. InBin(z) /\ ~Live(z)
    BY <1>1, <1>4, <2>1 DEF Inserted, InBin, Live, Exists
  <2>3. CASE b \in DOMAIN rows
    BY <1>1, <1>4, <2>2, <2>3 DEF Inserted, InsertChecked
  <2>4. CASE b \notin DOMAIN rows
    BY <1>1, <1>2, <1>4, <2>2, <2>4 DEF Inserted, Exists
  <2> QED
    BY <2>3, <2>4
<1>5. ASSUME NEW x \in Ids, NEW new, Updated(x, new) PROVE FALSE
  <2>1. CASE x = z
    <3>1. new.deleted /\ row'[b] = row[b]
      BY <1>1, <1>5, <2>1 DEF Updated
    <3>2. Exists(b) /\ b \in History(z)
      BY <3>1 DEF Exists, History
    <3> QED
      BY <1>5, <2>1, <3>1, <3>2 DEF Updated, UpdateChecked
  <2>2. CASE x = b
    <3>1. row'[z] = row[z] /\ row'[b] = new /\ Exists(b)
      BY <1>1, <1>5, <2>2 DEF Updated, UpdateChecked
    <3>2. InBin(z) /\ ~Live(z)
      BY <1>1, <3>1 DEF InBin, Exists, Live
    <3> QED
      BY <1>2, <1>5, <2>2, <3>1, <3>2 DEF Updated, UpdateChecked
  <2>3. CASE x # z /\ x # b
    BY <1>1, <1>2, <1>5, <2>3 DEF Updated, InBin, Exists
  <2> QED
    BY <2>1, <2>2, <2>3
<1>6. ASSUME NEW x \in Ids, Erase(x) PROVE FALSE
  <2>1. row'[z] = row[z] /\ row'[b] = row[b]
    BY <1>1, <1>6, EraseRows
  <2> QED
    BY <1>1, <1>2, <2>1 DEF InBin, Exists
<1> QED
  BY <1>3, <1>4, <1>5, <1>6, SerialSteps

\* Of requests that do not overlap: what is in the bin was never booked, and
\* is not booked there.  So it may be erased without a trace, and an
\* appointment or an invoice is never under a deleted customer or service.
THEOREM BinHasNoHistory == ASSUME Serial PROVE Spec => []DeletedHasNoHistory
<1>1. Init => DeletedHasNoHistory
  BY DEF Init, DeletedHasNoHistory, InBin, Exists
<1> QED
  BY <1>1, HistoryStep, Invariance, SerialInvariance, PTL DEF Spec

\* Of requests that do not overlap: the statistics agree with each other.
THEOREM OneStory == ASSUME Serial PROVE Spec => []FiguresAgree
  BY BinHasNoHistory, TypeCorrect, HistoriesAgree, PTL

LEMMA ContactStep ==
  ASSUME Inv, SerialInv, "overwrite" \notin ImportModes, ContactsUnique, [Next]_vars
  PROVE  ContactsUnique'
<1> SUFFICES ASSUME NEW c \in Customers, NEW d \in Customers, c # d, Exists(c)', Exists(d)',
                    SameContact(row'[c], row'[d])
             PROVE  FALSE
  BY DEF ContactsUnique
<1>1. c \in Ids /\ d \in Ids
  OBVIOUS
<1>2. Exists(c) /\ Exists(d) => ~SameContact(row[c], row[d])
  BY DEF ContactsUnique
<1>3. \A a, b : SameContact(a, b) => SameContact(b, a)
  BY DEF SameContact
<1>4. CASE UNCHANGED row
  BY <1>2, <1>4 DEF Exists
<1>5. ASSUME NEW rows, Inserted(rows) PROVE FALSE
  <2>1. ContactsChecked(rows)
    BY <1>5 DEF Inserted, InsertChecked
  <2>2. ASSUME NEW a \in Customers, NEW b \in Customers, a # b, Exists(b)', a \in DOMAIN rows,
               SameContact(row'[a], row'[b])
        PROVE  FALSE
    <3>1. row'[a] = rows[a] /\ Conflicts(rows[a]) = {}
      BY <1>5, <2>1, <2>2 DEF Inserted, ContactsChecked
    <3>2. CASE b \in DOMAIN rows
      BY <1>5, <2>1, <2>2, <3>1, <3>2 DEF Inserted, ContactsChecked
    <3>3. CASE b \notin DOMAIN rows
      <4>1. row'[b] = row[b] /\ Exists(b)
        BY <1>5, <2>2, <3>3 DEF Inserted, Exists
      <4> QED
        BY <2>2, <3>1, <4>1 DEF Conflicts
    <3> QED
      BY <3>2, <3>3
  <2>3. c \notin DOMAIN rows /\ d \notin DOMAIN rows
    BY <1>3, <2>2
  <2> QED
    BY <1>1, <1>2, <1>5, <2>3 DEF Inserted, Exists
<1>6. ASSUME NEW x \in Ids, NEW new, Updated(x, new) PROVE FALSE
  <2>1. ASSUME NEW b \in Customers, x \in Customers, b # x, Exists(b)', SameContact(new, row'[b]),
               Exists(x) /\ Exists(b) => ~SameContact(row[x], row[b])
        PROVE  FALSE
    <3>1. row'[b] = row[b] /\ Exists(b) /\ Exists(x)
      BY <1>6, <2>1 DEF Updated, UpdateChecked, Exists
    <3>2. CASE Conflicts(new) \ {x} = {}
      BY <2>1, <3>1, <3>2 DEF Conflicts
    <3>3. CASE new.phone = row[x].phone /\ new.email = row[x].email
      BY <2>1, <3>1, <3>3 DEF SameContact
    <3> QED
      BY <1>6, <2>1, <3>2, <3>3 DEF Updated, UpdateChecked
  <2>2. CASE x = c
    BY <1>2, <1>6, <2>1, <2>2 DEF Updated
  <2>3. CASE x = d
    BY <1>2, <1>3, <1>6, <2>1, <2>3 DEF Updated
  <2>4. CASE x # c /\ x # d
    BY <1>1, <1>2, <1>6, <2>4 DEF Updated, Exists
  <2> QED
    BY <2>2, <2>3, <2>4
<1>7. ASSUME NEW x \in Ids, Erase(x) PROVE FALSE
  <2>1. row'[c] = row[c] /\ row'[d] = row[d]
    BY <1>1, <1>7, EraseRows
  <2> QED
    BY <1>2, <2>1 DEF Exists
<1> QED
  BY <1>4, <1>5, <1>6, <1>7, SerialSteps

\* Of requests that do not overlap, and of imports that do not overwrite
\* duplicates: no two customers share a telephone number or an address.
THEOREM ContactsAreUnique ==
  ASSUME Serial, "overwrite" \notin ImportModes
  PROVE  Spec => []ContactsUnique
<1>1. Init => ContactsUnique
  BY DEF Init, ContactsUnique, Exists
<1> QED
  BY <1>1, ContactStep, Invariance, SerialInvariance, PTL DEF Spec

\* Of requests that do not overlap: two appointments come to hold one slot by
\* a restore from the bin only.
THEOREM SlotsByRestoreOnly == ASSUME Serial PROVE Spec => DoubleBookedByRestore
<1> DEFINE Body == \A a, b \in Appointments : a # b /\ DoubleBooked(a, b)' /\ ~DoubleBooked(a, b) =>
                     InBin(a) \/ InBin(b)
<1>1. ASSUME Inv, SerialInv, [Next]_vars PROVE Body
  <2> SUFFICES ASSUME NEW a \in Appointments, NEW b \in Appointments, a # b,
                      DoubleBooked(a, b)', ~DoubleBooked(a, b)
               PROVE  InBin(a) \/ InBin(b)
    OBVIOUS
  <2>1. /\ a \in Ids /\ b \in Ids /\ Exists(a)' /\ Exists(b)'
        /\ ~row'[a].deleted /\ ~row'[b].deleted
        /\ row'[a].status # "Cancelled" /\ row'[b].status # "Cancelled"
        /\ row'[a].services = row'[b].services /\ row'[a].slot = row'[b].slot
    BY DEF DoubleBooked, Live, Exists
  <2>2. row'[a] # row[a] \/ row'[b] # row[b]
    BY <2>1 DEF DoubleBooked, Live, Exists
  <2>3. ASSUME NEW rows, Inserted(rows) PROVE FALSE
    <3>1. ASSUME NEW x \in DOMAIN rows, NEW y \in Appointments, x \in Appointments, x # y, {x, y} = {a, b}
          PROVE  FALSE
      <4>1. row'[x] = rows[x] /\ row'[y] = row[y] /\ NoClash(x, rows[x])
        BY <2>3, <3>1 DEF Inserted, InsertChecked
      <4>2. Live(y)
        BY <2>1, <3>1, <4>1 DEF Live, Exists
      <4> QED
        BY <2>1, <3>1, <4>1, <4>2 DEF NoClash
    <3>2. a \in DOMAIN rows \/ b \in DOMAIN rows
      BY <2>1, <2>2, <2>3 DEF Inserted
    <3>3. {a, b} = {b, a}
      OBVIOUS
    <3> QED
      BY <3>1, <3>2, <3>3
  <2>4. ASSUME NEW x \in Ids, NEW new, Updated(x, new) PROVE InBin(a) \/ InBin(b)
    <3>1. ASSUME NEW y \in Appointments, x \in Appointments, x # y, {x, y} = {a, b}
          PROVE  InBin(x)
      <4>1. row'[x] = new /\ row'[y] = row[y] /\ UpdateChecked(x, new)
        BY <2>4, <3>1 DEF Updated
      <4>2. Live(y) /\ ~new.deleted
        BY <2>1, <3>1, <4>1 DEF Live, Exists
      <4>3. ~NoClash(x, new)
        BY <2>1, <3>1, <4>1, <4>2 DEF NoClash
      <4> QED
        BY <3>1, <4>1, <4>2, <4>3 DEF UpdateChecked, Live, InBin
    <3>2. x = a \/ x = b
      BY <2>1, <2>2, <2>4 DEF Updated
    <3>3. {a, b} = {b, a}
      OBVIOUS
    <3> QED
      BY <3>1, <3>2, <3>3
  <2>5. ASSUME NEW x \in Ids, Erase(x) PROVE FALSE
    BY <1>1, <2>1, <2>2, <2>5, EraseRows
  <2> QED
    BY <1>1, <2>2, <2>3, <2>4, <2>5, SerialSteps
<1> HIDE DEF Body
<1>2. Spec => [][Body]_vars
  BY <1>1, Invariance, SerialInvariance, PTL DEF Spec
<1> QED
  BY <1>2 DEF DoubleBookedByRestore, Body
=============================================================================
