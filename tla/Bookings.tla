------------------------------- MODULE Bookings -------------------------------
(***************************************************************************)
(* Services, appointments, invoices and the recycle bin, with the          *)
(* customers: together, because each refuses the deletion or the restore   *)
(* of another by what refers to what.  The fields of a service, the        *)
(* amounts of an invoice and the notes are left out.                       *)
(***************************************************************************)
EXTENDS CustomerRecords

CreateService(h, s) ==
  /\ Free(s)
  /\ Insert(h, [x \in {s} |-> [deleted |-> FALSE]])

\* execute_import of services.  Names are left out, so any of the rows may be
\* new; a duplicate that is overwritten changes only what is left out too.
ImportServices(h, new) ==
  /\ new # {}
  /\ \A s \in new : Free(s)
  /\ Insert(h, [s \in new |-> [deleted |-> FALSE]])

DeleteService(h, s) ==
  /\ Live(s)
  /\ NeverBooked(s)
  /\ Update(h, s, [deleted |-> TRUE])

RestoreService(h, s) ==
  /\ InBin(s)
  /\ Update(h, s, [deleted |-> FALSE])

-----------------------------------------------------------------------------

\* Mutant: the filter on deleted_at is the wrong way round.
SlotFreeInBin(a, s, t) ==
  \A b \in Appointments \ {a} :
    InBin(b) => row[b].status = "Cancelled" \/ row[b].services # {s} \/ row[b].slot # t

\* AppointmentService.validate: no other appointment holds the slot.
SlotFree(a, s, t) ==
  \A b \in Appointments \ {a} :
    Live(b) => row[b].status = "Cancelled" \/ row[b].services # {s} \/ row[b].slot # t

\* Customer and services are there and not in the bin.
Bookable(c, services) == \A x \in {c} \union services : Live(x)

\* The slot must be free whatever status is asked for.
CreateAppointment(h, a, c, s, t, status) ==
  /\ Free(a)
  /\ t >= today
  /\ Bookable(c, {s})
  /\ SlotFree(a, s, t)
  /\ Insert(h, [x \in {a} |-> [deleted |-> FALSE, customer |-> c, services |-> {s},
                               slot |-> t, status |-> status]])

UpdateAppointment(h, a, c, s, t, status) ==
  /\ Live(a)
  /\ t >= today
  /\ Bookable(c, {s})
  /\ SlotFree(a, s, t)
  /\ Update(h, a, [deleted |-> FALSE, customer |-> c, services |-> {s},
                   slot |-> t, status |-> status])

DeleteAppointment(h, a) ==
  /\ Live(a)
  /\ Update(h, a, [row[a] EXCEPT !.deleted = TRUE])

\* The slot is not asked for again.
RestoreAppointment(h, a) ==
  /\ InBin(a)
  /\ Bookable(row[a].customer, row[a].services)
  /\ Update(h, a, [row[a] EXCEPT !.deleted = FALSE])

-----------------------------------------------------------------------------

\* Mutant: an invoice without a line is accepted.
CreateInvoiceOfNothing(h, i, c, services) ==
  /\ Free(i)
  /\ Bookable(c, services)
  /\ Insert(h, [x \in {i} |-> [deleted |-> FALSE, customer |-> c, services |-> services]])

CreateInvoice(h, i, c, services) ==
  /\ Free(i)
  /\ services # {}
  /\ Bookable(c, services)
  /\ Insert(h, [x \in {i} |-> [deleted |-> FALSE, customer |-> c, services |-> services]])

DeleteInvoice(h, i) ==
  /\ Live(i)
  /\ Update(h, i, [row[i] EXCEPT !.deleted = TRUE])

RestoreInvoice(h, i) ==
  /\ InBin(i)
  /\ Bookable(row[i].customer, row[i].services)
  /\ Update(h, i, [row[i] EXCEPT !.deleted = FALSE])

-----------------------------------------------------------------------------

\* Mutant: bookings in the bin do not count.
ErasableUnlessInUse(x) == \A b \in History(x) : InBin(b)

Erasable(x) == History(x) = {}

\* RecycleBinService.permanent_delete: the row is locked from the check to the
\* commit, and a handler that would refer to it waits, so it is one step.
Erase(x) ==
  /\ \E h \in Handlers : handler[h] = Idle
  /\ InBin(x)
  /\ Erasable(x)
  /\ row' = [row EXCEPT ![x] = Erased]
  /\ UNCHANGED <<today, handler>>

ServiceRequest(h) == \E s \in Services : CreateService(h, s) \/ DeleteService(h, s)

AppointmentRequest(h) ==
  \E a \in Appointments :
    \/ \E c \in Customers, s \in Services, t \in Days, status \in Statuses :
         \/ CreateAppointment(h, a, c, s, t, status)
         \/ UpdateAppointment(h, a, c, s, t, status)
    \/ DeleteAppointment(h, a)

InvoiceRequest(h) ==
  \E i \in Invoices :
    \/ \E c \in Customers, services \in SUBSET Services : CreateInvoice(h, i, c, services)
    \/ DeleteInvoice(h, i)

\* A file is analysed for a preview, stays on the server, and is analysed again
\* when the import is asked for: the preview decides nothing.
ImportRequest(h) ==
  \/ \E n \in 1..MaxFile : \E file \in [1..n -> FileRow], mode \in ImportModes :
       ImportCustomers(h, file, mode)
  \/ \E new \in SUBSET Services : ImportServices(h, new)

\* The recycle bin asks the table a row is of for its restore.
RestoreRequest(h) ==
  \/ \E c \in Customers : RestoreCustomer(h, c)
  \/ \E s \in Services : RestoreService(h, s)
  \/ \E a \in Appointments : RestoreAppointment(h, a)
  \/ \E i \in Invoices : RestoreInvoice(h, i)

Next ==
  \/ \E h \in Handlers :
       \/ CustomerRequest(h) \/ ImportRequest(h)
       \/ ServiceRequest(h)
       \/ AppointmentRequest(h)
       \/ InvoiceRequest(h)
       \/ RestoreRequest(h)
       \/ Commit(h)
       \/ Rollback(h)
  \/ \E x \in Ids : Erase(x)
  \/ DayPasses

Spec == Init /\ [][Next]_vars

-----------------------------------------------------------------------------

\* "Only to be deleted when it never had an appointment or an invoice": a
\* customer or a service in the bin has no bookings, and gets none there.
DeletedHasNoHistory ==
  \A x \in Customers \union Services : InBin(x) => History(x) = {}

DoubleBooked(a, b) ==
  /\ Live(a) /\ Live(b)
  /\ row[a].status # "Cancelled" /\ row[b].status # "Cancelled"
  /\ row[a].services = row[b].services /\ row[a].slot = row[b].slot

\* Two appointments come to hold one slot by a restore from the bin only,
\* never by a booking, by moving one, or by taking a cancellation back.
DoubleBookedByRestore ==
  [][\A a, b \in Appointments : a # b /\ DoubleBooked(a, b)' /\ ~DoubleBooked(a, b) =>
       InBin(a) \/ InBin(b)]_vars
=============================================================================
