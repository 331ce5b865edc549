------------------------------- MODULE Reports -------------------------------
(***************************************************************************)
(* What the program reads off the business tables: the statistics, the     *)
(* dashboard of the day, the lists, and the consistency audit.  A sum of   *)
(* money is the set of the invoices it adds up, a count the set of what it *)
(* counts; what may be chosen of an invoice (dates, payment, search words) *)
(* is left out.  Each report is one query of the committed rows, and       *)
(* reports are compared on the same rows.                                  *)
(***************************************************************************)
EXTENDS Bookings

\* get_summary: the money taken, and what there is.
Summary ==
  [revenue      |-> {i \in Invoices : Live(i)},
   customers    |-> {c \in Customers : Live(c)},
   appointments |-> {a \in Appointments : Live(a)}]

\* get_dashboard_data: totals, and the appointments of today.
Dashboard ==
  [customers    |-> {c \in Customers : Live(c)},
   services     |-> {s \in Services : Live(s)},
   appointments |-> {a \in Appointments : Live(a) /\ row[a].slot = today}]

\* Who each appointment of today is shown under, "-" when there is nobody.
ShownFor(a) == {x \in {row[a].customer} \union row[a].services : Exists(x)}

\* get_customer_statistics: an inner join, so a customer without an invoice
\* has no line, nor has one in the bin.
CustomerStatistics ==
  [c \in {d \in Customers : Live(d) /\ \E i \in Invoices : Live(i) /\ row[i].customer = d} |->
     {i \in Invoices : Live(i) /\ row[i].customer = c}]

\* get_service_statistics: likewise, by the lines of the invoices.
ServiceStatistics ==
  [s \in {u \in Services : Live(u) /\ \E i \in Invoices : Live(i) /\ u \in row[i].services} |->
     {i \in Invoices : Live(i) /\ s \in row[i].services}]

\* get_service_invoice_details: the customer must be in use, the service need not.
ServiceInvoices(s) ==
  {i \in Invoices : Live(i) /\ s \in row[i].services /\ Live(row[i].customer)}

\* get_customer_invoice_statistics.
CustomerInvoices(c) ==
  IF Live(c) THEN {i \in Invoices : Live(i) /\ row[i].customer = c} ELSE {}

\* _build_filtered_invoices_query, get_invoice_summary: an inner join with the
\* customer, in use or not.
ListedInvoices == {i \in Invoices : Live(i) /\ Exists(row[i].customer)}
InvoiceSummary == {i \in Invoices : Live(i) /\ Exists(row[i].customer)}

\* _build_filtered_query: the appointments of some days; an inner join again.
ListedAppointments(days) ==
  {a \in Appointments :
     /\ Live(a) /\ row[a].slot \in days
     /\ \A x \in {row[a].customer} \union row[a].services : Exists(x)}

\* get_appointment_summary: the same, by status.
AppointmentSummary(days) ==
  [status \in Statuses |-> {a \in ListedAppointments(days) : row[a].status = status}]

\* get_customer_history: for a customer in use, nothing else asked.
CustomerHistory(c) == {b \in History(c) : Live(c) /\ Live(b)}

-----------------------------------------------------------------------------

Issue(severity, code, id) == [severity |-> severity, code |-> code, id |-> id]

\* One issue for each number and each address that several customers have, in
\* use or in the bin; it names them all.
ContactIssues ==
  LET With(field, value) == {c \in Customers : Exists(c) /\ row[c][field] = value}
      Repeated(code, field, values) ==
        {Issue("WARNING", code, With(field, v)) : v \in
           {u \in values : \E c, d \in With(field, u) : c # d}}
  IN Repeated("CUSTOMER_DUPLICATE_PHONE", "phone", Phones)
       \union Repeated("CUSTOMER_DUPLICATE_EMAIL", "email", Emails)

\* What is wrong with the row y that the booking b refers to.
ReferenceIssues(b, y) ==
  (IF Exists(y) THEN {} ELSE {Issue("ERROR", "MISSING", {b})})
    \union (IF InBin(y) THEN {Issue("WARNING", "SOFT_DELETED", {b})} ELSE {})

\* Every appointment is looked at, those in the bin too.
AppointmentIssues ==
  UNION {UNION {ReferenceIssues(a, y) : y \in Refers(row[a])} :
           a \in {b \in Appointments : Exists(b)}}

InvoiceIssues ==
  UNION {ReferenceIssues(i, row[i].customer) : i \in {j \in Invoices : Exists(j)}}

\* The lines of an invoice are written and erased with it.
DetailIssues ==
  UNION {UNION {ReferenceIssues(i, s) : s \in row[i].services} :
           i \in {j \in Invoices : Exists(j)}}

\* run_data_consistency_audit.  Texts that need trimming, amounts and the
\* agreement of deleted_at with deleted_by are left out.
Audit == ContactIssues \union AppointmentIssues \union InvoiceIssues \union DetailIssues

Warned(ids) == \E issue \in Audit : issue.severity = "WARNING" /\ ids \subseteq issue.id

-----------------------------------------------------------------------------

\* The statistics tell one story: the customers' shares are the whole revenue,
\* every service sold has its line, and a line opens on the invoices it adds
\* up.  The queries filter by different deletions, so this rests on what may
\* be deleted while it is referred to.
FiguresAgree ==
  /\ UNION {CustomerStatistics[c] : c \in DOMAIN CustomerStatistics} = Summary.revenue
  /\ \A s \in Services :
       ServiceInvoices(s) =
         (IF s \in DOMAIN ServiceStatistics THEN ServiceStatistics[s] ELSE {})
  /\ \A c \in DOMAIN CustomerStatistics :
       CustomerStatistics[c] = CustomerInvoices(c)
         /\ CustomerInvoices(c) = CustomerHistory(c) \intersect Invoices
  /\ Summary.revenue = InvoiceSummary /\ InvoiceSummary = ListedInvoices
  /\ Dashboard.appointments = ListedAppointments({today})
  /\ Summary.appointments = UNION {AppointmentSummary(Days)[s] : s \in Statuses}
  /\ \A a \in Dashboard.appointments :
       ShownFor(a) \subseteq Dashboard.customers \union Dashboard.services

\* Requests that overlap can leave what none of them would alone; the audit
\* then has a warning about every customer whose contact is not its own, and
\* about every invoice or appointment that a report leaves out or shows under
\* something deleted.  They never leave what it calls an error: a reference to
\* nothing, as a permanent deletion might.
RacesAreReported ==
  /\ \A issue \in Audit : issue.severity # "ERROR"
  /\ \A c, d \in Customers :
       c # d /\ Exists(c) /\ Exists(d) /\ SameContact(row[c], row[d]) => Warned({c, d})
  /\ \A i \in Summary.revenue :
       \/ Warned({i})
       \/ /\ i \in CustomerInvoices(row[i].customer)
          /\ \A s \in row[i].services : s \in DOMAIN ServiceStatistics
  /\ \A a \in Summary.appointments :
       Warned({a}) \/ ShownFor(a) \subseteq Dashboard.customers \union Dashboard.services
=============================================================================
