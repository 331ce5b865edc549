--------------------------- MODULE CustomerRecords ---------------------------
(***************************************************************************)
(* Customers: CustomerService and the import of customers from a           *)
(* spreadsheet.  No constraint of the database keeps telephone numbers and *)
(* addresses unique; each handler asks for conflicts before it writes.     *)
(***************************************************************************)
EXTENDS Records, Sequences

CONSTANTS
  ImportModes,  \* what may be chosen for duplicates: skip, insert_only, overwrite
  MaxFile       \* bound: rows of an imported file

ASSUME CustomerConstants ==
  /\ ImportModes \subseteq {"skip", "insert_only", "overwrite"}
  /\ MaxFile \in Nat

SameContact(a, b) ==
  \/ a.phone # None /\ a.phone = b.phone
  \/ a.email # None /\ a.email = b.email

\* find_duplicate_conflicts: the customers, also those in the bin, that share
\* a telephone number or an address with this one.
Conflicts(contact) == {c \in Customers : Exists(c) /\ SameContact(contact, row[c])}

Contact == [phone : Phones \union {None}, email : Emails \union {None}]

NewCustomer(contact) ==
  [deleted |-> FALSE, phone |-> contact.phone, email |-> contact.email]

CreateCustomer(h, c, contact) ==
  /\ Free(c)
  /\ Conflicts(contact) = {}
  /\ Insert(h, [x \in {c} |-> NewCustomer(contact)])

UpdateCustomer(h, c, contact) ==
  /\ Live(c)
  /\ Conflicts(contact) \ {c} = {}
  /\ Update(h, c, NewCustomer(contact))

\* Mutant: bookings in the bin do not count.
LiveHistoryOnly(c) == \A b \in History(c) : InBin(b)

\* Mutant: only appointments count, not invoices.
NoAppointments(c) == History(c) \intersect Appointments = {}

\* can_delete: there is and was no booking.
NeverBooked(c) == History(c) = {}

DeleteCustomer(h, c) ==
  /\ Live(c)
  /\ NeverBooked(c)
  /\ Update(h, c, [row[c] EXCEPT !.deleted = TRUE])

\* Only conflicts with customers that are not in the bin refuse a restore.
RestoreCustomer(h, c) ==
  /\ InBin(c)
  /\ \A d \in Conflicts(row[c]) \ {c} : InBin(d)
  /\ Update(h, c, [row[c] EXCEPT !.deleted = FALSE])

-----------------------------------------------------------------------------

FileRow == [phone : Phones \union {None}, email : Emails \union {None}, named : BOOLEAN]

\* Mutant: a row is compared with the stored customers only.
DuplicateOfStored(file, i) == Conflicts(file[i]) # {}

\* analyze_file: the row repeats a customer, or an earlier row of the file,
\* which may itself be in error for want of a name.
Duplicate(file, i) ==
  \/ Conflicts(file[i]) # {}
  \/ \E j \in 1..(i - 1) : SameContact(file[i], file[j])

\* execute_import: the rows that become new customers.  A duplicate that is
\* to be overwritten becomes one too: the customers it repeats are looked for
\* in the data of the row, where analyze_file does not put them.
Imported(file, mode) ==
  {i \in DOMAIN file : file[i].named /\ (Duplicate(file, i) => mode = "overwrite")}

\* All rows are inserted in one transaction.  "All or nothing" refuses a file
\* with an error beforehand, which is no step.
ImportCustomers(h, file, mode) ==
  LET new == Imported(file, mode) IN
  /\ new # {}
  /\ \E id \in [new -> {c \in Customers : Free(c)}] :
       /\ \A i, j \in new : i # j => id[i] # id[j]
       /\ Insert(h, [c \in {id[i] : i \in new} |->
            NewCustomer(file[CHOOSE i \in new : id[i] = c])])

\* What the customer pages ask for.
CustomerRequest(h) ==
  \E c \in Customers :
    \/ \E contact \in Contact : CreateCustomer(h, c, contact) \/ UpdateCustomer(h, c, contact)
    \/ DeleteCustomer(h, c)

-----------------------------------------------------------------------------

\* No two customers share a telephone number or an address, whether they are
\* in use or in the bin: what check_duplicate and the import are there for.
ContactsUnique ==
  \A c, d \in Customers : c # d /\ Exists(c) /\ Exists(d) => ~SameContact(row[c], row[d])
=============================================================================
