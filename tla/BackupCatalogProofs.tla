------------------------ MODULE BackupCatalogProofs ------------------------
(***************************************************************************)
(* Proofs about BackupCatalog, for any number of workers, jobs and files.  *)
(***************************************************************************)
EXTENDS BackupCatalog, FiniteSetTheorems, TLAPS

USE BackupConstants

-----------------------------------------------------------------------------
(* Catalogues as functions.                                                *)

LEMMA OverFacts ==
  \A f, g :
    /\ DOMAIN Over(f, g) = DOMAIN f \union DOMAIN g
    /\ \A x \in DOMAIN f : Over(f, g)[x] = f[x]
    /\ \A x \in DOMAIN g \ DOMAIN f : Over(f, g)[x] = g[x]
  BY DEF Over

LEMMA SingleFacts ==
  \A x, y : DOMAIN Single(x, y) = {x} /\ Single(x, y)[x] = y
  BY DEF Single

LEMMA WithoutFacts ==
  \A f, x :
    /\ DOMAIN Without(f, x) = DOMAIN f \ {x}
    /\ \A y \in DOMAIN f \ {x} : Without(f, x)[y] = f[y]
  BY DEF Without

LEMMA NothingFacts == DOMAIN Nothing = {}
  BY DEF Nothing

\* SetToSeq lists every element.
LEMMA SequenceOfSet ==
  ASSUME NEW S, IsFiniteSet(S)
  PROVE  /\ Len(SetToSeq(S)) \in Nat
         /\ \A x \in S : \E i \in 1..Len(SetToSeq(S)) : SetToSeq(S)[i] = x
         /\ \A i \in 1..Len(SetToSeq(S)) : SetToSeq(S)[i] \in S
         /\ Len(SetToSeq(S)) = Cardinality(S)
<1> DEFINE n == Cardinality(S)
<1>1. n \in Nat /\ ExistsBijection(1..n, S)
  BY FS_CardinalityType
<1>2. PICK b \in [1..n -> S] : IsInjective(b)
  <2>1. PICK b \in Bijection(1..n, S) : TRUE
    BY <1>1 DEF ExistsBijection
  <2>2. b \in [1..n -> S] /\ \A i, j \in 1..n : b[i] = b[j] => i = j
    BY <2>1 DEF Bijection, Injection, IsInjective
  <2>3. IsInjective(b)
    BY <2>2 DEF IsInjective
  <2> QED
    BY <2>2, <2>3
<1> DEFINE s == SetToSeq(S)
<1>3. s \in [1..n -> S] /\ IsInjective(s)
  BY <1>2 DEF SetToSeq
<1>4. s \in Injection(1..n, S)
  BY <1>3 DEF IsInjective, Injection
<1>5. IsFiniteSet(1..n) /\ Cardinality(1..n) = n
  BY <1>1, FS_Interval
<1>6. s \in Surjection(1..n, S)
  BY <1>4, <1>5, FS_Injection
<1>7. Len(s) = n
  BY <1>1, <1>3
<1> QED
  BY <1>1, <1>3, <1>6, <1>7 DEF Surjection

-----------------------------------------------------------------------------
(* What a synchronisation computes.                                        *)

IsEntry(e) == e = [file |-> e.file, status |-> e.status, sum |-> e.sum]
Filed(entries, n) ==
  /\ DOMAIN entries \subseteq 0..n
  /\ \A id \in DOMAIN entries : IsEntry(entries[id])

FilesOK ==
  /\ \A name \in DOMAIN folder : folder[name] \in Contents
  /\ \A name \in DOMAIN oldFolder : oldFolder[name] \in Contents
  /\ uploaded \in Contents \union {NoFile}
  /\ IsFiniteSet(DOMAIN folder) /\ IsFiniteSet(DOMAIN oldFolder)

\* These entries tell the truth about the files there are now.
Truthful(entries) ==
  /\ 0 \in DOMAIN entries /\ entries[0].file = Old
  /\ \A name \in Found : \E id \in DOMAIN entries : entries[id].file = name
  /\ \A id \in DOMAIN entries \ {0} : Scanned(entries[id].file) =>
       /\ entries[id].status = "File Missing" <=> entries[id].file \notin Present
       /\ entries[id].status = "Valid" <=> Content(entries[id].file) \in Snapshots

LEMMA EntryMade ==
  ASSUME NEW a, NEW b, NEW c, NEW e, e = [file |-> a, status |-> b, sum |-> c]
  PROVE  IsEntry(e) /\ e.file = a /\ e.status = b /\ e.sum = c
<1>1. e.file = a /\ e.status = b /\ e.sum = c
  OBVIOUS
<1> QED
  BY <1>1, Zenon DEF IsEntry

\* Only the status of an entry is set, or only its checksum.
LEMMA EntryChanged ==
  ASSUME NEW e, IsEntry(e), NEW v
  PROVE  /\ [e EXCEPT !.status = v] = [file |-> e.file, status |-> v, sum |-> e.sum]
         /\ [e EXCEPT !.sum = v] = [file |-> e.file, status |-> e.status, sum |-> v]
<1> DEFINE a == e.file
           b == e.status
           c == e.sum
<1>1. e = [file |-> a, status |-> b, sum |-> c]
  BY Zenon DEF IsEntry
<1> HIDE DEF a, b, c
<1> QED
  BY <1>1 DEF a, b, c

LEMMA ContentFacts ==
  ASSUME FilesOK, NEW name
  PROVE  /\ name \in Present => Content(name) \in Contents
         /\ name \notin Present => Content(name) = NoFile
  BY DEF FilesOK, Present, Content

LEMMA IntegrityFacts ==
  ASSUME NEW content \in Contents \union {NoFile}
  PROVE  /\ Integrity(content) = "Valid" <=> content \in Snapshots
         /\ Integrity(content) = "File Missing" <=> content = NoFile
  BY DEF Integrity, Contents

LEMMA FoundFinite == ASSUME FilesOK PROVE IsFiniteSet(Found)
<1>1. IsFiniteSet(Present)
  BY FS_Union DEF FilesOK, Present
<1> QED
  BY <1>1, FS_Subset DEF Found

\* The entries a scan adds: their ids are new, and every file gets one.
LEMMA RegisteredFacts ==
  ASSUME FilesOK, drawn \in Nat, NEW entries, Filed(entries, drawn)
  PROVE  /\ Cardinality(Unregistered(entries)) \in Nat
         /\ Filed(Registered(entries), drawn + Cardinality(Unregistered(entries)))
         /\ DOMAIN entries \subseteq DOMAIN Registered(entries)
         /\ \A id \in DOMAIN entries : Registered(entries)[id] = entries[id]
         /\ \A name \in Found :
              \E id \in DOMAIN Registered(entries) : Registered(entries)[id].file = name
<1> DEFINE new == SetToSeq(Unregistered(entries))
           n == Cardinality(Unregistered(entries))
           added == [id \in drawn + 1 .. drawn + Len(new) |->
              [file |-> new[id - drawn], status |-> Integrity(Content(new[id - drawn])),
               sum |-> NoSum]]
<1>1. IsFiniteSet(Unregistered(entries))
  BY FoundFinite, FS_Subset DEF Unregistered
<1>2. /\ n \in Nat /\ Len(new) = n
      /\ \A name \in Unregistered(entries) : \E i \in 1..n : new[i] = name
  BY <1>1, SequenceOfSet
<1>3. Registered(entries) = Over(entries, added)
  BY DEF Registered
<1>4. DOMAIN added = drawn + 1 .. drawn + n /\ DOMAIN entries \subseteq 0..drawn
  BY <1>2 DEF Filed
<1>5. \A id \in drawn + 1 .. drawn + n :
        added[id] = [file |-> new[id - drawn], status |-> Integrity(Content(new[id - drawn])),
                     sum |-> NoSum]
  BY <1>2
<1>6. \A id \in drawn + 1 .. drawn + n : IsEntry(added[id]) /\ added[id].file = new[id - drawn]
  <2> SUFFICES ASSUME NEW id \in drawn + 1 .. drawn + n
               PROVE  IsEntry(added[id]) /\ added[id].file = new[id - drawn]
    OBVIOUS
  <2> DEFINE a == new[id - drawn]
             b == Integrity(Content(a))
             e == added[id]
  <2>1. e = [file |-> a, status |-> b, sum |-> NoSum]
    BY <1>5
  <2> HIDE DEF b, e
  <2>2. IsEntry(e) /\ e.file = a
    BY <2>1, EntryMade
  <2> QED
    BY <2>2 DEF e
<1>7. \A name \in Unregistered(entries) : \E id \in drawn + 1 .. drawn + n : added[id].file = name
  <2> SUFFICES ASSUME NEW name \in Unregistered(entries)
               PROVE  \E id \in drawn + 1 .. drawn + n : added[id].file = name
    OBVIOUS
  <2>1. PICK i \in 1..n : new[i] = name
    BY <1>2
  <2> DEFINE id == drawn + i
  <2>2. id \in drawn + 1 .. drawn + n /\ id - drawn = i
    BY <1>2
  <2> HIDE DEF added, new, n, id
  <2> QED
    BY <1>6, <2>1, <2>2
<1> HIDE DEF added, new
<1>8. /\ DOMAIN Over(entries, added) = DOMAIN entries \union DOMAIN added
      /\ \A id \in DOMAIN entries : Over(entries, added)[id] = entries[id]
      /\ \A id \in DOMAIN added \ DOMAIN entries : Over(entries, added)[id] = added[id]
  BY OverFacts
<1>9. \A id \in DOMAIN added : id \notin DOMAIN entries
  BY <1>4
<1>10. \A name \in Found :
         \E id \in DOMAIN Over(entries, added) : Over(entries, added)[id].file = name
  <2> SUFFICES ASSUME NEW name \in Found
               PROVE  \E id \in DOMAIN Over(entries, added) : Over(entries, added)[id].file = name
    OBVIOUS
  <2>1. CASE name \in Unregistered(entries)
    BY <1>4, <1>7, <1>8, <1>9, <2>1
  <2>2. CASE name \notin Unregistered(entries)
    <3>1. PICK id \in DOMAIN entries : entries[id].file = name
      BY <2>2 DEF Unregistered
    <3> QED
      BY <1>8, <3>1
  <2> QED
    BY <2>1, <2>2
<1>11. Filed(Over(entries, added), drawn + n)
  BY <1>2, <1>4, <1>6, <1>8, <1>9 DEF Filed
<1> QED
  BY <1>2, <1>3, <1>8, <1>10, <1>11

LEMMA RetestedFacts ==
  ASSUME NEW entries, NEW n, Filed(entries, n)
  PROVE  /\ DOMAIN Retested(entries) = DOMAIN entries
         /\ Filed(Retested(entries), n)
         /\ \A id \in DOMAIN entries :
              /\ Retested(entries)[id].file = entries[id].file
              /\ Retested(entries)[id].status =
                   IF entries[id].file \in Found
                   THEN Integrity(Content(entries[id].file)) ELSE "File Missing"
<1>1. \A id \in DOMAIN entries : Retested(entries)[id] =
        [file |-> entries[id].file,
         status |-> IF entries[id].file \in Found
                    THEN Integrity(Content(entries[id].file)) ELSE "File Missing",
         sum |-> entries[id].sum]
  <2> SUFFICES ASSUME NEW id \in DOMAIN entries
               PROVE  Retested(entries)[id] =
                 [file |-> entries[id].file,
                  status |-> IF entries[id].file \in Found
                             THEN Integrity(Content(entries[id].file)) ELSE "File Missing",
                  sum |-> entries[id].sum]
    OBVIOUS
  <2> DEFINE e == entries[id]
             v == IF e.file \in Found THEN Integrity(Content(e.file)) ELSE "File Missing"
  <2>1. Retested(entries)[id] = [e EXCEPT !.status = v]
    BY DEF Retested
  <2>2. IsEntry(e)
    BY DEF Filed
  <2> HIDE DEF v, e
  <2>3. [e EXCEPT !.status = v] = [file |-> e.file, status |-> v, sum |-> e.sum]
    BY <2>2, EntryChanged
  <2> QED
    BY <2>1, <2>3, Zenon DEF v, e
<1>2. DOMAIN Retested(entries) = DOMAIN entries
  BY DEF Retested
<1>3. \A id \in DOMAIN entries :
        /\ IsEntry(Retested(entries)[id])
        /\ Retested(entries)[id].file = entries[id].file
        /\ Retested(entries)[id].status =
             IF entries[id].file \in Found
             THEN Integrity(Content(entries[id].file)) ELSE "File Missing"
  <2> SUFFICES ASSUME NEW id \in DOMAIN entries
               PROVE  /\ IsEntry(Retested(entries)[id])
                      /\ Retested(entries)[id].file = entries[id].file
                      /\ Retested(entries)[id].status =
                           IF entries[id].file \in Found
                           THEN Integrity(Content(entries[id].file)) ELSE "File Missing"
    OBVIOUS
  <2> DEFINE a == entries[id].file
             b == IF a \in Found THEN Integrity(Content(a)) ELSE "File Missing"
             c == entries[id].sum
             e == Retested(entries)[id]
  <2>1. e = [file |-> a, status |-> b, sum |-> c]
    BY <1>1
  <2> HIDE DEF a, b, c, e
  <2>2. IsEntry(e) /\ e.file = a /\ e.status = b
    BY <2>1, EntryMade
  <2> QED
    BY <2>2 DEF e, a, b
<1>4. Filed(Retested(entries), n)
  BY <1>2, <1>3 DEF Filed
<1> QED
  BY <1>2, <1>3, <1>4

LEMMA ScanIsTruthful ==
  ASSUME FilesOK, drawn \in Nat, NEW entries, Filed(entries, drawn),
         0 \in DOMAIN entries, entries[0].file = Old
  PROVE  Truthful(Retested(Registered(entries)))
<1> DEFINE r == Registered(entries)
           s == Retested(r)
<1>1. /\ Filed(r, drawn + Cardinality(Unregistered(entries)))
      /\ 0 \in DOMAIN r /\ r[0].file = Old
      /\ \A name \in Found : \E id \in DOMAIN r : r[id].file = name
  BY RegisteredFacts
<1> HIDE DEF r
<1>2. /\ DOMAIN s = DOMAIN r
      /\ \A id \in DOMAIN r :
           /\ s[id].file = r[id].file
           /\ s[id].status = IF r[id].file \in Found
                             THEN Integrity(Content(r[id].file)) ELSE "File Missing"
  BY <1>1, RetestedFacts
<1> HIDE DEF s
<1>3. ASSUME NEW id \in DOMAIN s, Scanned(s[id].file)
      PROVE  /\ s[id].status = "File Missing" <=> s[id].file \notin Present
             /\ s[id].status = "Valid" <=> Content(s[id].file) \in Snapshots
  <2> DEFINE name == s[id].file
  <2>1. name \in Found <=> name \in Present
    BY <1>3 DEF Found
  <2>2. name \in Present => Content(name) \in Contents
    BY ContentFacts
  <2>3. name \notin Present => Content(name) = NoFile
    BY ContentFacts
  <2>4. NoFile \notin Contents /\ NoFile \notin Snapshots
    BY DEF Contents
  <2> QED
    BY <1>2, <2>1, <2>2, <2>3, <2>4, IntegrityFacts
<1>4. Truthful(s)
  BY <1>1, <1>2, <1>3 DEF Truthful
<1> QED
  BY <1>4 DEF s, r

-----------------------------------------------------------------------------
(* What is about to be written is a catalogue, and the files are copies.   *)

IsJob(j) ==
  DOMAIN j = {"at", "job", "alone", "id", "file", "place", "tested", "data", "todo", "sum"}
JobOK(j, n) ==
  IsJob(j) /\ Filed(j.data, n) /\ Filed(j.todo, n) /\ j.id \in 0..n

JobsInv == DOMAIN work = Workers /\ \A w \in Workers : JobOK(work[w], drawn)
CatalogueInv == drawn \in Nat /\ Filed(catalogue.entries, drawn)
ShapeInv == JobsInv /\ CatalogueInv /\ FilesOK /\ db \in Contents

\* What a worker may do: the disjuncts of Next.
Step(w) ==
  \/ Save(w) \/ Truncate(w) \/ Write(w) \/ Crash(w)
  \/ Create(w) \/ Sync(w) \/ Scan(w) \/ Drop(w)
  \/ Inspect(w) \/ Accept(w) \/ Validate(w) \/ Copy(w)
  \/ \E id \in Uuids :
       \/ Delete(w, id) \/ EditNotes(w, id) \/ CheckOther(w, id)
       \/ Restore(w, id) \/ Confirm(w, id)
  \/ \E content \in Snapshots \union {Torn} :
       \/ RestoreUpload(w, content)
       \/ \E ext \in Exts : UploadFile(w, content, ext)

LEMMA NextIsStep == Next <=> \E w \in Workers : Step(w)
  BY Zenon DEF Next, Step

LEMMA FiledGrows ==
  ASSUME NEW n \in Nat, NEW m \in Nat, n <= m
  PROVE  /\ \A e : Filed(e, n) => Filed(e, m)
         /\ \A j : JobOK(j, n) => JobOK(j, m)
<1>1. 0..n \subseteq 0..m
  OBVIOUS
<1>2. \A e : Filed(e, n) => Filed(e, m)
  BY <1>1 DEF Filed
<1> QED
  BY <1>1, <1>2 DEF JobOK

LEMMA FiledFacts ==
  ASSUME NEW n \in Nat
  PROVE  /\ Filed(Nothing, n)
         /\ Filed(OldEntries, n)
         /\ \A e, f : Filed(e, n) /\ Filed(f, n) => Filed(Over(e, f), n)
         /\ \A id \in 0..n : \A e : IsEntry(e) => Filed(Single(id, e), n)
         /\ \A e, id : Filed(e, n) => Filed(Without(e, id), n)
<1>1. Filed(Nothing, n)
  BY NothingFacts DEF Filed
<1>2. Filed(OldEntries, n)
  <2>1. DOMAIN OldEntries = {0} /\
        OldEntries[0] = [file |-> Old, status |-> "Valid", sum |-> NoSum]
    BY DEF OldEntries
  <2>2. IsEntry(OldEntries[0])
    BY <2>1, EntryMade
  <2> QED
    BY <2>1, <2>2 DEF Filed
<1>3. ASSUME NEW e, NEW f, Filed(e, n), Filed(f, n) PROVE Filed(Over(e, f), n)
  <2>1. DOMAIN Over(e, f) = DOMAIN e \union DOMAIN f
    BY OverFacts
  <2>2. ASSUME NEW x \in DOMAIN Over(e, f) PROVE IsEntry(Over(e, f)[x])
    <3>1. CASE x \in DOMAIN e
      <4>1. Over(e, f)[x] = e[x]
        BY <3>1, OverFacts
      <4> QED
        BY <1>3, <3>1, <4>1 DEF Filed
    <3>2. CASE x \in DOMAIN f \ DOMAIN e
      <4>1. Over(e, f)[x] = f[x]
        BY <3>2, OverFacts
      <4> QED
        BY <1>3, <3>2, <4>1 DEF Filed
    <3> QED
      BY <2>1, <3>1, <3>2
  <2> QED
    BY <1>3, <2>1, <2>2 DEF Filed
<1>4. \A id \in 0..n : \A e : IsEntry(e) => Filed(Single(id, e), n)
  <2> SUFFICES ASSUME NEW id \in 0..n, NEW e, IsEntry(e) PROVE Filed(Single(id, e), n)
    OBVIOUS
  <2> DEFINE f == Single(id, e)
  <2>1. DOMAIN f = {id} /\ f[id] = e
    BY SingleFacts
  <2> HIDE DEF f
  <2>2. Filed(f, n)
    BY <2>1 DEF Filed
  <2> QED
    BY <2>2 DEF f
<1>5. ASSUME NEW e, NEW id, Filed(e, n) PROVE Filed(Without(e, id), n)
  <2> DEFINE f == Without(e, id)
  <2>1. DOMAIN f = DOMAIN e \ {id} /\ \A y \in DOMAIN e \ {id} : f[y] = e[y]
    BY WithoutFacts
  <2> HIDE DEF f
  <2>2. Filed(f, n)
    BY <1>5, <2>1 DEF Filed
  <2> QED
    BY <2>2 DEF f
<1> QED
  BY <1>1, <1>2, <1>3, <1>4, <1>5

LEMMA LoadedFacts ==
  ASSUME CatalogueInv
  PROVE  Filed(Loaded, drawn) /\ 0 \in DOMAIN Loaded /\ Loaded[0].file = Old
<1>1. Filed(Loaded, drawn)
  BY FiledFacts DEF CatalogueInv, Loaded
<1>2. DOMAIN OldEntries = {0} /\ OldEntries[0].file = Old
  BY DEF OldEntries
<1>3. 0 \in DOMAIN Loaded /\ Loaded[0] = OldEntries[0]
  <2> DEFINE e == catalogue.entries
             f == OldEntries
  <2>1. DOMAIN Over(f, e) = DOMAIN f \union DOMAIN e /\ \A x \in DOMAIN f : Over(f, e)[x] = f[x]
    BY OverFacts
  <2> HIDE DEF e, f
  <2>2. 0 \in DOMAIN f => 0 \in DOMAIN Over(f, e) /\ Over(f, e)[0] = f[0]
    BY <2>1
  <2>3. 0 \in DOMAIN f
    BY <1>2 DEF f
  <2> QED
    BY <2>2, <2>3 DEF f, e, Loaded
<1> QED
  BY <1>1, <1>2, <1>3

LEMMA IdleOK == ASSUME NEW n \in Nat PROVE JobOK(Idle, n)
<1>1. IsJob(Idle) /\ Idle.data = Nothing /\ Idle.todo = Nothing /\ Idle.id = 0
  BY DEF IsJob, Idle
<1> QED
  BY <1>1, FiledFacts DEF JobOK

\* A job begins, and the other workers are no longer alone.
LEMMA JobsBegin ==
  ASSUME JobsInv, CatalogueInv, drawn' \in Nat, drawn <= drawn',
         NEW w \in Workers, NEW job, JobOK(job, drawn'), Begin(w, job)
  PROVE  JobsInv'
<1>1. DOMAIN work' = Workers
  BY DEF Begin
<1>2. JobOK(work'[w], drawn')
  <2>1. work'[w] = [job EXCEPT !.alone = \A u \in Workers \ {w} : work[u] = Idle]
    BY DEF Begin
  <2>2. /\ IsJob(work'[w]) /\ work'[w].data = job.data /\ work'[w].todo = job.todo
        /\ work'[w].id = job.id
    BY <2>1 DEF JobOK, IsJob
  <2> QED
    BY <2>2 DEF JobOK
<1>3. ASSUME NEW v \in Workers, v # w PROVE JobOK(work'[v], drawn')
  <2>1. JobOK(work[v], drawn')
    BY FiledGrows DEF JobsInv, CatalogueInv
  <2>2. CASE work[v] = Idle
    BY <1>3, <2>2, IdleOK DEF Begin
  <2>3. CASE work[v] # Idle
    <3>1. work'[v] = [work[v] EXCEPT !.alone = FALSE]
      BY <1>3, <2>3 DEF Begin
    <3>2. /\ IsJob(work'[v]) /\ work'[v].data = work[v].data /\ work'[v].todo = work[v].todo
          /\ work'[v].id = work[v].id
      BY <2>1, <3>1 DEF JobOK, IsJob
    <3> QED
      BY <2>1, <3>2 DEF JobOK
  <2> QED
    BY <2>2, <2>3
<1> QED
  BY <1>1, <1>2, <1>3 DEF JobsInv

LEMMA JobsGo ==
  ASSUME JobsInv, CatalogueInv, drawn' \in Nat, drawn <= drawn',
         NEW w \in Workers, NEW job, JobOK(job, drawn'), Goes(w, job)
  PROVE  JobsInv'
<1>1. DOMAIN work' = Workers /\ work'[w] = job
  BY DEF Goes, JobsInv
<1>2. ASSUME NEW v \in Workers, v # w PROVE JobOK(work'[v], drawn')
  <2>1. work'[v] = work[v]
    BY <1>2 DEF Goes, JobsInv
  <2> QED
    BY <2>1, FiledGrows DEF JobsInv, CatalogueInv
<1> QED
  BY <1>1, <1>2 DEF JobsInv

LEMMA Drawing ==
  ASSUME ShapeInv, NEW w \in Workers, Step(w)
  PROVE  drawn' \in Nat /\ drawn <= drawn'
<1> USE DEF ShapeInv
<1>1. CASE Scan(w)
  <2>1. Cardinality(Unregistered(work[w].data)) \in Nat
    BY RegisteredFacts DEF JobsInv, JobOK, CatalogueInv
  <2> QED
    BY <1>1, <2>1 DEF Scan, CatalogueInv
<1>2. CASE ~Scan(w)
  <2>1. drawn' = drawn \/ Draw
    BY <1>2 DEF Step, Save, Truncate, Write, Crash, Create, Sync, Drop, Inspect, Refused, Accept,
       Validate, Copy, Delete, EditNotes, CheckOther, Restore, Confirm, RestoreUpload, UploadFile,
       clock
  <2> QED
    BY <2>1 DEF Draw, CatalogueInv
<1> QED
  BY <1>1, <1>2

LEMMA JobsOfCatalogue ==
  ASSUME ShapeInv, NEW w \in Workers,
         Save(w) \/ Truncate(w) \/ Write(w) \/ Crash(w) \/ Sync(w) \/ Scan(w) \/ Drop(w)
  PROVE  JobsInv'
<1> DEFINE j == work[w]
<1>1. Step(w)
  BY DEF Step
<1>2. drawn \in Nat /\ drawn' \in Nat /\ drawn <= drawn' /\ JobsInv /\ CatalogueInv /\ FilesOK
  BY <1>1, Drawing DEF ShapeInv, CatalogueInv
<1>3. JobOK(j, drawn) /\ Filed(Loaded, drawn)
  BY <1>2, LoadedFacts DEF JobsInv
<1>4. JobOK(j, drawn') /\ Filed(Loaded, drawn')
  BY <1>2, <1>3, FiledGrows
<1>5. JobOK(Idle, drawn')
  BY <1>2, IdleOK
<1>6. ASSUME NEW job, Goes(w, job), JobOK(job, drawn') PROVE JobsInv'
  BY <1>2, <1>6, JobsGo
<1>7. CASE Crash(w) \/ Ends(w)
  BY <1>5, <1>6, <1>7 DEF Crash, Ends
<1>8. CASE Save(w)
  <2> DEFINE d == Over(j.data, Loaded)
             job == [j EXCEPT !.at = "truncate", !.data = d]
  <2>1. Filed(d, drawn')
    BY <1>2, <1>4, FiledFacts DEF JobOK
  <2>2. IsJob(job) /\ job.data = d /\ job.todo = j.todo /\ job.id = j.id
    BY <1>4 DEF JobOK, IsJob
  <2>3. JobOK(job, drawn')
    BY <1>4, <2>1, <2>2 DEF JobOK
  <2> QED
    BY <1>6, <1>8, <2>3 DEF Save
<1>9. CASE Truncate(w)
  <2> DEFINE job == [j EXCEPT !.at = "write"]
  <2>1. IsJob(job) /\ job.data = j.data /\ job.todo = j.todo /\ job.id = j.id
    BY <1>4 DEF JobOK, IsJob
  <2>2. JobOK(job, drawn')
    BY <1>4, <2>1 DEF JobOK
  <2> QED
    BY <1>6, <1>9, <2>2 DEF Truncate
<1>10. CASE Write(w) /\ ~Ends(w)
  <2> DEFINE job == [j EXCEPT !.at = "check", !.data = Nothing]
  <2>1. IsJob(job) /\ job.data = Nothing /\ job.todo = j.todo /\ job.id = j.id
    BY <1>4 DEF JobOK, IsJob
  <2>2. JobOK(job, drawn')
    BY <1>2, <1>4, <2>1, FiledFacts DEF JobOK
  <2>3. Goes(w, job)
    BY <1>10 DEF Write
  <2> QED
    BY <1>6, <2>2, <2>3
<1>11. CASE Sync(w)
  <2> DEFINE job == [Idle EXCEPT !.at = "scan", !.job = "sync", !.data = Loaded]
  <2>1. IsJob(job) /\ job.data = Loaded /\ job.todo = Nothing /\ job.id = 0
    BY DEF IsJob, Idle
  <2>2. JobOK(job, drawn')
    BY <1>2, <1>4, <2>1, FiledFacts DEF JobOK
  <2>3. Begin(w, job)
    BY <1>11 DEF Sync
  <2> QED
    BY <1>2, <2>2, <2>3, JobsBegin
<1>12. CASE Scan(w) /\ ~Ends(w)
  <2> DEFINE d == Retested(Registered(j.data))
             job == [j EXCEPT !.at = "truncate", !.data = d]
  <2>1. Filed(Registered(j.data), drawn + Cardinality(Unregistered(j.data)))
    BY <1>2, <1>3, RegisteredFacts DEF JobOK
  <2>2. Filed(d, drawn + Cardinality(Unregistered(j.data)))
    BY <2>1, RetestedFacts
  <2>3. Filed(d, drawn')
    BY <1>12, <2>2 DEF Scan
  <2>4. IsJob(job) /\ job.data = d /\ job.todo = j.todo /\ job.id = j.id
    BY <1>4 DEF JobOK, IsJob
  <2>5. JobOK(job, drawn')
    BY <1>4, <2>3, <2>4 DEF JobOK
  <2>6. Goes(w, job)
    BY <1>12 DEF Scan
  <2> QED
    BY <1>6, <2>5, <2>6
<1>13. CASE Drop(w) /\ ~Ends(w)
  <2> DEFINE d == Without(Loaded, j.id)
             job == [j EXCEPT !.at = "truncate", !.data = d]
  <2>1. Filed(d, drawn')
    BY <1>2, <1>4, FiledFacts
  <2>2. IsJob(job) /\ job.data = d /\ job.todo = j.todo /\ job.id = j.id
    BY <1>4 DEF JobOK, IsJob
  <2>3. JobOK(job, drawn')
    BY <1>4, <2>1, <2>2 DEF JobOK
  <2>4. Goes(w, job)
    BY <1>13 DEF Drop
  <2> QED
    BY <1>6, <2>3, <2>4
<1> QED
  BY <1>7, <1>8, <1>9, <1>10, <1>11, <1>12, <1>13

LEMMA JobsOfBackups ==
  ASSUME ShapeInv, NEW w \in Workers,
         \/ Create(w) \/ Validate(w) \/ Copy(w)
         \/ \E id \in Uuids :
              Delete(w, id) \/ EditNotes(w, id) \/ Restore(w, id) \/ Confirm(w, id)
         \/ \E content \in Snapshots \union {Torn} : RestoreUpload(w, content)
  PROVE  JobsInv'
<1> DEFINE j == work[w]
<1>1. Step(w)
  BY DEF Step
<1>2. drawn \in Nat /\ drawn' \in Nat /\ drawn <= drawn' /\ JobsInv /\ CatalogueInv /\ FilesOK
  BY <1>1, Drawing DEF ShapeInv, CatalogueInv
<1>3. JobOK(j, drawn) /\ Filed(Loaded, drawn)
  BY <1>2, LoadedFacts DEF JobsInv
<1>4. JobOK(j, drawn') /\ Filed(Loaded, drawn')
  BY <1>2, <1>3, FiledGrows
<1>5. JobOK(Idle, drawn')
  BY <1>2, IdleOK
<1>6. ASSUME NEW job, Goes(w, job), JobOK(job, drawn') PROVE JobsInv'
  BY <1>2, <1>6, JobsGo
<1>7. ASSUME NEW job, Begin(w, job), JobOK(job, drawn') PROVE JobsInv'
  BY <1>2, <1>7, JobsBegin
<1>8. CASE Create(w)
  <2> DEFINE e == [file |-> Backup(second'), status |-> "Valid", sum |-> NoSum]
             d == Single(drawn', e)
             job == [Idle EXCEPT !.at = "save", !.job = "create", !.data = d]
  <2>1. IsEntry(e)
    BY EntryMade
  <2>2. Filed(d, drawn')
    BY <1>2, <2>1, FiledFacts
  <2>3. IsJob(job) /\ job.data = d /\ job.todo = Nothing /\ job.id = 0
    BY DEF IsJob, Idle
  <2>4. JobOK(job, drawn')
    BY <1>2, <2>2, <2>3, FiledFacts DEF JobOK
  <2> QED
    BY <1>7, <1>8, <2>4 DEF Create
<1>9. CASE Validate(w) /\ ~Ends(w)
  <2> DEFINE job == [j EXCEPT !.at = "copy"]
  <2>1. IsJob(job) /\ job.data = j.data /\ job.todo = j.todo /\ job.id = j.id
    BY <1>4 DEF JobOK, IsJob
  <2>2. JobOK(job, drawn')
    BY <1>4, <2>1 DEF JobOK
  <2>3. Goes(w, job)
    BY <1>9 DEF Validate
  <2> QED
    BY <1>6, <2>2, <2>3
<1>10. CASE Copy(w) \/ Ends(w)
  BY <1>5, <1>6, <1>10 DEF Copy, Ends
<1>11. ASSUME NEW id \in Uuids, Delete(w, id) \/ EditNotes(w, id) PROVE JobsInv'
  <2>1. id \in 0..drawn' /\ IsEntry(Loaded[id])
    BY <1>4, <1>11 DEF Delete, EditNotes, Filed
  <2>2. CASE Delete(w, id)
    <3> DEFINE job == [Idle EXCEPT !.at = "drop", !.job = "delete", !.id = id]
    <3>1. IsJob(job) /\ job.data = Nothing /\ job.todo = Nothing /\ job.id = id
      BY DEF IsJob, Idle
    <3>2. JobOK(job, drawn')
      BY <1>2, <2>1, <3>1, FiledFacts DEF JobOK
    <3> QED
      BY <1>7, <2>2, <3>2 DEF Delete
  <2>3. CASE EditNotes(w, id)
    <3> DEFINE d == Single(id, Loaded[id])
               job == [Idle EXCEPT !.at = "save", !.job = "notes", !.data = d]
    <3>1. Filed(d, drawn')
      BY <1>2, <2>1, FiledFacts
    <3>2. IsJob(job) /\ job.data = d /\ job.todo = Nothing /\ job.id = 0
      BY DEF IsJob, Idle
    <3>3. JobOK(job, drawn')
      BY <1>2, <3>1, <3>2, FiledFacts DEF JobOK
    <3> QED
      BY <1>7, <2>3, <3>3 DEF EditNotes
  <2> QED
    BY <1>11, <2>2, <2>3
<1>12. ASSUME NEW job, Begin(w, job),
              IsJob(job) /\ job.data = Nothing /\ job.todo = Nothing /\ job.id = 0
       PROVE  JobsInv'
  <2>1. JobOK(job, drawn')
    BY <1>2, <1>12, FiledFacts DEF JobOK
  <2> QED
    BY <1>7, <1>12, <2>1
<1>13. ASSUME NEW id \in Uuids, Restore(w, id) \/ Confirm(w, id) PROVE JobsInv'
  <2> DEFINE f == Loaded[id].file
             p == Place(f)
             tried == [Idle EXCEPT !.at = "restore", !.job = "restore", !.tested = TRUE,
                                   !.file = f, !.place = p]
             untried == [Idle EXCEPT !.at = "restore", !.job = "restore", !.file = f, !.place = p]
  <2>1. IsJob(tried) /\ tried.data = Nothing /\ tried.todo = Nothing /\ tried.id = 0
    BY DEF IsJob, Idle
  <2>2. IsJob(untried) /\ untried.data = Nothing /\ untried.todo = Nothing /\ untried.id = 0
    BY DEF IsJob, Idle
  <2>3. Begin(w, tried) \/ Begin(w, untried)
    BY <1>13 DEF Restore, Confirm
  <2> QED
    BY <1>12, <2>1, <2>2, <2>3
<1>14. ASSUME NEW content \in Snapshots \union {Torn}, RestoreUpload(w, content) PROVE JobsInv'
  <2> DEFINE job == [Idle EXCEPT !.at = "restore", !.job = "restore", !.place = "upload"]
  <2>1. IsJob(job) /\ job.data = Nothing /\ job.todo = Nothing /\ job.id = 0
    BY DEF IsJob, Idle
  <2> QED
    BY <1>12, <1>14, <2>1 DEF RestoreUpload
<1> QED
  BY <1>8, <1>9, <1>10, <1>11, <1>13, <1>14

LEMMA JobsOfUploads ==
  ASSUME ShapeInv, NEW w \in Workers,
         \/ Inspect(w) \/ Accept(w)
         \/ \E id \in Uuids : CheckOther(w, id)
         \/ \E content \in Snapshots \union {Torn}, ext \in Exts : UploadFile(w, content, ext)
  PROVE  JobsInv'
<1> DEFINE j == work[w]
<1>1. Step(w)
  BY DEF Step
<1>2. drawn \in Nat /\ drawn' \in Nat /\ drawn <= drawn' /\ JobsInv /\ CatalogueInv /\ FilesOK
  BY <1>1, Drawing DEF ShapeInv, CatalogueInv
<1>3. JobOK(j, drawn) /\ Filed(Loaded, drawn)
  BY <1>2, LoadedFacts DEF JobsInv
<1>4. JobOK(j, drawn') /\ Filed(Loaded, drawn')
  BY <1>2, <1>3, FiledGrows
<1>5. JobOK(Idle, drawn')
  BY <1>2, IdleOK
<1>6. ASSUME NEW job, Goes(w, job), JobOK(job, drawn') PROVE JobsInv'
  BY <1>2, <1>6, JobsGo
<1>7. CASE Ends(w) \/ Refused(w)
  BY <1>5, <1>6, <1>7 DEF Ends, Refused
<1>8. ASSUME NEW content \in Snapshots \union {Torn}, NEW ext \in Exts, UploadFile(w, content, ext)
      PROVE  JobsInv'
  <2> DEFINE f == Upload(ext, drawn')
             job == [Idle EXCEPT !.at = "inspect", !.job = "upload", !.id = drawn', !.file = f]
  <2>1. IsJob(job) /\ job.data = Nothing /\ job.todo = Nothing /\ job.id = drawn'
    BY DEF IsJob, Idle
  <2>2. JobOK(job, drawn')
    BY <1>2, <2>1, FiledFacts DEF JobOK
  <2> QED
    BY <1>2, <1>8, <2>2, JobsBegin DEF UploadFile
<1>9. CASE Inspect(w) /\ ~Refused(w)
  <2> DEFINE s == Content(j.file)
             job == [j EXCEPT !.at = "check", !.todo = Loaded, !.sum = s]
  <2>1. IsJob(job) /\ job.data = j.data /\ job.todo = Loaded /\ job.id = j.id
    BY <1>4 DEF JobOK, IsJob
  <2>2. JobOK(job, drawn')
    BY <1>4, <2>1 DEF JobOK
  <2>3. Goes(w, job)
    BY <1>9 DEF Inspect
  <2> QED
    BY <1>6, <2>2, <2>3
<1>10. ASSUME NEW id \in Uuids, CheckOther(w, id), ~Refused(w) PROVE JobsInv'
  <2> DEFINE other == j.todo[id]
             sum == IF other.sum = NoSum THEN Content(other.file) ELSE other.sum
             summed == [other EXCEPT !.sum = sum]
             d == Single(id, summed)
             saving == [j EXCEPT !.at = "save", !.data = d, !.todo[id] = summed]
             rest == Without(j.todo, id)
             going == [j EXCEPT !.todo = rest]
  <2>1. id \in DOMAIN j.todo /\ id \in 0..drawn' /\ IsEntry(other)
    BY <1>4, <1>10 DEF CheckOther, JobOK, Filed
  <2>2. IsEntry(summed)
    <3> HIDE DEF other, sum
    <3>1. summed = [file |-> other.file, status |-> other.status, sum |-> sum]
      BY <2>1, EntryChanged
    <3> HIDE DEF summed
    <3> QED
      BY <3>1, EntryMade
  <2>3. Goes(w, saving) \/ Goes(w, going)
    BY <1>10 DEF CheckOther
  <2> HIDE DEF summed
  <2>4. JobOK(saving, drawn')
    <3>1. Filed(d, drawn')
      BY <1>2, <2>1, <2>2, FiledFacts
    <3> DEFINE t == [j.todo EXCEPT ![id] = summed]
    <3>2. Filed(t, drawn')
      BY <1>4, <2>1, <2>2 DEF JobOK, Filed
    <3>3. IsJob(saving) /\ saving.data = d /\ saving.todo = t /\ saving.id = j.id
      BY <1>4 DEF JobOK, IsJob
    <3> QED
      BY <1>4, <3>1, <3>2, <3>3 DEF JobOK
  <2>5. JobOK(going, drawn')
    <3>1. Filed(rest, drawn')
      BY <1>2, <1>4, FiledFacts DEF JobOK
    <3>2. IsJob(going) /\ going.data = j.data /\ going.todo = rest /\ going.id = j.id
      BY <1>4 DEF JobOK, IsJob
    <3> QED
      BY <1>4, <3>1, <3>2 DEF JobOK
  <2> QED
    BY <1>6, <2>3, <2>4, <2>5
<1>11. CASE Accept(w) /\ ~Refused(w)
  <2> DEFINE e == [file |-> Import(second', j.file.ext), status |-> "Valid", sum |-> j.sum]
             d == Single(j.id, e)
             job == [j EXCEPT !.at = "save", !.job = "import", !.data = d]
  <2>1. IsEntry(e)
    BY EntryMade
  <2>2. Filed(d, drawn')
    BY <1>2, <1>4, <2>1, FiledFacts DEF JobOK
  <2>3. IsJob(job) /\ job.data = d /\ job.todo = j.todo /\ job.id = j.id
    BY <1>4 DEF JobOK, IsJob
  <2>4. JobOK(job, drawn')
    BY <1>4, <2>2, <2>3 DEF JobOK
  <2>5. Goes(w, job)
    BY <1>11 DEF Accept
  <2> QED
    BY <1>6, <2>4, <2>5
<1> QED
  BY <1>7, <1>8, <1>9, <1>10, <1>11

LEMMA JobsStep == ASSUME ShapeInv, NEW w \in Workers, Step(w) PROVE JobsInv'
<1>1. CASE Save(w) \/ Truncate(w) \/ Write(w) \/ Crash(w) \/ Sync(w) \/ Scan(w) \/ Drop(w)
  BY <1>1, JobsOfCatalogue
<1>2. CASE \/ Create(w) \/ Validate(w) \/ Copy(w)
           \/ \E id \in Uuids :
                Delete(w, id) \/ EditNotes(w, id) \/ Restore(w, id) \/ Confirm(w, id)
           \/ \E content \in Snapshots \union {Torn} : RestoreUpload(w, content)
  BY <1>2, JobsOfBackups
<1>3. CASE \/ Inspect(w) \/ Accept(w)
           \/ \E id \in Uuids : CheckOther(w, id)
           \/ \E content \in Snapshots \union {Torn}, ext \in Exts : UploadFile(w, content, ext)
  BY <1>3, JobsOfUploads
<1> QED
  BY <1>1, <1>2, <1>3, Zenon DEF Step

LEMMA CatalogueStep == ASSUME ShapeInv, NEW w \in Workers, Step(w) PROVE CatalogueInv'
<1>1. drawn \in Nat /\ drawn' \in Nat /\ drawn <= drawn' /\ JobsInv /\ Filed(catalogue.entries, drawn)
  BY Drawing DEF ShapeInv, CatalogueInv
<1>2. JobOK(work[w], drawn') /\ Filed(catalogue.entries, drawn')
  BY <1>1, FiledGrows DEF JobsInv
<1>3. CASE UNCHANGED catalogue
  BY <1>1, <1>2, <1>3 DEF CatalogueInv
<1>4. CASE Truncate(w) \/ Write(w)
  <2>1. catalogue'.entries \in {Nothing, work[w].data}
    BY <1>4 DEF Truncate, Write, Blank, Whole, Garbled
  <2> QED
    BY <1>1, <1>2, <2>1, FiledFacts DEF CatalogueInv, JobOK
<1> QED
  BY <1>3, <1>4 DEF Step, Save, Crash, Create, Sync, Scan, Drop, Inspect, Refused, Accept,
     Validate, Copy, Delete, EditNotes, CheckOther, Restore, Confirm, RestoreUpload, UploadFile

\* A folder with a file more, or less.
Copies(f) == IsFiniteSet(DOMAIN f) /\ \A name \in DOMAIN f : f[name] \in Contents

LEMMA CopiesFacts ==
  /\ \A f, name, content : Copies(f) /\ content \in Contents => Copies(Over(Single(name, content), f))
  /\ \A f, name : Copies(f) => Copies(Without(f, name))
<1>1. ASSUME NEW f, NEW name, NEW content \in Contents, Copies(f)
      PROVE  Copies(Over(Single(name, content), f))
  <2> DEFINE s == Single(name, content)
             o == Over(s, f)
  <2>1. DOMAIN s = {name} /\ s[name] = content
    BY SingleFacts
  <2>2. /\ DOMAIN o = DOMAIN s \union DOMAIN f
        /\ \A x \in DOMAIN s : o[x] = s[x]
        /\ \A x \in DOMAIN f \ DOMAIN s : o[x] = f[x]
    BY DEF Over
  <2> HIDE DEF o, s
  <2>3. IsFiniteSet(DOMAIN o)
    <3>1. IsFiniteSet(DOMAIN f \union {name})
      BY <1>1, FS_AddElement DEF Copies
    <3>2. DOMAIN o = DOMAIN f \union {name}
      BY <2>1, <2>2
    <3> QED
      BY <3>1, <3>2
  <2>4. \A x \in DOMAIN o : o[x] \in Contents
    BY <1>1, <2>1, <2>2 DEF Copies
  <2> QED
    BY <2>3, <2>4 DEF Copies, o, s
<1>2. ASSUME NEW f, NEW name, Copies(f) PROVE Copies(Without(f, name))
  <2> DEFINE o == Without(f, name)
  <2>1. DOMAIN o = DOMAIN f \ {name} /\ \A y \in DOMAIN f \ {name} : o[y] = f[y]
    BY WithoutFacts
  <2> HIDE DEF o
  <2>2. IsFiniteSet(DOMAIN f \ {name})
    BY <1>2, FS_Subset DEF Copies
  <2>3. Copies(o)
    BY <1>2, <2>1, <2>2 DEF Copies
  <2> QED
    BY <2>3 DEF o
<1> QED
  BY <1>1, <1>2

LEMMA FilesStep ==
  ASSUME ShapeInv, NEW w \in Workers, Step(w) PROVE FilesOK' /\ db' \in Contents
<1>1. Copies(folder) /\ Copies(oldFolder) /\ uploaded \in Contents \union {NoFile} /\ db \in Contents
  BY DEF ShapeInv, FilesOK, Copies
<1>2. Snapshots \union {Torn, Empty} \subseteq Contents /\ Contents \subseteq Snapshots \union {Torn, Empty}
  BY DEF Contents
<1>3. ASSUME Copies(folder'), Copies(oldFolder'), uploaded' \in Contents \union {NoFile}, db' \in Contents
      PROVE  FilesOK' /\ db' \in Contents
  BY <1>3 DEF FilesOK, Copies
<1>4. CASE UNCHANGED <<db, folder, oldFolder, uploaded>>
  BY <1>1, <1>3, <1>4, Zenon
<1>5. CASE Create(w)
  <2>1. UNCHANGED <<oldFolder, uploaded>> /\ db' \in Snapshots \union {db}
    BY <1>5 DEF Create
  <2>2. PICK copy \in {db', Torn} : folder' = Over(Single(Backup(second'), copy), folder)
    BY <1>5 DEF Create
  <2>3. db' \in Contents /\ copy \in Contents
    BY <1>1, <1>2, <2>1
  <2>4. Copies(Over(Single(Backup(second'), copy), folder))
    BY <1>1, <2>3, CopiesFacts
  <2> QED
    BY <1>1, <1>3, <2>1, <2>2, <2>3, <2>4
<1>6. ASSUME NEW id \in Uuids, Delete(w, id) PROVE FilesOK' /\ db' \in Contents
  <2> DEFINE name == Loaded[id].file
  <2>1. /\ folder' = folder \/ folder' = Without(folder, name)
        /\ oldFolder' = oldFolder \/ oldFolder' = Without(oldFolder, name)
        /\ UNCHANGED <<db, uploaded>>
    BY <1>6 DEF Delete
  <2>2. Copies(Without(folder, name)) /\ Copies(Without(oldFolder, name))
    BY <1>1, CopiesFacts
  <2> QED
    BY <1>1, <1>3, <2>1, <2>2
<1>7. ASSUME NEW content \in Snapshots \union {Torn}, RestoreUpload(w, content)
      PROVE  FilesOK' /\ db' \in Contents
  BY <1>1, <1>2, <1>3, <1>7 DEF RestoreUpload
<1>8. ASSUME NEW content \in Snapshots \union {Torn}, NEW ext \in Exts, UploadFile(w, content, ext)
      PROVE  FilesOK' /\ db' \in Contents
  <2>1. Copies(Over(Single(Upload(ext, drawn'), content), folder))
    BY <1>1, <1>2, CopiesFacts
  <2> QED
    BY <1>1, <1>3, <1>8, <2>1 DEF UploadFile
<1>9. CASE Refused(w)
  <2>1. Copies(Without(folder, work[w].file))
    BY <1>1, CopiesFacts
  <2> QED
    BY <1>1, <1>3, <1>9, <2>1 DEF Refused
<1>10. CASE Accept(w) /\ ~Refused(w)
  <2> DEFINE f == work[w].file
             name == Import(second', f.ext)
  <2>1. /\ f \in DOMAIN folder
        /\ folder' = Over(Single(name, folder[f]), Without(folder, f))
        /\ UNCHANGED <<db, oldFolder, uploaded>>
    BY <1>10 DEF Accept
  <2>2. Copies(Without(folder, f)) /\ folder[f] \in Contents
    BY <1>1, <2>1, CopiesFacts DEF Copies
  <2>3. Copies(Over(Single(name, folder[f]), Without(folder, f)))
    BY <2>2, CopiesFacts
  <2> QED
    BY <1>1, <1>3, <2>1, <2>3
<1>11. CASE Copy(w)
  <2> DEFINE f == work[w].file
  <2>1. At(work[w]) \in Contents \union {NoFile}
    BY <1>1 DEF At, Copies
  <2>2. db' \in Contents
    BY <1>2, <1>11, <2>1 DEF Copy
  <2>3. Copies(Over(Single(f, Empty), folder)) /\ Copies(Over(Single(f, Empty), oldFolder))
    BY <1>1, <1>2, CopiesFacts
  <2>4. /\ folder' = folder \/ folder' = Over(Single(f, Empty), folder)
        /\ oldFolder' = oldFolder \/ oldFolder' = Over(Single(f, Empty), oldFolder)
        /\ uploaded' \in {uploaded, NoFile}
    BY <1>11 DEF Copy
  <2> QED
    BY <1>1, <1>3, <2>2, <2>3, <2>4
<1>12. CASE Validate(w)
  BY <1>1, <1>3, <1>12 DEF Validate, files
<1> QED
  BY <1>4, <1>5, <1>6, <1>7, <1>8, <1>9, <1>10, <1>11, <1>12
     DEF Step, Save, Truncate, Write, Crash, Sync, Scan, Drop, Inspect, Accept,
         EditNotes, CheckOther, Restore, Confirm, files

LEMMA ShapeInductive == ShapeInv /\ [Next]_vars => ShapeInv'
<1> SUFFICES ASSUME ShapeInv, [Next]_vars PROVE ShapeInv'
  OBVIOUS
<1>1. CASE UNCHANGED vars
  <2>1. UNCHANGED <<work, drawn, catalogue, folder, oldFolder, uploaded, db>>
    BY <1>1 DEF vars, files, clock
  <2> QED
    BY <2>1 DEF ShapeInv, JobsInv, CatalogueInv, FilesOK
<1>2. CASE Next
  <2>1. PICK w \in Workers : Step(w)
    BY <1>2, NextIsStep
  <2> QED
    BY <2>1, JobsStep, CatalogueStep, FilesStep DEF ShapeInv
<1> QED
  BY <1>1, <1>2

LEMMA ShapeInit == Init => ShapeInv
<1> SUFFICES ASSUME Init PROVE ShapeInv
  OBVIOUS
<1>1. Snapshots \subseteq Contents
  BY DEF Contents
<1>2. JobsInv /\ CatalogueInv
  BY IdleOK, FiledFacts DEF Init, JobsInv, CatalogueInv, Whole
<1>3. Copies(Nothing)
  BY NothingFacts, FS_EmptySet DEF Copies
<1>4. PICK copy \in Snapshots : oldFolder = Single(Old, copy)
  BY DEF Init
<1>5. Copies(oldFolder)
  <2>1. DOMAIN oldFolder = {Old} /\ oldFolder[Old] = copy
    BY <1>4, SingleFacts
  <2>2. IsFiniteSet({Old})
    BY FS_Singleton
  <2>3. \A name \in DOMAIN oldFolder : oldFolder[name] \in Contents
    BY <1>1, <2>1
  <2> QED
    BY <2>1, <2>2, <2>3 DEF Copies
<1> QED
  BY <1>1, <1>2, <1>3, <1>5 DEF Init, ShapeInv, FilesOK, Copies

-----------------------------------------------------------------------------
(* Working alone.  The history variable says so only when it is true, and  *)
(* whoever steps, the others are not alone afterwards.                     *)

AloneInv ==
  \A w \in Workers : work[w] # Idle /\ work[w].alone =>
    \A u \in Workers \ {w} : work[u] = Idle

\* The worker goes on with the job it has, or begins one.
GoesOn(w) ==
  /\ work[w] # Idle
  /\ \A u \in Workers \ {w} : work'[u] = work[u]
  /\ work'[w] = Idle \/ (work'[w].alone <=> work[w].alone)
StartsWork(w) ==
  /\ work[w] = Idle
  /\ \A u \in Workers \ {w} : work'[u] = Idle \/ ~work'[u].alone
  /\ work'[w].alone => \A u \in Workers \ {w} : work[u] = Idle /\ work'[u] = Idle

LEMMA BeginStarts ==
  ASSUME JobsInv, NEW w \in Workers, NEW job, IsJob(job), Begin(w, job)
  PROVE  /\ StartsWork(w)
         /\ work'[w].at = job.at /\ work'[w].job = job.job /\ work'[w].tested = job.tested
         /\ work'[w].data = job.data /\ work'[w].file = job.file /\ work'[w].place = job.place
<1>1. work'[w] = [job EXCEPT !.alone = \A u \in Workers \ {w} : work[u] = Idle]
  BY DEF Begin
<1>2. \A u \in Workers \ {w} : work'[u] = IF work[u] = Idle THEN Idle
                                          ELSE [work[u] EXCEPT !.alone = FALSE]
  BY DEF Begin
<1>3. work'[w].alone => \A u \in Workers \ {w} : work[u] = Idle
  BY <1>1 DEF IsJob
<1>4. ASSUME NEW u \in Workers \ {w}, work[u] # Idle PROVE ~work'[u].alone
  <2>1. work'[u] = [work[u] EXCEPT !.alone = FALSE] /\ IsJob(work[u])
    BY <1>2, <1>4 DEF JobsInv, JobOK
  <2> QED
    BY <2>1 DEF IsJob
<1>5. work[w] = Idle
  BY DEF Begin
<1>6. StartsWork(w)
  BY <1>2, <1>3, <1>4, <1>5 DEF StartsWork
<1> QED
  BY <1>1, <1>6 DEF IsJob

LEMMA GoesKeeps ==
  ASSUME JobsInv, NEW w \in Workers, NEW job, Goes(w, job)
  PROVE  work'[w] = job /\ \A u \in Workers \ {w} : work'[u] = work[u]
  BY DEF Goes, JobsInv

LEMMA AloneKept ==
  ASSUME AloneInv, NEW w \in Workers, GoesOn(w) \/ StartsWork(w)
  PROVE  AloneInv' /\ \A u \in Workers \ {w} : work'[u] = Idle \/ ~work'[u].alone
<1>1. CASE GoesOn(w)
  BY <1>1 DEF GoesOn, AloneInv
<1>2. CASE StartsWork(w)
  BY <1>2 DEF StartsWork, AloneInv
<1> QED
  BY <1>1, <1>2

\* What a step leaves the worker with, as far as restores go: a job that is no
\* restore, or one that was not tested, or one just tested, or the same restore.
AfterStep(w) ==
  \/ work'[w].at \notin {"restore", "copy"} \/ ~work'[w].tested
  \/ \E id \in Uuids : Restore(w, id)
  \/ Validate(w) /\ work'[w] = [work[w] EXCEPT !.at = "copy"]

\* And as far as synchronisations go.
AfterSync(w) ==
  \/ work'[w].job # "sync"
  \/ Sync(w)
  \/ work[w].job = "sync" /\ (Scan(w) \/ Truncate(w) \/ work[w].at \notin {"scan", "truncate", "write"})

LEMMA StartKinds ==
  ASSUME JobsInv, NEW w \in Workers,
         \/ Create(w) \/ Sync(w)
         \/ \E id \in Uuids :
              Delete(w, id) \/ EditNotes(w, id) \/ Restore(w, id) \/ Confirm(w, id)
         \/ \E content \in Snapshots \union {Torn} :
              RestoreUpload(w, content) \/ \E ext \in Exts : UploadFile(w, content, ext)
  PROVE  StartsWork(w) /\ AfterStep(w) /\ AfterSync(w)
<1>1. ASSUME NEW job, IsJob(job), Begin(w, job),
             job.at \notin {"restore", "copy"} \/ ~job.tested, job.job # "sync"
      PROVE  StartsWork(w) /\ AfterStep(w) /\ AfterSync(w)
  <2>1. /\ StartsWork(w) /\ work'[w].at = job.at /\ work'[w].tested = job.tested
        /\ work'[w].job = job.job
    BY <1>1, BeginStarts
  <2> QED
    BY <1>1, <2>1 DEF AfterStep, AfterSync
<1>2. CASE Create(w)
  <2> DEFINE d == Single(drawn', [file |-> Backup(second'), status |-> "Valid", sum |-> NoSum])
             job == [Idle EXCEPT !.at = "save", !.job = "create", !.data = d]
  <2>1. IsJob(job) /\ job.at = "save" /\ job.job = "create"
    BY DEF IsJob, Idle
  <2>2. Begin(w, job)
    BY <1>2 DEF Create
  <2> QED
    BY <1>1, <2>1, <2>2
<1>3. CASE Sync(w)
  <2> DEFINE job == [Idle EXCEPT !.at = "scan", !.job = "sync", !.data = Loaded]
  <2>1. IsJob(job) /\ job.at = "scan"
    BY DEF IsJob, Idle
  <2>2. StartsWork(w) /\ work'[w].at = "scan"
    BY <1>3, <2>1, BeginStarts DEF Sync
  <2> QED
    BY <1>3, <2>2 DEF AfterStep, AfterSync
<1>4. ASSUME NEW id \in Uuids, Delete(w, id) \/ EditNotes(w, id) \/ Confirm(w, id)
      PROVE  StartsWork(w) /\ AfterStep(w) /\ AfterSync(w)
  <2> DEFINE f == Loaded[id].file
             p == Place(f)
             d == Single(id, Loaded[id])
             deletion == [Idle EXCEPT !.at = "drop", !.job = "delete", !.id = id]
             edit == [Idle EXCEPT !.at = "save", !.job = "notes", !.data = d]
             untried == [Idle EXCEPT !.at = "restore", !.job = "restore", !.file = f, !.place = p]
  <2>1. IsJob(deletion) /\ deletion.at = "drop" /\ deletion.job = "delete"
    BY DEF IsJob, Idle
  <2>2. IsJob(edit) /\ edit.at = "save" /\ edit.job = "notes"
    BY DEF IsJob, Idle
  <2>3. IsJob(untried) /\ untried.tested = FALSE /\ untried.job = "restore"
    BY DEF IsJob, Idle
  <2>4. Begin(w, deletion) \/ Begin(w, edit) \/ Begin(w, untried)
    BY <1>4 DEF Delete, EditNotes, Confirm
  <2> QED
    BY <1>1, <2>1, <2>2, <2>3, <2>4
<1>5. ASSUME NEW id \in Uuids, Restore(w, id)
      PROVE  StartsWork(w) /\ AfterStep(w) /\ AfterSync(w)
  <2> DEFINE f == Loaded[id].file
             p == Place(f)
             tried == [Idle EXCEPT !.at = "restore", !.job = "restore", !.tested = TRUE,
                                   !.file = f, !.place = p]
  <2>1. IsJob(tried) /\ tried.job = "restore"
    BY DEF IsJob, Idle
  <2>2. StartsWork(w) /\ work'[w].job = "restore"
    BY <1>5, <2>1, BeginStarts DEF Restore
  <2> QED
    BY <1>5, <2>2 DEF AfterStep, AfterSync
<1>6. ASSUME NEW content \in Snapshots \union {Torn}, RestoreUpload(w, content)
      PROVE  StartsWork(w) /\ AfterStep(w) /\ AfterSync(w)
  <2> DEFINE job == [Idle EXCEPT !.at = "restore", !.job = "restore", !.place = "upload"]
  <2>1. IsJob(job) /\ job.tested = FALSE /\ job.job = "restore"
    BY DEF IsJob, Idle
  <2> QED
    BY <1>1, <1>6, <2>1 DEF RestoreUpload
<1>7. ASSUME NEW content \in Snapshots \union {Torn}, NEW ext \in Exts, UploadFile(w, content, ext)
      PROVE  StartsWork(w) /\ AfterStep(w) /\ AfterSync(w)
  <2> DEFINE f == Upload(ext, drawn')
             job == [Idle EXCEPT !.at = "inspect", !.job = "upload", !.id = drawn', !.file = f]
  <2>1. IsJob(job) /\ job.at = "inspect" /\ job.job = "upload"
    BY DEF IsJob, Idle
  <2>2. Begin(w, job)
    BY <1>7 DEF UploadFile
  <2> QED
    BY <1>1, <2>1, <2>2
<1> QED
  BY <1>2, <1>3, <1>4, <1>5, <1>6, <1>7

LEMMA GoKinds ==
  ASSUME JobsInv, NEW w \in Workers,
         \/ Save(w) \/ Truncate(w) \/ Write(w) \/ Crash(w) \/ Scan(w) \/ Drop(w)
         \/ Inspect(w) \/ Accept(w) \/ Validate(w) \/ Copy(w)
         \/ \E id \in Uuids : CheckOther(w, id)
  PROVE  GoesOn(w) /\ AfterStep(w) /\ AfterSync(w)
<1> DEFINE j == work[w]
<1>1. IsJob(j) /\ Idle.at = "idle" /\ Idle.job = "none"
  BY DEF JobsInv, JobOK, Idle
<1>2. work[w] # Idle
  BY <1>1 DEF Save, Truncate, Write, Crash, Scan, Drop, Inspect, Accept, Validate, Copy, CheckOther
<1>3. ASSUME NEW job, Goes(w, job), job = Idle \/ (job.alone <=> j.alone)
      PROVE  GoesOn(w) /\ work'[w] = job
  BY <1>2, <1>3, GoesKeeps DEF GoesOn
<1>4. CASE Ends(w) \/ Refused(w)
  <2>1. Goes(w, Idle)
    BY <1>4 DEF Ends, Refused
  <2> QED
    BY <1>1, <1>3, <2>1 DEF AfterStep, AfterSync
<1>5. CASE Save(w)
  <2> DEFINE d == Over(j.data, Loaded)
             job == [j EXCEPT !.at = "truncate", !.data = d]
  <2>1. job.at = "truncate" /\ job.job = j.job /\ job.alone = j.alone
    BY <1>1 DEF IsJob
  <2>2. Goes(w, job) /\ j.at = "save"
    BY <1>5 DEF Save
  <2> HIDE DEF job
  <2>3. GoesOn(w) /\ work'[w] = job
    BY <1>3, <2>1, <2>2
  <2> QED
    BY <2>1, <2>2, <2>3 DEF AfterStep, AfterSync
<1>6. CASE Truncate(w)
  <2> DEFINE job == [j EXCEPT !.at = "write"]
  <2>1. job.at = "write" /\ job.job = j.job /\ job.alone = j.alone
    BY <1>1 DEF IsJob
  <2>2. Goes(w, job)
    BY <1>6 DEF Truncate
  <2> HIDE DEF job
  <2>3. GoesOn(w) /\ work'[w] = job
    BY <1>3, <2>1, <2>2
  <2> QED
    BY <1>6, <2>1, <2>3 DEF AfterStep, AfterSync
<1>7. CASE Write(w) /\ ~Ends(w)
  <2> DEFINE job == [j EXCEPT !.at = "check", !.data = Nothing]
  <2>1. job.at = "check" /\ job.job = j.job /\ job.alone = j.alone
    BY <1>1 DEF IsJob
  <2>2. Goes(w, job) /\ j.job = "upload"
    BY <1>7 DEF Write
  <2> HIDE DEF job
  <2>3. GoesOn(w) /\ work'[w] = job
    BY <1>3, <2>1, <2>2
  <2> QED
    BY <2>1, <2>2, <2>3 DEF AfterStep, AfterSync
<1>8. CASE Scan(w) /\ ~Ends(w)
  <2> DEFINE d == Retested(Registered(j.data))
             job == [j EXCEPT !.at = "truncate", !.data = d]
  <2>1. job.at = "truncate" /\ job.job = j.job /\ job.alone = j.alone
    BY <1>1 DEF IsJob
  <2>2. Goes(w, job)
    BY <1>8 DEF Scan
  <2> HIDE DEF job
  <2>3. GoesOn(w) /\ work'[w] = job
    BY <1>3, <2>1, <2>2
  <2> QED
    BY <1>8, <2>1, <2>3 DEF AfterStep, AfterSync
<1>9. CASE Drop(w) /\ ~Ends(w)
  <2> DEFINE d == Without(Loaded, j.id)
             job == [j EXCEPT !.at = "truncate", !.data = d]
  <2>1. job.at = "truncate" /\ job.job = j.job /\ job.alone = j.alone
    BY <1>1 DEF IsJob
  <2>2. Goes(w, job) /\ j.at = "drop"
    BY <1>9 DEF Drop
  <2> HIDE DEF job
  <2>3. GoesOn(w) /\ work'[w] = job
    BY <1>3, <2>1, <2>2
  <2> QED
    BY <2>1, <2>2, <2>3 DEF AfterStep, AfterSync
<1>10. CASE Inspect(w) /\ ~Refused(w)
  <2> DEFINE s == Content(j.file)
             job == [j EXCEPT !.at = "check", !.todo = Loaded, !.sum = s]
  <2>1. job.at = "check" /\ job.job = j.job /\ job.alone = j.alone
    BY <1>1 DEF IsJob
  <2>2. Goes(w, job) /\ j.at = "inspect"
    BY <1>10 DEF Inspect
  <2> HIDE DEF job
  <2>3. GoesOn(w) /\ work'[w] = job
    BY <1>3, <2>1, <2>2
  <2> QED
    BY <2>1, <2>2, <2>3 DEF AfterStep, AfterSync
<1>11. CASE Accept(w) /\ ~Refused(w)
  <2> DEFINE d == Single(j.id, [file |-> Import(second', j.file.ext), status |-> "Valid",
                                sum |-> j.sum])
             job == [j EXCEPT !.at = "save", !.job = "import", !.data = d]
  <2>1. job.at = "save" /\ job.job = "import" /\ job.alone = j.alone
    BY <1>1 DEF IsJob
  <2>2. Goes(w, job)
    BY <1>11 DEF Accept
  <2> HIDE DEF job
  <2>3. GoesOn(w) /\ work'[w] = job
    BY <1>3, <2>1, <2>2
  <2> QED
    BY <2>1, <2>3 DEF AfterStep, AfterSync
<1>12. CASE Validate(w) /\ ~Ends(w)
  <2> DEFINE job == [j EXCEPT !.at = "copy"]
  <2>1. job.at = "copy" /\ job.job = j.job /\ job.alone = j.alone
    BY <1>1 DEF IsJob
  <2>2. Goes(w, job) /\ j.at = "restore"
    BY <1>12 DEF Validate
  <2>3. GoesOn(w) /\ work'[w] = job
    BY <1>3, <2>1, <2>2
  <2>4. AfterStep(w)
    BY <1>12, <2>3 DEF AfterStep
  <2> HIDE DEF job
  <2> QED
    BY <2>1, <2>2, <2>3, <2>4 DEF AfterSync
<1>13. ASSUME NEW id \in Uuids, CheckOther(w, id), ~Refused(w)
       PROVE  GoesOn(w) /\ AfterStep(w) /\ AfterSync(w)
  <2> DEFINE other == j.todo[id]
             sum == IF other.sum = NoSum THEN Content(other.file) ELSE other.sum
             summed == [other EXCEPT !.sum = sum]
             d == Single(id, summed)
             saving == [j EXCEPT !.at = "save", !.data = d, !.todo[id] = summed]
             rest == Without(j.todo, id)
             going == [j EXCEPT !.todo = rest]
  <2>1. Goes(w, saving) \/ Goes(w, going)
    BY <1>13 DEF CheckOther
  <2>2. j.at = "check"
    BY <1>13 DEF CheckOther
  <2> HIDE DEF summed, d, rest
  <2>3. saving.at = "save" /\ saving.job = j.job /\ saving.alone = j.alone
    BY <1>1 DEF IsJob
  <2>4. going.at = "check" /\ going.job = j.job /\ going.alone = j.alone
    BY <1>1, <2>2 DEF IsJob
  <2> HIDE DEF saving, going
  <2>5. GoesOn(w) /\ work'[w] \in {saving, going}
    BY <1>3, <2>1, <2>3, <2>4
  <2> QED
    BY <2>2, <2>3, <2>4, <2>5 DEF AfterStep, AfterSync
<1> QED
  BY <1>4, <1>5, <1>6, <1>7, <1>8, <1>9, <1>10, <1>11, <1>12, <1>13 DEF Crash, Copy

LEMMA StepKinds ==
  ASSUME JobsInv, NEW w \in Workers, Step(w)
  PROVE  (GoesOn(w) \/ StartsWork(w)) /\ AfterStep(w) /\ AfterSync(w)
<1>1. CASE \/ Create(w) \/ Sync(w)
           \/ \E id \in Uuids :
                Delete(w, id) \/ EditNotes(w, id) \/ Restore(w, id) \/ Confirm(w, id)
           \/ \E content \in Snapshots \union {Torn} :
                RestoreUpload(w, content) \/ \E ext \in Exts : UploadFile(w, content, ext)
  BY <1>1, StartKinds
<1>2. CASE \/ Save(w) \/ Truncate(w) \/ Write(w) \/ Crash(w) \/ Scan(w) \/ Drop(w)
           \/ Inspect(w) \/ Accept(w) \/ Validate(w) \/ Copy(w)
           \/ \E id \in Uuids : CheckOther(w, id)
  BY <1>2, GoKinds
<1> QED
  BY <1>1, <1>2, Zenon DEF Step

-----------------------------------------------------------------------------
(* A restore that was tested and left alone copies a whole database.       *)

RestoreInv ==
  \A w \in Workers : work[w].at \in {"restore", "copy"} /\ work[w].tested /\ work[w].alone =>
    At(work[w]) \in Snapshots

LEMMA IntegrityTested ==
  ASSUME FilesOK, NEW name, Integrity(Content(name)) = "Valid"
  PROVE  Content(name) \in Snapshots /\ name \in Present
<1>1. NoFile \notin Snapshots
  OBVIOUS
<1> QED
  BY <1>1, ContentFacts, IntegrityFacts

LEMMA AtNext ==
  ASSUME NEW j, UNCHANGED files
  PROVE  At(j)' = At(j)
  BY DEF At, files

LEMMA RestoreInductive ==
  ASSUME ShapeInv, AloneInv, RestoreInv, [Next]_vars
  PROVE  RestoreInv'
<1>1. CASE UNCHANGED vars
  BY <1>1 DEF RestoreInv, At, vars, files
<1>2. CASE Next
  <2>1. PICK w \in Workers : Step(w)
    BY <1>2, NextIsStep
  <2>2. (GoesOn(w) \/ StartsWork(w)) /\ AfterStep(w) /\ JobsInv
    BY <2>1, StepKinds DEF ShapeInv
  <2>3. \A u \in Workers \ {w} : work'[u] = Idle \/ ~work'[u].alone
    BY <2>2, AloneKept
  <2>4. Idle.at = "idle"
    BY DEF Idle
  <2>5. ASSUME work'[w].at \in {"restore", "copy"}, work'[w].tested, work'[w].alone
        PROVE  At(work[w])' \in Snapshots
    <3>1. CASE \E id \in Uuids : Restore(w, id)
      <4>1. PICK id \in Uuids : Restore(w, id)
        BY <3>1
      <4> DEFINE f == Loaded[id].file
                 p == Place(f)
                 job == [Idle EXCEPT !.at = "restore", !.job = "restore", !.tested = TRUE,
                                     !.file = f, !.place = p]
      <4>2. Content(f) \in Snapshots /\ f \in Present
        BY <4>1, IntegrityTested DEF Restore, ShapeInv
      <4>3. IsJob(job) /\ job.file = f /\ job.place = p
        BY DEF IsJob, Idle
      <4>4. work'[w].file = f /\ work'[w].place = p
        BY <2>2, <4>1, <4>3, BeginStarts DEF Restore
      <4>5. PICK k : k = work'[w]
        OBVIOUS
      <4>6. At(k) = Content(f)
        BY <4>2, <4>4, <4>5 DEF At, Place, Present, Content
      <4>7. At(k)' = At(k)
        BY <4>1, AtNext DEF Restore
      <4> QED
        BY <4>2, <4>5, <4>6, <4>7
    <3>2. CASE Validate(w) /\ work'[w] = [work[w] EXCEPT !.at = "copy"]
      <4>1. IsJob(work[w])
        BY <2>2 DEF JobsInv, JobOK
      <4>2. /\ work'[w].tested = work[w].tested /\ work'[w].alone = work[w].alone
            /\ work'[w].file = work[w].file /\ work'[w].place = work[w].place
            /\ work'[w].at = "copy"
        BY <3>2, <4>1 DEF IsJob
      <4>3. At(work[w]) \in Snapshots
        BY <2>5, <3>2, <4>2 DEF RestoreInv, Validate
      <4>4. work'[w] # Idle
        BY <2>4, <4>2
      <4>5. UNCHANGED files
        <5>1. ~Ends(w)
          BY <2>2, <4>4 DEF Ends, Goes, JobsInv
        <5> QED
          BY <3>2, <5>1 DEF Validate, files
      <4>6. At(work[w])' = At(work[w])
        BY <4>2, <4>5 DEF At, files
      <4> QED
        BY <4>3, <4>6
    <3> QED
      BY <2>2, <2>5, <3>1, <3>2 DEF AfterStep
  <2> QED
    BY <2>3, <2>4, <2>5 DEF RestoreInv
<1> QED
  BY <1>1, <1>2

-----------------------------------------------------------------------------
(* A synchronisation left alone knows the truth from its scan to its end.  *)

SyncInv ==
  \A w \in Workers : work[w].job = "sync" /\ work[w].alone =>
    /\ work[w].at \in {"scan", "truncate", "write"}
    /\ work[w].at = "scan" => work[w].data = Loaded
    /\ work[w].at \in {"truncate", "write"} => Truthful(work[w].data)
    /\ work[w].at = "write" => catalogue = Blank

LEMMA TruthfulNext ==
  ASSUME NEW d, UNCHANGED files, Truthful(d)
  PROVE  Truthful(d)'
<1>1. Present' = Present /\ \A name : Content(name)' = Content(name)
  BY DEF Present, Content, files
<1>2. Found' = Found
  BY <1>1 DEF Found
<1> QED
  BY <1>1, <1>2 DEF Truthful

LEMMA TruthTold ==
  ASSUME NEW d, UNCHANGED files, Truthful(d), Loaded' = d \/ Loaded' = Over(OldEntries, d)
  PROVE  TellsTheTruth'
<1>1. Present' = Present /\ \A name : Content(name)' = Content(name)
  BY DEF Present, Content, files
<1>2. DOMAIN OldEntries = {0} /\ OldEntries[0].file = Old
  BY DEF OldEntries
<1>3. PICK e : e = Loaded'
  OBVIOUS
<1>4. /\ DOMAIN e = DOMAIN d
      /\ \A id \in DOMAIN d \ {0} : e[id] = d[id]
      /\ \A id \in DOMAIN d : e[id].file = d[id].file
  <2>1. CASE e = d
    BY <2>1
  <2>2. CASE e = Over(OldEntries, d)
    <3> DEFINE o == OldEntries
    <3>1. /\ DOMAIN Over(o, d) = DOMAIN o \union DOMAIN d
          /\ \A x \in DOMAIN o : Over(o, d)[x] = o[x]
          /\ \A x \in DOMAIN d \ DOMAIN o : Over(o, d)[x] = d[x]
      BY DEF Over
    <3>2. DOMAIN o = {0} /\ o[0].file = Old
      BY <1>2
    <3> HIDE DEF o
    <3>3. 0 \in DOMAIN d /\ d[0].file = Old
      BY DEF Truthful
    <3>4. DOMAIN e = DOMAIN d
      BY <2>2, <3>1, <3>2, <3>3 DEF o
    <3>5. e[0] = o[0] /\ \A id \in DOMAIN d \ {0} : e[id] = d[id]
      BY <2>2, <3>1, <3>2 DEF o
    <3> QED
      BY <3>2, <3>3, <3>4, <3>5
  <2> QED
    BY <1>3, <2>1, <2>2
<1>5. \A name \in Present : Scanned(name) => \E id \in DOMAIN e : e[id].file = name
  BY <1>4 DEF Truthful, Found
<1>6. \A id \in DOMAIN e \ {0} : Scanned(e[id].file) =>
        /\ e[id].status = "File Missing" <=> e[id].file \notin Present
        /\ e[id].status = "Valid" <=> Content(e[id].file) \in Snapshots
  <2> SUFFICES ASSUME NEW id \in DOMAIN e \ {0}, Scanned(e[id].file)
               PROVE  /\ e[id].status = "File Missing" <=> e[id].file \notin Present
                      /\ e[id].status = "Valid" <=> Content(e[id].file) \in Snapshots
    OBVIOUS
  <2>1. id \in DOMAIN d \ {0} /\ e[id] = d[id]
    BY <1>4
  <2>2. /\ e[id].status = "File Missing" <=> e[id].file \notin Present
        /\ e[id].status = "Valid" <=> Content(e[id].file) \in Snapshots
    BY <2>1 DEF Truthful
  <2> QED
    BY <2>2
<1> QED
  BY <1>1, <1>2, <1>3, <1>5, <1>6 DEF TellsTheTruth

LEMMA SyncInductive ==
  ASSUME ShapeInv, AloneInv, SyncInv, [Next]_vars
  PROVE  SyncInv'
<1>1. CASE UNCHANGED vars
  <2>1. UNCHANGED <<work, catalogue>> /\ UNCHANGED files
    BY <1>1 DEF vars
  <2>2. Loaded' = Loaded
    BY <2>1 DEF Loaded
  <2>3. \A d : Truthful(d) => Truthful(d)'
    BY <2>1, TruthfulNext
  <2> QED
    BY <2>1, <2>2, <2>3 DEF SyncInv
<1>2. CASE Next
  <2>1. PICK w \in Workers : Step(w)
    BY <1>2, NextIsStep
  <2>2. (GoesOn(w) \/ StartsWork(w)) /\ AfterSync(w) /\ JobsInv
    BY <2>1, StepKinds DEF ShapeInv
  <2>3. \A u \in Workers \ {w} : work'[u] = Idle \/ ~work'[u].alone
    BY <2>2, AloneKept
  <2>4. Idle.at = "idle" /\ Idle.job = "none"
    BY DEF Idle
  <2>5. PICK j : j = work'[w]
    OBVIOUS
  <2>6. ASSUME j.job = "sync", j.alone
        PROVE  /\ j.at \in {"scan", "truncate", "write"}
               /\ j.at = "scan" => j.data = Loaded'
               /\ j.at \in {"truncate", "write"} => Truthful(j.data)'
               /\ j.at = "write" => catalogue' = Blank
    <3>1. CASE Sync(w)
      <4> DEFINE job == [Idle EXCEPT !.at = "scan", !.job = "sync", !.data = Loaded]
      <4>1. IsJob(job) /\ job.at = "scan" /\ job.data = Loaded
        BY DEF IsJob, Idle
      <4>2. j.at = "scan" /\ j.data = Loaded
        BY <2>2, <2>5, <3>1, <4>1, BeginStarts DEF Sync
      <4>3. Loaded' = Loaded
        BY <3>1 DEF Sync, Loaded
      <4> QED
        BY <4>2, <4>3
    <3>2. CASE ~Sync(w)
      <4>1. /\ work[w].job = "sync"
            /\ Scan(w) \/ Truncate(w) \/ work[w].at \notin {"scan", "truncate", "write"}
        BY <2>5, <2>6, <3>2, <2>2 DEF AfterSync
      <4>2. work[w].alone
        <5>1. work[w] # Idle
          BY <2>4, <4>1
        <5>2. j # Idle
          BY <2>4, <2>6
        <5> QED
          BY <2>2, <2>5, <2>6, <5>1, <5>2 DEF GoesOn, StartsWork
      <4>3. /\ work[w].at = "scan" => work[w].data = Loaded
            /\ work[w].at \in {"truncate", "write"} => Truthful(work[w].data)
            /\ Scan(w) \/ Truncate(w)
        BY <4>1, <4>2 DEF SyncInv
      <4>4. IsJob(work[w]) /\ FilesOK /\ CatalogueInv
        BY <2>2 DEF JobsInv, JobOK, ShapeInv
      <4>5. UNCHANGED files
        BY <4>3 DEF Scan, Truncate
      <4>6. CASE Scan(w)
        <5> DEFINE synced == Retested(Registered(work[w].data))
                   job == [work[w] EXCEPT !.at = "truncate", !.data = synced]
        <5>1. Goes(w, job)
          <6>1. ~Ends(w)
            BY <2>2, <2>4, <2>5, <2>6 DEF Ends, Goes, JobsInv
          <6> QED
            BY <4>6, <6>1 DEF Scan
        <5>2. work[w].data = Loaded
          BY <4>3, <4>6 DEF Scan
        <5>3. Truthful(synced)
          BY <4>4, <5>2, LoadedFacts, ScanIsTruthful DEF CatalogueInv
        <5> HIDE DEF synced
        <5>4. job.at = "truncate" /\ job.data = synced
          BY <4>4 DEF IsJob
        <5>5. j = job
          BY <2>2, <2>5, <5>1 DEF Goes, JobsInv
        <5>6. PICK d : d = synced
          OBVIOUS
        <5>7. Truthful(d)'
          BY <4>5, <5>3, <5>6, TruthfulNext
        <5> HIDE DEF job
        <5>8. j.at = "truncate" /\ j.data = d
          BY <5>4, <5>5, <5>6
        <5> QED
          BY <5>7, <5>8
      <4>7. CASE Truncate(w)
        <5> DEFINE job == [work[w] EXCEPT !.at = "write"]
        <5>1. Goes(w, job) /\ work[w].at = "truncate" /\ catalogue' = Blank
          BY <4>7 DEF Truncate
        <5>2. Truthful(work[w].data)
          BY <4>3, <5>1
        <5>3. job.at = "write" /\ job.data = work[w].data
          BY <4>4 DEF IsJob
        <5>4. j = job
          BY <2>2, <2>5, <5>1 DEF Goes, JobsInv
        <5>5. PICK d : d = work[w].data
          OBVIOUS
        <5>6. Truthful(d)'
          BY <4>5, <5>2, <5>5, TruthfulNext
        <5> HIDE DEF job
        <5>7. j.at = "write" /\ j.data = d
          BY <5>3, <5>4, <5>5
        <5> QED
          BY <5>1, <5>6, <5>7
      <4> QED
        BY <4>3, <4>6, <4>7
    <3> QED
      BY <3>1, <3>2
  <2>7. ASSUME NEW u \in Workers, u # w, work'[u].job = "sync" PROVE ~work'[u].alone
    BY <2>3, <2>4, <2>7
  <2> QED
    BY <2>5, <2>6, <2>7 DEF SyncInv
<1> QED
  BY <1>1, <1>2

LEMMA CatalogInvariant == Spec => [](ShapeInv /\ AloneInv /\ RestoreInv /\ SyncInv)
<1>1. Init => ShapeInv /\ AloneInv /\ RestoreInv /\ SyncInv
  <2>1. Init => AloneInv /\ RestoreInv /\ SyncInv
    BY DEF Init, AloneInv, RestoreInv, SyncInv, Idle
  <2> QED
    BY <2>1, ShapeInit
<1>2. ShapeInv /\ AloneInv /\ RestoreInv /\ SyncInv /\ [Next]_vars
        => ShapeInv' /\ AloneInv' /\ RestoreInv' /\ SyncInv'
  <2> SUFFICES ASSUME ShapeInv, AloneInv, RestoreInv, SyncInv, [Next]_vars
               PROVE  AloneInv'
    BY ShapeInductive, RestoreInductive, SyncInductive
  <2>1. CASE UNCHANGED vars
    BY <2>1 DEF AloneInv, vars
  <2>2. CASE Next
    <3>1. PICK w \in Workers : Step(w)
      BY <2>2, NextIsStep
    <3>2. GoesOn(w) \/ StartsWork(w)
      BY <3>1, StepKinds DEF ShapeInv
    <3> QED
      BY <3>2, AloneKept
  <2> QED
    BY <2>1, <2>2
<1> QED
  BY <1>1, <1>2, PTL DEF Spec

-----------------------------------------------------------------------------

\* Only a restore that was interfered with, or one that does not test its file,
\* puts something into the database that is not whole (restore_from_backup
\* against restore_wizard_confirm and the upload routes).
THEOREM WholeRestores == Spec => RestoresKeepWhole
<1> DEFINE Kept == (db \in Snapshots /\ db' \notin Snapshots) => \E w \in Workers : Interfered(w)
<1>1. ASSUME ShapeInv, RestoreInv, [Next]_vars PROVE Kept
  <2> SUFFICES ASSUME db \in Snapshots, db' \notin Snapshots
               PROVE  \E w \in Workers : Interfered(w)
    OBVIOUS
  <2>1. Next
    BY <1>1 DEF vars
  <2>2. PICK w \in Workers : Step(w)
    BY <2>1, NextIsStep
  <2>3. Copy(w)
    BY <2>2
       DEF Step, Save, Truncate, Write, Crash, Create, Sync, Scan, Drop, Inspect, Refused, Accept,
           Validate, Delete, EditNotes, CheckOther, Restore, Confirm, RestoreUpload, UploadFile,
           files
  <2>4. At(work[w]) \notin Snapshots
    BY <2>3 DEF Copy
  <2> QED
    BY <1>1, <2>3, <2>4 DEF RestoreInv, Copy, Interfered
<1>2. ShapeInv /\ RestoreInv /\ [Next]_vars => [Kept]_vars
  BY <1>1
<1> HIDE DEF Kept
<1>3. Spec => [][Kept]_vars
  BY <1>2, CatalogInvariant, PTL DEF Spec
<1> QED
  BY <1>3 DEF RestoresKeepWhole, Kept

\* A synchronisation that nothing disturbs leaves a catalogue that names every
\* backup there is and tells the truth of each (sync_backups, whatever earlier
\* writers and crashes did to metadata.json).
THEOREM SyncTellsTheTruth == Spec => SyncRepairs
<1> DEFINE Told == \A w \in Workers : SyncEnds(w) => TellsTheTruth'
<1>1. ASSUME ShapeInv, SyncInv, [Next]_vars PROVE Told
  <2> SUFFICES ASSUME NEW w \in Workers, SyncEnds(w) PROVE TellsTheTruth'
    OBVIOUS
  <2> DEFINE j == work[w]
  <2>1. j.job = "sync" /\ j.alone /\ work'[w] = Idle /\ (Scan(w) \/ Write(w))
    BY DEF SyncEnds
  <2>2. /\ j.at = "scan" => j.data = Loaded
        /\ j.at \in {"truncate", "write"} => Truthful(j.data)
        /\ j.at = "write" => catalogue = Blank
    BY <1>1, <2>1 DEF SyncInv
  <2>3. IsJob(j) /\ FilesOK /\ CatalogueInv /\ DOMAIN work = Workers /\ Idle.at = "idle"
    BY <1>1 DEF ShapeInv, JobsInv, JobOK, Idle
  <2>4. CASE Scan(w)
    <3> DEFINE synced == Retested(Registered(j.data))
               job == [j EXCEPT !.at = "truncate", !.data = synced]
    <3>1. j.data = Loaded /\ UNCHANGED files /\ UNCHANGED catalogue
      BY <2>2, <2>4 DEF Scan
    <3>2. Truthful(synced)
      BY <2>3, <3>1, LoadedFacts, ScanIsTruthful DEF CatalogueInv
    <3>3. synced = j.data
      <4>1. job.at = "truncate"
        BY <2>3 DEF IsJob
      <4>2. ~Goes(w, job)
        BY <2>1, <2>3, <4>1 DEF Goes
      <4> QED
        BY <2>4, <4>2 DEF Scan
    <3> HIDE DEF synced
    <3>4. PICK d : d = synced
      OBVIOUS
    <3>5. Truthful(d) /\ Loaded' = d
      BY <3>1, <3>2, <3>3, <3>4 DEF Loaded
    <3> QED
      BY <3>1, <3>5, TruthTold
  <2>5. CASE Write(w)
    <3>1. Truthful(j.data) /\ UNCHANGED files /\ catalogue' = Whole(j.data)
      BY <2>2, <2>5 DEF Write
    <3>2. PICK d : d = j.data
      OBVIOUS
    <3>3. Truthful(d) /\ Loaded' = Over(OldEntries, d)
      BY <3>1, <3>2 DEF Loaded, Whole
    <3> QED
      BY <3>1, <3>3, TruthTold
  <2> QED
    BY <2>1, <2>4, <2>5
<1>2. ShapeInv /\ SyncInv /\ [Next]_vars => [Told]_vars
  BY <1>1
<1> HIDE DEF Told
<1>3. Spec => [][Told]_vars
  BY <1>2, CatalogInvariant, PTL DEF Spec
<1> QED
  BY <1>3 DEF SyncRepairs, Told
=============================================================================
