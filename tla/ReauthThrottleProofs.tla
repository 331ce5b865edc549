------------------------- MODULE ReauthThrottleProofs -------------------------
(***************************************************************************)
(* Proofs about ReauthThrottle, for any limit, window and lockout of at    *)
(* least the window, and any number of answers.                            *)
(***************************************************************************)
EXTENDS ReauthThrottle, FiniteSetTheorems, SequenceTheorems, TLAPS

USE ThrottleConstants DEF NoTime, Time

(***************************************************************************)
(* The row.  A row without a beginning is the empty one, and then nothing  *)
(* was answered since the last right password; a row below the limit is    *)
(* not locked; a lock outlasts the window it was set in.                   *)
(***************************************************************************)
RowInv ==
  /\ row.first = NoTime => row.locked = NoTime /\ wrong = <<>>
  /\ row.first # NoTime => row.count # 0 /\ row.first <= now
  /\ row.locked = NoTime => row.count < MaxFailed
  /\ row.locked # NoTime => row.first # NoTime /\ row.locked >= row.first + Window
  /\ \A i \in DOMAIN wrong : wrong[i].at <= now
  /\ \A i, j \in DOMAIN wrong : i <= j => wrong[i].at <= wrong[j].at

Answer == [at : Time, by : Services]

\* Service s answers a wrong password.
Answers(s) == wrong' = Append(wrong, [at |-> now, by |-> s]) /\ UNCHANGED now

\* What becomes of the row: it begins anew, or counts one more, or is kept.
Begins(s) ==
  /\ row' = [count |-> 1, first |-> now, locked |-> LockFor(1)]
  /\ wrong = <<>> \/ (s = "account" /\ row.first # NoTime /\ now >= row.first + Window)
Continues ==
  /\ row.first # NoTime /\ row.locked = NoTime /\ now < row.first + Window
  /\ row' = [count |-> row.count + 1, first |-> row.first, locked |-> LockFor(row.count + 1)]
Keeps(s) ==
  /\ s = "workspace" /\ row.first # NoTime /\ now >= row.first + Window
  /\ row' = row

LEMMA RowFacts ==
  ASSUME TypeOK
  PROVE  /\ now \in Nat \ {0} /\ row.count \in Nat /\ row.first \in Nat /\ row.locked \in Nat
         /\ MaxFailed \in Nat /\ Window \in Nat /\ Lockout \in Nat /\ MaxTime \in Nat
         /\ DOMAIN wrong = 1..Len(wrong) /\ Len(wrong) \in Nat
         /\ \A i \in DOMAIN wrong : wrong[i].at \in Nat /\ wrong[i].by \in Services
<1>1. wrong \in Seq(Answer)
  BY DEF TypeOK, Answer
<1>2. DOMAIN wrong = 1..Len(wrong) /\ Len(wrong) \in Nat
  BY <1>1, LenProperties
<1>3. \A i \in DOMAIN wrong : wrong[i] \in Answer
  BY <1>1, <1>2, ElementOfSeq
<1> QED
  BY <1>2, <1>3 DEF TypeOK, Row, Answer

LEMMA WrongCases ==
  ASSUME TypeOK, RowInv, Wrong
  PROVE  \E s \in Services : Answers(s) /\ (Begins(s) \/ Continues \/ Keeps(s))
<1>1. /\ now \in Nat \ {0} /\ row.count \in Nat /\ row.first \in Nat /\ row.locked \in Nat
      /\ MaxFailed \in Nat /\ Window \in Nat /\ Lockout \in Nat
  BY RowFacts
<1>2. Counted(Zero) = [count |-> 1, first |-> now, locked |-> LockFor(1)]
  BY DEF Counted, Zero
<1>3. row.first = NoTime =>
        Counted(row) = [count |-> 1, first |-> now, locked |-> LockFor(1)]
  BY DEF Counted
<1>4. row.first # NoTime =>
        Counted(row) = [count |-> row.count + 1, first |-> row.first,
                        locked |-> LockFor(row.count + 1)]
  BY DEF Counted
\* A lapsed lock means that the window is over too.
<1>5. LockOver \/ WindowOver(row) => row.first # NoTime /\ now >= row.first + Window
  BY <1>1 DEF LockOver, WindowOver, RowInv
<1>6. ~Locked /\ ~LockOver /\ ~WindowOver(row) =>
        row.locked = NoTime /\ (row.first = NoTime \/ now < row.first + Window)
  BY <1>1 DEF Locked, LockOver, WindowOver
<1>7. ~Locked /\ ~LockOver /\ ~WindowOver(row) /\ row' = Counted(row) =>
        \A s \in Services : Begins(s) \/ Continues
  BY <1>3, <1>4, <1>6 DEF Begins, Continues, RowInv
<1>8. CASE WorkspaceWrong /\ wrong' = Append(wrong, [at |-> now, by |-> "workspace"])
  BY <1>5, <1>7, <1>8 DEF WorkspaceWrong, Wrong, Answers, Keeps
<1>9. CASE AccountWrong /\ wrong' = Append(wrong, [at |-> now, by |-> "account"])
  BY <1>2, <1>5, <1>7, <1>9 DEF AccountWrong, Wrong, Answers, Begins
<1> QED
  BY <1>8, <1>9 DEF Wrong

\* The history after an answer.
LEMMA Appended ==
  ASSUME TypeOK, NEW s \in Services, Answers(s)
  PROVE  LET n == Len(wrong) + 1 IN
         /\ wrong' \in Seq(Answer)
         /\ n \notin DOMAIN wrong /\ n \in Nat
         /\ DOMAIN wrong' = DOMAIN wrong \union {n}
         /\ wrong'[n] = [at |-> now, by |-> s]
         /\ \A i \in DOMAIN wrong : wrong'[i] = wrong[i] /\ i < n
<1>1. wrong \in Seq(Answer) /\ [at |-> now, by |-> s] \in Answer
  BY DEF TypeOK, Answer
<1>2. /\ wrong' \in Seq(Answer)
      /\ Len(wrong') = Len(wrong) + 1
      /\ \A i \in 1..Len(wrong) : wrong'[i] = wrong[i]
      /\ wrong'[Len(wrong) + 1] = [at |-> now, by |-> s]
  BY <1>1, AppendProperties DEF Answers
<1>3. DOMAIN wrong = 1..Len(wrong) /\ Len(wrong) \in Nat /\ DOMAIN wrong' = 1..Len(wrong')
  BY <1>1, <1>2, LenProperties
<1> QED
  BY <1>2, <1>3

LEMMA RowInit == Init => TypeOK /\ RowInv
<1> SUFFICES ASSUME Init PROVE TypeOK /\ RowInv
  OBVIOUS
<1>1. wrong = <<>> /\ wrong \in Seq(Answer) /\ DOMAIN wrong = 1..0
  BY EmptySeq, LenProperties DEF Init
<1>2. row \in Row /\ now \in Time
  BY DEF Init, Zero, Row
<1> QED
  BY <1>1, <1>2 DEF Init, Zero, TypeOK, RowInv, Answer

LEMMA RowStep == TypeOK /\ RowInv /\ [Next]_vars => TypeOK' /\ RowInv'
<1> SUFFICES ASSUME TypeOK, RowInv, [Next]_vars PROVE TypeOK' /\ RowInv'
  OBVIOUS
<1>1. /\ now \in Nat \ {0} /\ row.count \in Nat /\ row.first \in Nat /\ row.locked \in Nat
      /\ MaxFailed \in Nat /\ Window \in Nat /\ Lockout \in Nat /\ MaxTime \in Nat
      /\ \A i \in DOMAIN wrong : wrong[i].at \in Nat
  BY RowFacts
<1>2. ASSUME NEW s \in Services, Answers(s), Begins(s) \/ Continues \/ Keeps(s)
      PROVE  TypeOK' /\ RowInv'
  <2> DEFINE n == Len(wrong) + 1
  <2>1. /\ wrong' \in Seq(Answer)
        /\ n \notin DOMAIN wrong /\ n \in Nat
        /\ DOMAIN wrong' = DOMAIN wrong \union {n}
        /\ wrong'[n] = [at |-> now, by |-> s]
        /\ \A i \in DOMAIN wrong : wrong'[i] = wrong[i] /\ i < n
    BY <1>2, Appended
  <2>2. /\ \A i \in DOMAIN wrong' : wrong'[i].at <= now
        /\ \A i, j \in DOMAIN wrong' : i <= j => wrong'[i].at <= wrong'[j].at
    BY <1>1, <2>1, RowFacts DEF RowInv
  <2>4. LockFor(1) \in {NoTime, now + Lockout} /\ LockFor(row.count + 1) \in {NoTime, now + Lockout}
    BY DEF LockFor
  <2>5. ASSUME Begins(s) PROVE TypeOK' /\ RowInv'
    <3>1. row'.count = 1 /\ row'.first = now /\ row'.locked = LockFor(1)
      BY <2>5 DEF Begins
    <3>2. row' \in Row
      BY <1>1, <2>4, <2>5 DEF Begins, Row, TypeOK
    <3> QED
      BY <1>1, <1>2, <2>1, <2>2, <3>1, <3>2 DEF TypeOK, RowInv, Answers, LockFor, Answer
  <2>6. ASSUME Continues PROVE TypeOK' /\ RowInv'
    <3>1. /\ row'.count = row.count + 1 /\ row'.first = row.first
          /\ row'.locked = LockFor(row.count + 1)
      BY <2>6 DEF Continues
    <3>2. row.count + 1 \in 0..MaxFailed
      BY <1>1, <2>6 DEF Continues, RowInv
    <3>3. row' \in Row
      BY <1>1, <2>4, <2>6, <3>2 DEF Continues, Row, TypeOK
    <3>4. /\ row'.first # NoTime /\ row'.first <= now /\ row'.count # 0
          /\ row'.locked = NoTime => row'.count < MaxFailed
          /\ row'.locked # NoTime => row'.locked >= row'.first + Window
      BY <1>1, <2>6, <3>1 DEF Continues, RowInv, LockFor
    <3> QED
      BY <1>2, <2>1, <2>2, <3>3, <3>4 DEF TypeOK, RowInv, Answers, Answer
  <2>7. ASSUME Keeps(s) PROVE TypeOK' /\ RowInv'
    BY <1>1, <1>2, <2>1, <2>2, <2>7 DEF TypeOK, RowInv, Answers, Answer, Keeps
  <2> QED
    BY <1>2, <2>5, <2>6, <2>7
<1>3. CASE Wrong
  BY <1>2, <1>3, WrongCases
<1>4. CASE Right
  <2>1. wrong' = <<>> /\ wrong' \in Seq(Answer) /\ DOMAIN wrong' = 1..0
    BY <1>4, EmptySeq, LenProperties DEF Right
  <2> QED
    BY <1>4, <2>1 DEF Right, Zero, TypeOK, Row, RowInv, Answer
<1>5. CASE Tick
  BY <1>1, <1>5 DEF Tick, TypeOK, RowInv
<1>6. CASE UNCHANGED vars
  BY <1>6 DEF vars, TypeOK, RowInv
<1> QED
  BY <1>3, <1>4, <1>5, <1>6 DEF Next

LEMMA RowInvariant == Spec => [](TypeOK /\ RowInv)
  BY RowInit, RowStep, PTL DEF Spec

\* Every variable keeps its type; in particular neither service counts beyond
\* the limit (issue_local_authorization, reauthenticate_and_issue).
THEOREM TypeCorrect == Spec => []TypeOK
  BY RowInvariant, PTL

(***************************************************************************)
(* Counting.  Sets of answers are sets of positions in the history.        *)
(***************************************************************************)
LEMMA Counting ==
  ASSUME NEW m \in Nat
  PROVE  /\ \A S \in SUBSET (1..m) : IsFiniteSet(S) /\ Cardinality(S) \in Nat
         /\ \A S \in SUBSET (1..m) : \A T \in SUBSET S : Cardinality(T) <= Cardinality(S)
         /\ \A S \in SUBSET (1..m) : \A n :
              n \notin S => Cardinality(S \union {n}) = Cardinality(S) + 1
         /\ \A S, T \in SUBSET (1..m) :
              Cardinality(S \union T) <= Cardinality(S) + Cardinality(T)
<1>1. IsFiniteSet(1..m)
  BY FS_Interval
<1>2. \A S \in SUBSET (1..m) : IsFiniteSet(S) /\ Cardinality(S) \in Nat
  BY <1>1, FS_Subset, FS_CardinalityType
<1>3. ASSUME NEW S \in SUBSET (1..m), NEW T \in SUBSET S
      PROVE  Cardinality(T) <= Cardinality(S)
  BY <1>2, FS_Subset
<1>4. ASSUME NEW S \in SUBSET (1..m), NEW n, n \notin S
      PROVE  Cardinality(S \union {n}) = Cardinality(S) + 1
  BY <1>2, <1>4, FS_AddElement
<1>5. ASSUME NEW S \in SUBSET (1..m), NEW T \in SUBSET (1..m)
      PROVE  Cardinality(S \union T) <= Cardinality(S) + Cardinality(T)
  <2>1. IsFiniteSet(S) /\ IsFiniteSet(T) /\ S \intersect T \in SUBSET (1..m)
    BY <1>2
  <2>2. Cardinality(S \union T) =
          Cardinality(S) + Cardinality(T) - Cardinality(S \intersect T)
    BY <2>1, FS_Union
  <2> QED
    BY <1>2, <2>1, <2>2
<1> QED
  BY <1>2, <1>3, <1>4, <1>5

(***************************************************************************)
(* The count of the row.                                                   *)
(***************************************************************************)
\* Of the answers, those of the window that began at first, from some moment on.
Within(answers, first, from) ==
  {i \in DOMAIN answers : answers[i].at >= from /\ answers[i].at < first + Window}

LEMMA CountedStep == TypeOK /\ RowInv /\ WindowCounted /\ [Next]_vars => WindowCounted'
<1> SUFFICES ASSUME TypeOK, RowInv, WindowCounted, [Next]_vars PROVE WindowCounted'
  OBVIOUS
<1>1. TypeOK' /\ RowInv'
  BY RowStep
<1>2. row.first # NoTime =>
        Cardinality(Within(wrong, row.first, row.first + 1)) < row.count
          /\ row.count <= Cardinality(Within(wrong, row.first, row.first))
  BY DEF WindowCounted, Within
<1>3. SUFFICES ASSUME row'.first # NoTime
               PROVE  /\ Cardinality(Within(wrong', row'.first, row'.first + 1)) < row'.count
                      /\ row'.count <= Cardinality(Within(wrong', row'.first, row'.first))
  BY DEF WindowCounted, Within
<1>4. /\ now \in Nat \ {0} /\ row.count \in Nat /\ row.first \in Nat /\ Window \in Nat \ {0}
      /\ DOMAIN wrong = 1..Len(wrong) /\ Len(wrong) \in Nat
      /\ \A i \in DOMAIN wrong : wrong[i].at \in Nat
  BY RowFacts
<1>5. \A h, f, t : Within(h, f, t) \in SUBSET (DOMAIN h)
  BY DEF Within
<1> DEFINE A == Within(wrong, row.first, row.first)
           B == Within(wrong, row.first, row.first + 1)
           A1 == Within(wrong', row'.first, row'.first)
           B1 == Within(wrong', row'.first, row'.first + 1)
<1>6. ASSUME NEW s \in Services, Answers(s), Begins(s) \/ Continues \/ Keeps(s)
      PROVE  Cardinality(B1) < row'.count /\ row'.count <= Cardinality(A1)
  <2> DEFINE n == Len(wrong) + 1
  <2>1. /\ n \in Nat /\ n \notin DOMAIN wrong
        /\ DOMAIN wrong' = DOMAIN wrong \union {n}
        /\ wrong'[n] = [at |-> now, by |-> s]
        /\ \A i \in DOMAIN wrong : wrong'[i] = wrong[i] /\ wrong[i].at <= now
    BY <1>6, Appended DEF RowInv
  <2>2. A \in SUBSET (1..n) /\ B \in SUBSET (1..n) /\ A1 \in SUBSET (1..n) /\ B1 \in SUBSET (1..n)
    BY <1>4, <1>5, <2>1
  <2>3. n \notin A /\ n \notin B
    BY <1>5, <2>1
  <2>4. CASE Begins(s)
    <3>1. row'.first = now /\ row'.count = 1
      BY <2>4 DEF Begins
    <3>2. B1 = {}
      BY <1>4, <2>1, <3>1 DEF Within
    <3>3. {n} \in SUBSET A1
      BY <1>4, <2>1, <3>1 DEF Within
    <3> HIDE DEF A1, B1, n
    <3>4. Cardinality({n}) = 1 /\ Cardinality({n}) <= Cardinality(A1)
      BY <2>1, <2>2, <3>3, FS_Singleton, Counting
    <3> QED
      BY <3>1, <3>2, <3>4, FS_EmptySet
  <2>5. CASE Continues
    <3>1. row'.first = row.first /\ row'.count = row.count + 1 /\ row.first # NoTime
      BY <2>5 DEF Continues
    <3>2. A1 = A \union {n}
      BY <1>4, <2>1, <2>5, <3>1 DEF Within, Continues, RowInv
    <3>3. B1 = B \/ B1 = B \union {n}
      BY <1>4, <2>1, <2>5, <3>1 DEF Within, Continues, RowInv
    <3>4. Cardinality(B) < row.count /\ row.count <= Cardinality(A)
      BY <1>2, <3>1
    <3> HIDE DEF A, B, A1, B1, n
    <3>5. /\ Cardinality(A) \in Nat /\ Cardinality(A \union {n}) = Cardinality(A) + 1
          /\ Cardinality(B) \in Nat /\ Cardinality(B \union {n}) = Cardinality(B) + 1
      BY <2>1, <2>2, <2>3, Counting
    <3>6. /\ Cardinality(A1) = Cardinality(A) + 1
          /\ Cardinality(B1) \in {Cardinality(B), Cardinality(B) + 1}
      BY <3>2, <3>3, <3>5, Zenon
    <3> QED
      BY <1>4, <3>1, <3>4, <3>5, <3>6
  <2>6. CASE Keeps(s)
    <3>1. row' = row /\ row.first # NoTime
      BY <2>6 DEF Keeps
    <3>2. A1 = A /\ B1 = B
      BY <1>4, <2>1, <2>6, <3>1 DEF Within, Keeps
    <3> QED
      BY <1>2, <3>1, <3>2
  <2> QED
    BY <1>6, <2>4, <2>5, <2>6
<1>7. CASE Wrong
  BY <1>6, <1>7, WrongCases
<1>8. CASE Right
  BY <1>3, <1>8 DEF Right, Zero
<1>9. CASE Tick \/ UNCHANGED vars
  <2>1. UNCHANGED <<row, wrong>>
    BY <1>9 DEF Tick, vars
  <2> QED
    BY <1>2, <1>3, <2>1 DEF Within
<1> QED
  BY <1>7, <1>8, <1>9 DEF Next

\* The row counts the wrong answers of its window, each service's, and none
\* twice (issue_local_authorization and reauthenticate_and_issue on one row).
THEOREM EveryAnswerCounted == Spec => []WindowCounted
<1>1. Init => WindowCounted
  BY DEF Init, Zero, WindowCounted
<1> QED
  BY <1>1, CountedStep, RowInvariant, PTL DEF Spec

(***************************************************************************)
(* The guesses of a period.  The account service counts every answer of    *)
(* its own, so those since the present window began are at most the count; *)
(* and a period that began before the window, and reaches into it, has     *)
(* left behind the answer that began the window before.                    *)
(***************************************************************************)
\* The account service's answers from some moment on, and those from answer i
\* on that came before some moment.
Account(answers, from) ==
  {j \in DOMAIN answers : answers[j].by = "account" /\ answers[j].at >= from}
Earlier(answers, i, to) ==
  {j \in DOMAIN answers : j >= i /\ answers[j].by = "account" /\ answers[j].at < to}

WindowInv ==
  /\ Account(wrong, row.first + Window) = {}
  /\ Cardinality(Account(wrong, row.first)) <= row.count
  /\ Cardinality(Account(wrong, row.first + 1)) < row.count

PeriodInv ==
  \A i \in DOMAIN wrong :
    /\ wrong[i].at < row.first /\ row.first < wrong[i].at + Window =>
         Cardinality(Earlier(wrong, i, row.first)) < MaxFailed
    /\ wrong[i].at + Window <= row.first =>
         Cardinality(Earlier(wrong, i, wrong[i].at + Window)) < 2 * MaxFailed

GuessInv == row.first # NoTime => WindowInv /\ PeriodInv

LEMMA GuessesFollow == TypeOK /\ RowInv /\ GuessInv => GuessesBounded
<1> SUFFICES ASSUME TypeOK, RowInv, GuessInv PROVE GuessesBounded
  OBVIOUS
<1>1. /\ row.count \in 0..MaxFailed /\ row.first \in Nat /\ Window \in Nat /\ MaxFailed \in Nat \ {0}
      /\ DOMAIN wrong = 1..Len(wrong) /\ Len(wrong) \in Nat
      /\ \A i \in DOMAIN wrong : wrong[i].at \in Nat
  BY RowFacts DEF TypeOK, Row
<1> SUFFICES ASSUME NEW i \in DOMAIN wrong
             PROVE  Cardinality(Earlier(wrong, i, wrong[i].at + Window)) < 2 * MaxFailed
  BY DEF GuessesBounded, Earlier
<1>2. row.first # NoTime
  <2>1. row.first = NoTime => Len(wrong) = 0
    BY EmptySeq DEF RowInv
  <2> QED
    BY <1>1, <2>1
<1> DEFINE P == Earlier(wrong, i, wrong[i].at + Window)
           E == Earlier(wrong, i, row.first)
           N == Account(wrong, row.first)
<1>3. P \in SUBSET (DOMAIN wrong) /\ E \in SUBSET (DOMAIN wrong) /\ N \in SUBSET (DOMAIN wrong)
  BY DEF Earlier, Account
<1>4. Cardinality(N) <= row.count
  BY <1>2 DEF GuessInv, WindowInv
<1>5. CASE wrong[i].at >= row.first
  <2>1. P \in SUBSET N
    BY <1>1, <1>5 DEF Earlier, Account, RowInv
  <2> HIDE DEF P, E, N
  <2>2. Cardinality(P) <= Cardinality(N) /\ Cardinality(P) \in Nat /\ Cardinality(N) \in Nat
    BY <1>1, <1>3, <2>1, Counting
  <2>3. Cardinality(P) < 2 * MaxFailed
    BY <1>1, <1>4, <2>2
  <2> QED
    BY <2>3 DEF P
<1>6. CASE wrong[i].at < row.first /\ row.first < wrong[i].at + Window
  <2>1. Cardinality(E) < MaxFailed
    BY <1>2, <1>6 DEF GuessInv, PeriodInv
  <2>2. P \in SUBSET (E \union N)
    BY <1>1 DEF Earlier, Account
  <2> HIDE DEF P, E, N
  <2>3. /\ Cardinality(P) <= Cardinality(E \union N)
        /\ Cardinality(E \union N) <= Cardinality(E) + Cardinality(N)
        /\ Cardinality(P) \in Nat /\ Cardinality(E \union N) \in Nat
        /\ Cardinality(E) \in Nat /\ Cardinality(N) \in Nat
    <3>1. E \union N \in SUBSET (1..Len(wrong)) /\ P \in SUBSET (1..Len(wrong))
      BY <1>1, <1>3
    <3> QED
      BY <1>1, <1>3, <2>2, <3>1, Counting
  <2>4. Cardinality(P) < 2 * MaxFailed
    BY <1>1, <1>4, <2>1, <2>3
  <2> QED
    BY <2>4 DEF P
<1>7. CASE wrong[i].at + Window <= row.first
  BY <1>2, <1>7 DEF GuessInv, PeriodInv
<1> QED
  BY <1>1, <1>5, <1>6, <1>7

LEMMA GuessAnswer ==
  ASSUME TypeOK, RowInv, GuessInv, NEW s \in Services, Answers(s),
         Begins(s) \/ Continues \/ Keeps(s)
  PROVE  GuessInv'
<1> DEFINE n == Len(wrong) + 1
<1>1. /\ now \in Nat \ {0} /\ row.count \in 0..MaxFailed /\ row.first \in Nat
      /\ Window \in Nat \ {0} /\ MaxFailed \in Nat \ {0}
      /\ DOMAIN wrong = 1..Len(wrong) /\ Len(wrong) \in Nat
      /\ \A i \in DOMAIN wrong : wrong[i].at \in Nat
  BY RowFacts DEF TypeOK, Row
<1>2. /\ n \in Nat /\ n \notin DOMAIN wrong
      /\ DOMAIN wrong' = DOMAIN wrong \union {n}
      /\ wrong'[n] = [at |-> now, by |-> s]
      /\ \A i \in DOMAIN wrong : wrong'[i] = wrong[i] /\ wrong[i].at <= now /\ i < n
  BY Appended DEF RowInv
<1>3. GuessesBounded
  BY GuessesFollow
\* A period that is over by now has the guesses it had.
<1>4. ASSUME NEW i \in DOMAIN wrong, wrong[i].at + Window <= now \/ s # "account"
      PROVE  Cardinality(Earlier(wrong', i, wrong'[i].at + Window)) < 2 * MaxFailed
  <2>1. Earlier(wrong', i, wrong'[i].at + Window) = Earlier(wrong, i, wrong[i].at + Window)
    BY <1>1, <1>2, <1>4 DEF Earlier
  <2>2. Cardinality(Earlier(wrong, i, wrong[i].at + Window)) < 2 * MaxFailed
    BY <1>3 DEF GuessesBounded, Earlier
  <2> QED
    BY <2>1, <2>2, Zenon
\* And so has a time that is over by now.
<1>5. \A t \in Nat, i \in DOMAIN wrong :
        t <= now \/ s # "account" => Earlier(wrong', i, t) = Earlier(wrong, i, t)
  BY <1>1, <1>2 DEF Earlier
\* While the window goes on, the periods that began before it are as they were.
<1>6. ASSUME row'.first = row.first, row.first # NoTime, row.first <= now
      PROVE  PeriodInv'
  <2> SUFFICES ASSUME NEW i \in DOMAIN wrong'
               PROVE  /\ wrong'[i].at < row.first /\ row.first < wrong'[i].at + Window =>
                           Cardinality(Earlier(wrong', i, row.first)) < MaxFailed
                      /\ wrong'[i].at + Window <= row.first =>
                           Cardinality(Earlier(wrong', i, wrong'[i].at + Window)) < 2 * MaxFailed
    BY <1>6 DEF PeriodInv
  <2>1. CASE i = n
    BY <1>1, <1>2, <1>6, <2>1
  <2>2. CASE i \in DOMAIN wrong
    <3>1. Earlier(wrong', i, row.first) = Earlier(wrong, i, row.first)
      BY <1>1, <1>5, <1>6, <2>2
    <3>2. wrong'[i] = wrong[i]
      BY <1>2, <2>2
    <3>3. wrong[i].at < row.first /\ row.first < wrong[i].at + Window =>
            Cardinality(Earlier(wrong, i, row.first)) < MaxFailed
      BY <1>6, <2>2 DEF GuessInv, PeriodInv
    <3>4. wrong'[i].at < row.first /\ row.first < wrong'[i].at + Window =>
            Cardinality(Earlier(wrong', i, row.first)) < MaxFailed
      BY <3>1, <3>2, <3>3, Zenon
    <3>5. wrong'[i].at + Window <= row.first => wrong[i].at + Window <= now
      BY <1>1, <1>6, <2>2, <3>2
    <3> QED
      BY <1>4, <2>2, <3>4, <3>5
  <2> QED
    BY <1>2, <2>1, <2>2
<1>7. CASE Begins(s)
  <2>1. row'.first = now /\ row'.count = 1
    BY <1>7 DEF Begins
  <2>2. wrong = <<>> => DOMAIN wrong = {}
    BY <1>1, EmptySeq
  <2>3. Account(wrong', now) \in {{}, {n}}
    <3>1. wrong = <<>> \/ Account(wrong, row.first + Window) = {}
      BY <1>7 DEF Begins, GuessInv, WindowInv
    <3> QED
      BY <1>1, <1>2, <1>7, <2>2, <3>1 DEF Account, Begins
  <2>4. Account(wrong', now + 1) = {} /\ Account(wrong', now + Window) = {}
    BY <1>1, <1>2 DEF Account
  <2>5. Cardinality(Account(wrong', now)) <= 1 /\ Cardinality(Account(wrong', now + 1)) = 0
    <3>1. Cardinality({n}) = 1 /\ Cardinality({}) = 0
      BY FS_Singleton, FS_EmptySet
    <3>2. Cardinality(Account(wrong', now)) \in {0, 1}
      BY <2>3, <3>1, Zenon
    <3>3. Cardinality(Account(wrong', now + 1)) = 0
      BY <2>4, <3>1, Zenon
    <3> QED
      BY <3>2, <3>3
  <2>6. WindowInv'
    BY <2>1, <2>4, <2>5 DEF WindowInv
  \* The window before began with an answer, which is not after that beginning.
  <2>7. ASSUME NEW i \in DOMAIN wrong, wrong[i].at < now, now < wrong[i].at + Window
        PROVE  Cardinality(Earlier(wrong', i, now)) < MaxFailed
    <3> DEFINE E == Earlier(wrong', i, now)
               N == Account(wrong, row.first + 1)
    <3>1. row.first # NoTime /\ now >= row.first + Window
      BY <1>7, <2>2, <2>7 DEF Begins
    <3>2. E \in SUBSET N /\ N \in SUBSET (1..Len(wrong))
      <4>1. wrong[i].at >= row.first + 1
        BY <1>1, <2>7, <3>1
      <4>2. \A j \in E : j \in DOMAIN wrong /\ wrong'[j] = wrong[j] /\ wrong[j].at >= wrong[i].at
        BY <1>1, <1>2 DEF Earlier, RowInv
      <4>3. \A j \in E : wrong[j].by = "account" /\ wrong[j].at >= row.first + 1
        BY <1>1, <4>1, <4>2 DEF Earlier
      <4> QED
        BY <1>1, <4>2, <4>3 DEF Account
    <3>3. Cardinality(N) < row.count
      BY <3>1 DEF GuessInv, WindowInv
    <3> HIDE DEF E, N
    <3>4. /\ Cardinality(E) <= Cardinality(N)
          /\ Cardinality(N) \in Nat /\ Cardinality(E) \in Nat
      BY <1>1, <3>2, Counting
    <3>5. Cardinality(E) < MaxFailed
      BY <1>1, <3>3, <3>4
    <3> QED
      BY <3>5 DEF E
  <2>8. PeriodInv'
    <3> SUFFICES ASSUME NEW i \in DOMAIN wrong'
                 PROVE  /\ wrong'[i].at < now /\ now < wrong'[i].at + Window =>
                             Cardinality(Earlier(wrong', i, now)) < MaxFailed
                        /\ wrong'[i].at + Window <= now =>
                             Cardinality(Earlier(wrong', i, wrong'[i].at + Window)) < 2 * MaxFailed
      BY <2>1 DEF PeriodInv
    <3> QED
      BY <1>1, <1>2, <1>4, <2>7
  <2> QED
    BY <2>6, <2>8 DEF GuessInv
<1>8. CASE Continues
  <2>1. /\ row'.first = row.first /\ row'.count = row.count + 1
        /\ row.first # NoTime /\ row.first <= now /\ now < row.first + Window
    BY <1>8 DEF Continues, RowInv
  <2> DEFINE A == Account(wrong, row.first)
             B == Account(wrong, row.first + 1)
             A1 == Account(wrong', row.first)
             B1 == Account(wrong', row.first + 1)
  <2>2. Account(wrong', row.first + Window) = {}
    <3>1. Account(wrong, row.first + Window) = {}
      BY <2>1 DEF GuessInv, WindowInv
    <3> QED
      BY <1>1, <1>2, <2>1, <3>1 DEF Account
  <2>3. /\ A1 = A \/ A1 = A \union {n}
        /\ B1 = B \/ B1 = B \union {n}
        /\ A \in SUBSET (1..Len(wrong)) /\ B \in SUBSET (1..Len(wrong))
        /\ n \notin A /\ n \notin B
    BY <1>1, <1>2 DEF Account
  <2>4. Cardinality(A) <= row.count /\ Cardinality(B) < row.count
    BY <2>1 DEF GuessInv, WindowInv
  <2>5. WindowInv'
    <3> HIDE DEF A, B, A1, B1
    <3>1. /\ Cardinality(A) \in Nat /\ Cardinality(A \union {n}) = Cardinality(A) + 1
          /\ Cardinality(B) \in Nat /\ Cardinality(B \union {n}) = Cardinality(B) + 1
      BY <1>1, <2>3, Counting
    <3>2. /\ Cardinality(A1) \in {Cardinality(A), Cardinality(A) + 1}
          /\ Cardinality(B1) \in {Cardinality(B), Cardinality(B) + 1}
      BY <2>3, <3>1, Zenon
    <3>3. Cardinality(A1) <= row.count + 1 /\ Cardinality(B1) < row.count + 1
      BY <1>1, <2>4, <3>1, <3>2
    <3> QED
      BY <2>1, <2>2, <3>3 DEF WindowInv, A1, B1
  <2>6. PeriodInv'
    BY <1>6, <2>1
  <2> QED
    BY <2>5, <2>6 DEF GuessInv
<1>9. CASE Keeps(s)
  <2>1. /\ row' = row /\ row.first # NoTime /\ row.first < now /\ s # "account"
    BY <1>1, <1>9 DEF Keeps
  <2>2. \A t \in Nat : Account(wrong', t) = Account(wrong, t)
    BY <1>2, <2>1 DEF Account
  <2>3. WindowInv'
    <3>1. row.first \in Nat /\ row.first + 1 \in Nat /\ row.first + Window \in Nat
      BY <1>1
    <3>2. WindowInv
      BY <2>1 DEF GuessInv
    <3> QED
      BY <2>1, <2>2, <3>1, <3>2, Zenon DEF WindowInv
  <2>4. PeriodInv'
    BY <1>1, <1>6, <2>1
  <2> QED
    BY <2>1, <2>3, <2>4 DEF GuessInv
<1> QED
  BY <1>7, <1>8, <1>9

LEMMA GuessStep == TypeOK /\ RowInv /\ GuessInv /\ [Next]_vars => GuessInv'
<1> SUFFICES ASSUME TypeOK, RowInv, GuessInv, [Next]_vars PROVE GuessInv'
  OBVIOUS
<1>1. CASE Wrong
  BY <1>1, WrongCases, GuessAnswer
<1>2. CASE Right
  BY <1>2 DEF Right, Zero, GuessInv
<1>3. CASE Tick \/ UNCHANGED vars
  BY <1>3 DEF Tick, vars, GuessInv, WindowInv, PeriodInv
<1> QED
  BY <1>1, <1>2, <1>3 DEF Next

\* In any period as long as the window the account purge answers fewer than
\* twice the limit of wrong passwords (MAX_FAILED_ATTEMPTS, FAILURE_WINDOW).
THEOREM FewGuesses == Spec => []GuessesBounded
<1>1. Init => GuessInv
  BY DEF Init, Zero, GuessInv
<1> QED
  BY <1>1, GuessStep, GuessesFollow, RowInvariant, PTL DEF Spec
===============================================================================
