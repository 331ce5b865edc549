--------------------------- MODULE ReauthThrottle ---------------------------
(***************************************************************************)
(* The throttle on password checks before a purge.  One row per actor,     *)
(* shared by two services that each keep it in their own way: the          *)
(* workspace purge (issue_local_authorization) and the account purge       *)
(* (reauthenticate_and_issue).  Both hold the row locked from the moment   *)
(* they read it to their commit, so one answered password is one action.   *)
(*                                                                         *)
(* A password that is right or wrong is all there is to an answer; whether *)
(* the authorization row lets the service come to the password at all is   *)
(* the matter of PurgeWorkflow.  A missing row is created with the values  *)
(* of Zero before it is used.                                              *)
(***************************************************************************)
EXTENDS Naturals, Sequences, FiniteSets

CONSTANTS
  Services,      \* the services in use: "workspace", "account"
  MaxFailed,     \* MAX_FAILED_ATTEMPTS
  Window,        \* FAILURE_WINDOW
  Lockout,       \* LOCKOUT_DURATION
  MaxTime,       \* bound: the clock
  MaxAnswers     \* bound: wrong answers since the last right one

ASSUME ThrottleConstants ==
  /\ Services \subseteq {"workspace", "account"}
  /\ MaxFailed \in Nat \ {0}
  /\ Window \in Nat \ {0}
  /\ Lockout \in Nat \ {0}
  /\ Window <= Lockout
  /\ MaxTime \in Nat \ {0}
  /\ MaxAnswers \in Nat

VARIABLES
  now,     \* the database clock
  row,     \* the actor's throttle row
  wrong    \* history: when and by which service a wrong password was answered,
           \* since the last right one

vars == <<now, row, wrong>>

NoTime == 0
Time == 1..MaxTime

\* failed_attempt_count, first_failed_at and locked_until.
Row == [count : 0..MaxFailed, first : {NoTime} \union Time,
        locked : {NoTime} \union 1..(MaxTime + Lockout)]
Zero == [count |-> 0, first |-> NoTime, locked |-> NoTime]

TypeOK ==
  /\ now \in Time
  /\ row \in Row
  /\ wrong \in Seq([at : Time, by : Services])

Init ==
  /\ now = 1
  /\ row = Zero
  /\ wrong = <<>>

-----------------------------------------------------------------------------

Locked == row.locked # NoTime /\ row.locked > now
LockOver == row.locked # NoTime /\ row.locked <= now
WindowOver(r) == r.first # NoTime /\ now - r.first >= Window

\* Mutant: one wrong answer too many before the lock.
LockLate(count) == IF count > MaxFailed THEN now + Lockout ELSE NoTime

LockFor(count) == IF count >= MaxFailed THEN now + Lockout ELSE NoTime

\* The row with one more wrong answer in it, begun anew if need be.
Counted(r) ==
  LET anew == r.first = NoTime
      count == IF anew THEN 1 ELSE r.count + 1
  IN [count |-> count, first |-> IF anew THEN now ELSE r.first, locked |-> LockFor(count)]

\* The workspace service resets a lapsed row and detaches it from its session;
\* a wrong answer then detaches it again, which raises, and the transaction is
\* rolled back with the reset and the failure in it.
WorkspaceWrong ==
  /\ "workspace" \in Services
  /\ ~Locked
  /\ row' = IF LockOver \/ WindowOver(row) THEN row ELSE Counted(row)

\* Mutant: the failure window never ends.
AccountWrongForever ==
  /\ "account" \in Services
  /\ ~Locked
  /\ row' = IF LockOver THEN Counted(Zero) ELSE Counted(row)

\* The account service resets a lapsed lock, reads the row again, and begins
\* anew when the window is over.
AccountWrong ==
  /\ "account" \in Services
  /\ ~Locked
  /\ row' = IF LockOver \/ WindowOver(row) THEN Counted(Zero) ELSE Counted(row)

\* Either service answers a wrong password.
Wrong ==
  /\ Len(wrong) < MaxAnswers
  /\ \/ WorkspaceWrong /\ wrong' = Append(wrong, [at |-> now, by |-> "workspace"])
     \/ AccountWrong /\ wrong' = Append(wrong, [at |-> now, by |-> "account"])
  /\ UNCHANGED now

\* Either service accepts the password and clears the row.
Right ==
  /\ Services # {}
  /\ ~Locked
  /\ row' = Zero
  /\ wrong' = <<>>
  /\ UNCHANGED now

Tick ==
  /\ now < MaxTime
  /\ now' = now + 1
  /\ UNCHANGED <<row, wrong>>

Next == Wrong \/ Right \/ Tick

Spec == Init /\ [][Next]_vars

-----------------------------------------------------------------------------

\* Both services count into one row: the wrong answers that fall into the
\* row's window are all in its count, whichever service took each of them, and
\* none is counted twice.  (At the very instant the window began there may also
\* have been answers before it.)
WindowCounted ==
  row.first # NoTime =>
    LET within(from) == Cardinality({i \in DOMAIN wrong :
                          wrong[i].at >= from /\ wrong[i].at < row.first + Window})
    IN within(row.first + 1) < row.count /\ row.count <= within(row.first)

\* What the throttle is for: within any window-long period the account purge
\* answers fewer than twice the limit of wrong passwords, the tail of one window
\* and the whole of the next, whatever the other service does to the row.
GuessesBounded ==
  \A i \in DOMAIN wrong :
    Cardinality({j \in DOMAIN wrong :
      /\ j >= i /\ wrong[j].by = "account"
      /\ wrong[j].at < wrong[i].at + Window}) < 2 * MaxFailed
=============================================================================
