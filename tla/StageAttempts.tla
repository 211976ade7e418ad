----------------------------- MODULE StageAttempts -----------------------------
(***************************************************************************)
(* What the program promises of the attempts at its stages, whoever carries*)
(* them out: one attempt at a time, each with leave for at most one piece  *)
(* of work outside the program (a generation, a post, a package), recorded *)
(* with its outcome or lost in a fault.  The work itself may come late,    *)
(* after the attempt that had leave for it, or never.                      *)
(***************************************************************************)
EXTENDS Naturals, TLAPS

CONSTANTS
    Items,          \* what is attempted
    NeedsWork,      \* the items that are done only by work outside the program
    Budget,         \* attempts per item
    LateFailures    \* a failure may be recorded over a success

VARIABLES
    done,       \* items recorded as done
    spent,      \* item -> attempts recorded
    active,     \* the item that is being attempted, as a set
    credit,     \* item -> leave for work that was neither used nor forgone
    work,       \* item -> pieces of work that exist outside
    lost        \* faults so far

avars == <<done, spent, active, credit, work, lost>>

Init ==
    /\ done = {} /\ active = {} /\ lost = 0
    /\ spent = [i \in Items |-> 0]
    /\ credit = [i \in Items |-> 0]
    /\ work = [i \in Items |-> 0]

Begin(i) ==
    /\ active = {} /\ i \notin done /\ spent[i] < Budget
    /\ active' = {i}
    /\ credit' \in {credit, [credit EXCEPT ![i] = @ + 1]}
    /\ UNCHANGED <<done, spent, work, lost>>

\* Leave is used, or is gone with whoever had it.
Perform(i) ==
    /\ credit[i] > 0
    /\ credit' = [credit EXCEPT ![i] = @ - 1]
    /\ work' = [work EXCEPT ![i] = @ + 1]
Forgo(i) ==
    /\ credit[i] > 0
    /\ credit' = [credit EXCEPT ![i] = @ - 1]
    /\ UNCHANGED work

Work(i) ==
    /\ \/ Perform(i) /\ UNCHANGED lost
       \/ Forgo(i) /\ lost' \in {lost, lost + 1}
    /\ UNCHANGED <<done, spent, active>>

End(i) ==
    /\ active = {i} /\ active' = {}
    /\ spent' = [spent EXCEPT ![i] = @ + 1]
    /\ UNCHANGED <<credit, work, lost>>
Succeed(i) ==
    /\ i \in NeedsWork => work[i] > 0
    /\ End(i) /\ done' = done \cup {i}
Fail(i) == End(i) /\ UNCHANGED done

\* A fault ends the attempt and its count; leave may outlive it.
Abandon(i) ==
    /\ active = {i} /\ active' = {}
    /\ lost' = lost + 1
    /\ Perform(i) \/ Forgo(i) \/ UNCHANGED <<credit, work>>
    /\ UNCHANGED <<done, spent>>

Suffer ==
    /\ lost' = lost + 1
    /\ UNCHANGED <<done, spent, active, credit, work>>

\* The record of a success is overwritten.
Undo(i) ==
    /\ LateFailures /\ active = {} /\ i \in done
    /\ done' = done \ {i}
    /\ UNCHANGED <<spent, active, credit, work, lost>>

\* The outside world loses work that nothing rests on.
Lose(i) ==
    /\ work[i] > (IF i \in done \cap NeedsWork THEN 1 ELSE 0)
    /\ work' = [work EXCEPT ![i] = @ - 1]
    /\ UNCHANGED <<done, spent, active, credit, lost>>

Next ==
    \/ \E i \in Items : Begin(i) \/ Work(i) \/ Lose(i) \/ Undo(i)
    \/ \E i \in active : Succeed(i) \/ Fail(i) \/ Abandon(i)
    \/ Suffer

Spec == Init /\ [][Next]_avars

(***************************************************************************)
(* What follows from the contract alone.                                   *)
(***************************************************************************)
Underway(i) == IF i \in active THEN 1 ELSE 0

\* No more work exists, or may still come, than attempts were recorded, are
\* under way, or were lost in a fault.
WorkAccounted == \A i \in Items : work[i] + credit[i] <= spent[i] + lost + Underway(i)
WorkWithinBudget == \A i \in Items : work[i] <= Budget + lost
DoneRestsOnWork == \A i \in done \cap NeedsWork : work[i] > 0

Types ==
    /\ done \subseteq Items /\ active \subseteq Items
    /\ spent \in [Items -> 0..Budget] /\ credit \in [Items -> Nat] /\ work \in [Items -> Nat]
    /\ lost \in Nat
OneAttempt == \A i \in active : active = {i} /\ i \notin done /\ spent[i] < Budget
AttemptInv == Types /\ OneAttempt /\ WorkAccounted /\ DoneRestsOnWork

LEMMA AttemptInvInit ==
    ASSUME Budget \in Nat, Init
    PROVE  AttemptInv
BY DEF Init, AttemptInv, Types, OneAttempt, WorkAccounted, DoneRestsOnWork, Underway

LEMMA AttemptInvStep ==
    ASSUME Budget \in Nat, AttemptInv, [Next]_avars
    PROVE  AttemptInv'
<1> USE DEF AttemptInv, Types, OneAttempt, WorkAccounted, DoneRestsOnWork, Underway
<1>1. ASSUME NEW i \in Items, Begin(i) PROVE AttemptInv'
  BY <1>1 DEF Begin
<1>2. ASSUME NEW i \in Items, Work(i) PROVE AttemptInv'
  <2>1. CASE Perform(i)
    BY <1>2, <2>1 DEF Work, Perform
  <2>2. CASE Forgo(i)
    BY <1>2, <2>2 DEF Work, Forgo
  <2>3. QED
    BY <1>2, <2>1, <2>2 DEF Work
<1>3. ASSUME NEW i \in Items, Succeed(i) \/ Fail(i) PROVE AttemptInv'
  BY <1>3 DEF Succeed, Fail, End
<1>4. ASSUME NEW i \in Items, Abandon(i) PROVE AttemptInv'
  <2>1. CASE Perform(i)
    BY <1>4, <2>1 DEF Abandon, Perform
  <2>2. CASE Forgo(i)
    BY <1>4, <2>2 DEF Abandon, Forgo
  <2>3. CASE UNCHANGED <<credit, work>>
    BY <1>4, <2>3 DEF Abandon
  <2>4. QED
    BY <1>4, <2>1, <2>2, <2>3 DEF Abandon
<1>5. ASSUME NEW i \in Items, Undo(i) PROVE AttemptInv'
  BY <1>5 DEF Undo
<1>6. ASSUME NEW i \in Items, Lose(i) PROVE AttemptInv'
  BY <1>6 DEF Lose
<1>7. CASE Suffer
  BY <1>7 DEF Suffer
<1>8. CASE UNCHANGED avars
  BY <1>8 DEF avars
<1>9. QED
  BY <1>1, <1>2, <1>3, <1>4, <1>5, <1>6, <1>7, <1>8 DEF Next

\* Whoever keeps to the contract has an account of the work outside: never more
\* than one piece per attempt and per fault, and never a success without any.
THEOREM ContractAccounts ==
    ASSUME Budget \in Nat
    PROVE  Spec => [](WorkAccounted /\ WorkWithinBudget /\ DoneRestsOnWork)
<1>1. Init => AttemptInv
  BY AttemptInvInit
<1>2. AttemptInv /\ [Next]_avars => AttemptInv'
  BY AttemptInvStep
<1>3. AttemptInv => WorkAccounted /\ WorkWithinBudget /\ DoneRestsOnWork
  BY DEF AttemptInv, Types, OneAttempt, WorkAccounted, WorkWithinBudget, Underway
<1>4. QED
  BY <1>1, <1>2, <1>3, PTL DEF Spec
================================================================================
