---------------------------- MODULE OutboxProofs ----------------------------
(* Theorems about Outbox for every set of rows and dispatchers and every       *)
(* value of the limits.                                                        *)
EXTENDS Outbox, TLAPS

(* Without a replay, a row someone works on cannot be claimed, and the worker  *)
(* knows how often the row was attempted.                                      *)
Exclusive ==
    replays = 0 => \A r \in Row, d \in Dispatcher :
        Working(d, r) => /\ status[r] \in {"processing", "dead_letter"}
                         /\ tries[d] = attempts[r]

(* A row is pending only while attempts remain.                                *)
AttemptsRemain ==
    replays = 0 => \A r \in Row :
        /\ status[r] = "absent" => attempts[r] = 0
        /\ status[r] = "pending" => attempts[r] < MaxAttempts
        /\ attempts[r] <= MaxAttempts

(* A row is completed only by a dispatcher whose side effect came back, and is *)
(* in processing only in the hands of a live one or after its dispatch was cut *)
(* short.                                                                      *)
Accounted ==
    /\ \A r \in Row : status[r] = "completed" => called[r]
    /\ \A d \in Dispatcher : phase[d] = "returned" => called[target[d]]
    /\ \A r \in Row :
         status[r] = "processing" => r \in cut \/ \E d \in Dispatcher : Working(d, r)

-----------------------------------------------------------------------------

(* A step preserves the types.                                                 *)
LEMMA TypeStep == TypeOK /\ [Next]_vars => TypeOK'
<1> SUFFICES ASSUME TypeOK, [Next]_vars PROVE TypeOK'
  OBVIOUS
<1> USE RowAssumption, BoundAssumption DEF TypeOK, Status, Phase
<1>1. ASSUME NEW d \in Dispatcher, NEW r \in Row, Record(d, r) PROVE TypeOK'
  BY <1>1 DEF Record, Schedule, bounds
<1>2. ASSUME NEW d \in Dispatcher, NEW r \in Row, Poll(d, r) PROVE TypeOK'
  BY <1>2 DEF Poll, Schedule, bounds, rows
<1>3. ASSUME NEW d \in Dispatcher, NEW r \in Row, Replay(d, r) PROVE TypeOK'
  BY <1>3 DEF Replay, Schedule
<1>4. ASSUME NEW d \in Dispatcher, Claim(d) PROVE TypeOK'
  BY <1>4 DEF Claim, Claimable, Finish, bounds
<1>5. ASSUME NEW d \in Dispatcher, SideEffect(d) PROVE TypeOK'
  BY <1>5 DEF SideEffect, bounds
<1>6. ASSUME NEW d \in Dispatcher, CutShort(d) PROVE TypeOK'
  BY <1>6 DEF CutShort, Fault, Finish, rows
<1>7. ASSUME NEW d \in Dispatcher, Complete(d) PROVE TypeOK'
  BY <1>7 DEF Complete, Finish, bounds
<1>8. ASSUME NEW d \in Dispatcher, Fail(d) PROVE TypeOK'
  BY <1>8 DEF Fail, Throw, Finish, bounds, nextOutboxStatusAfterFailure
<1>9. ASSUME NEW r \in Row, BackoffOver(r) PROVE TypeOK'
  BY <1>9 DEF BackoffOver, calls, bounds
<1>10. CASE FindStuck
  BY <1>10 DEF FindStuck, rows, calls, bounds
<1>11. CASE MarkDead
  BY <1>11 DEF MarkDead, calls, bounds
<1>12. CASE HandlerCrash
  BY <1>12 DEF HandlerCrash, Fault, rows, calls
<1>13. CASE UNCHANGED vars
  BY <1>13 DEF vars
<1>. QED
  BY <1>1, <1>2, <1>3, <1>4, <1>5, <1>6, <1>7, <1>8, <1>9, <1>10, <1>11,
     <1>12, <1>13 DEF Next, Settle

LEMMA TypeInit == Init => TypeOK
BY RowAssumption, BoundAssumption DEF Init, TypeOK, Status, Phase

(* Every reachable state is well typed.                                        *)
THEOREM TypeCorrect == Spec => []TypeOK
BY TypeInit, TypeStep, PTL DEF Spec

-----------------------------------------------------------------------------

(* At most one dispatcher works on a row no admin replayed, and the row's      *)
(* attempts stay within the limit.                                             *)
DispatchInv == Exclusive /\ SingleDispatch /\ AttemptsRemain

LEMMA DispatchStep == TypeOK /\ DispatchInv /\ [Next]_vars => DispatchInv'
<1> SUFFICES ASSUME TypeOK, DispatchInv, [Next]_vars PROVE DispatchInv'
  OBVIOUS
<1> USE RowAssumption, BoundAssumption
    DEF DispatchInv, Exclusive, SingleDispatch, AttemptsRemain, Working, TypeOK
<1>1. ASSUME NEW d \in Dispatcher, NEW r \in Row, Record(d, r) PROVE DispatchInv'
  BY <1>1 DEF Record, Schedule, bounds
<1>2. ASSUME NEW d \in Dispatcher, NEW r \in Row, Poll(d, r) PROVE DispatchInv'
  BY <1>2 DEF Poll, Schedule, bounds, rows
<1>3. ASSUME NEW d \in Dispatcher, NEW r \in Row, Replay(d, r) PROVE DispatchInv'
  <2>1. replays' # 0
    BY <1>3 DEF Replay
  <2>. QED
    BY <2>1
<1>4. ASSUME NEW d \in Dispatcher, Claim(d) PROVE DispatchInv'
  <2>1. CASE Claimable(target[d])
    BY <1>4, <2>1 DEF Claim, Claimable, bounds
  <2>2. CASE ~Claimable(target[d])
    BY <1>4, <2>2 DEF Claim, Finish, bounds
  <2>. QED
    BY <2>1, <2>2
<1>5. ASSUME NEW d \in Dispatcher, SideEffect(d) PROVE DispatchInv'
  BY <1>5 DEF SideEffect, bounds
<1>6. ASSUME NEW d \in Dispatcher, CutShort(d) PROVE DispatchInv'
  BY <1>6 DEF CutShort, Fault, Finish, rows
<1>7. ASSUME NEW d \in Dispatcher, Complete(d) PROVE DispatchInv'
  BY <1>7 DEF Complete, Finish, bounds
<1>8. ASSUME NEW d \in Dispatcher, Fail(d) PROVE DispatchInv'
  BY <1>8 DEF Fail, Throw, Finish, bounds, nextOutboxStatusAfterFailure
<1>9. ASSUME NEW r \in Row, BackoffOver(r) PROVE DispatchInv'
  BY <1>9 DEF BackoffOver, calls, bounds
<1>10. CASE FindStuck
  BY <1>10 DEF FindStuck, rows, calls, bounds
<1>11. CASE MarkDead
  BY <1>11 DEF MarkDead, calls, bounds
<1>12. CASE HandlerCrash
  BY <1>12 DEF HandlerCrash, Fault, rows, calls
<1>13. CASE UNCHANGED vars
  BY <1>13 DEF vars
<1>. QED
  BY <1>1, <1>2, <1>3, <1>4, <1>5, <1>6, <1>7, <1>8, <1>9, <1>10, <1>11,
     <1>12, <1>13 DEF Next, Settle

LEMMA DispatchInit == Init => DispatchInv
BY BoundAssumption DEF Init, DispatchInv, Exclusive, SingleDispatch, AttemptsRemain, Working

(* Without a replay no row is ever in the hands of two dispatchers, whatever   *)
(* the retries, the dead-letter job and faults do.                            *)
THEOREM OneDispatcher == Spec => []SingleDispatch
<1>1. Spec => []DispatchInv
  BY DispatchInit, DispatchStep, TypeCorrect, PTL DEF Spec
<1>2. DispatchInv => SingleDispatch
  BY DEF DispatchInv
<1>. QED
  BY <1>1, <1>2, PTL

(* Without a replay no row is attempted more than MAX_ATTEMPTS times.          *)
THEOREM Bounded == Spec => []AttemptsBounded
<1>1. Spec => []DispatchInv
  BY DispatchInit, DispatchStep, TypeCorrect, PTL DEF Spec
<1>2. DispatchInv => AttemptsBounded
  BY DEF DispatchInv, AttemptsRemain, AttemptsBounded
<1>. QED
  BY <1>1, <1>2, PTL

-----------------------------------------------------------------------------

LEMMA AccountedStep == TypeOK /\ Accounted /\ [Next]_vars => Accounted'
<1> SUFFICES ASSUME TypeOK, Accounted, [Next]_vars PROVE Accounted'
  OBVIOUS
<1> USE RowAssumption, BoundAssumption DEF Accounted, Working, TypeOK
<1>1. ASSUME NEW d \in Dispatcher, NEW r \in Row, Record(d, r) PROVE Accounted'
  BY <1>1 DEF Record, Schedule, bounds
<1>2. ASSUME NEW d \in Dispatcher, NEW r \in Row, Poll(d, r) PROVE Accounted'
  BY <1>2 DEF Poll, Schedule, bounds, rows
<1>3. ASSUME NEW d \in Dispatcher, NEW r \in Row, Replay(d, r) PROVE Accounted'
  BY <1>3 DEF Replay, Schedule
<1>4. ASSUME NEW d \in Dispatcher, Claim(d) PROVE Accounted'
  <2>1. CASE Claimable(target[d])
    BY <1>4, <2>1 DEF Claim, Claimable, bounds
  <2>2. CASE ~Claimable(target[d])
    BY <1>4, <2>2 DEF Claim, Finish, bounds
  <2>. QED
    BY <2>1, <2>2
<1>5. ASSUME NEW d \in Dispatcher, SideEffect(d) PROVE Accounted'
  BY <1>5 DEF SideEffect, bounds
<1>6. ASSUME NEW d \in Dispatcher, CutShort(d) PROVE Accounted'
  BY <1>6 DEF CutShort, Fault, Finish, rows
<1>7. ASSUME NEW d \in Dispatcher, Complete(d) PROVE Accounted'
  BY <1>7 DEF Complete, Finish, bounds
<1>8. ASSUME NEW d \in Dispatcher, Fail(d) PROVE Accounted'
  BY <1>8 DEF Fail, Throw, Finish, bounds, nextOutboxStatusAfterFailure
<1>9. ASSUME NEW r \in Row, BackoffOver(r) PROVE Accounted'
  BY <1>9 DEF BackoffOver, calls, bounds
<1>10. CASE FindStuck
  BY <1>10 DEF FindStuck, rows, calls, bounds
<1>11. CASE MarkDead
  BY <1>11 DEF MarkDead, calls, bounds
<1>12. CASE HandlerCrash
  BY <1>12 DEF HandlerCrash, Fault, rows, calls
<1>13. CASE UNCHANGED vars
  BY <1>13 DEF vars
<1>. QED
  BY <1>1, <1>2, <1>3, <1>4, <1>5, <1>6, <1>7, <1>8, <1>9, <1>10, <1>11,
     <1>12, <1>13 DEF Next, Settle

(* No event is dropped: a row in processing has a live dispatcher unless its   *)
(* own dispatch was cut short, and a completed one's side effect was called.   *)
THEOREM NothingForgotten == Spec => []EventNeverForgotten
<1>1. Init => Accounted
  BY DEF Init, Accounted, Working
<1>2. Spec => []Accounted
  BY <1>1, AccountedStep, TypeCorrect, PTL DEF Spec
<1>3. Accounted => EventNeverForgotten
  BY DEF Accounted, EventNeverForgotten
<1>. QED
  BY <1>2, <1>3, PTL
=============================================================================
