------------------------- MODULE BlogScheduleProofs -------------------------
(* The states of BlogSchedule are well typed, its row is worked on by one      *)
(* caller at a time and no post is published before its date, for any number   *)
(* of requests, ticks, replays, days and faults.                               *)
EXTENDS BlogSchedule, TLAPS

(* A step keeps the types; the cases are the actions of Next.                  *)
LEMMA TypeStep == TypeOK /\ [Next]_vars => TypeOK'
<1> SUFFICES ASSUME TypeOK, [Next]_vars PROVE TypeOK'
  OBVIOUS
<1> USE PollerAssumption, BlogBoundAssumption
<1> USE DEF TypeOK, AnyDate, Date, NoDate, BlogState, Status, EditPhase, Phase,
           Saving, dead
<1>1. ASSUME NEW e \in Edit, Request(e) PROVE TypeOK'
  <2>1. CASE CreateBlog(e)
    BY <2>1 DEF CreateBlog, Wants
  <2>2. CASE ReadForUpdate(e)
    <3>1. PICK d \in AnyDate, p \in {"yes", "no", "same"} :
             edit' = [edit EXCEPT ![e] = [Wants(d, p) EXCEPT !.at = "write"]]
      BY <2>2 DEF ReadForUpdate
    <3>2. [Wants(d, p) EXCEPT !.at = "write"]
             \in [at : EditPhase, date : AnyDate, publish : {"yes", "no", "same"}]
      BY DEF Wants
    <3>3. edit' \in [Edit -> [at : EditPhase, date : AnyDate, publish : {"yes", "no", "same"}]]
      <4> HIDE DEF EditPhase, AnyDate
      <4>1. QED
        BY <3>1, <3>2
    <3>4. QED
      BY <2>2, <3>3 DEF ReadForUpdate
  <2>3. CASE UpdateBlog(e)
    <3>1. edit[e] \in [at : EditPhase, date : AnyDate, publish : {"yes", "no", "same"}]
      BY <1>1
    <3>2. CASE Exists
      <4> DEFINE s == IF edit[e].publish = "yes" THEN "published"
                      ELSE IF edit[e].publish = "no" THEN "draft" ELSE blog.state
                 d == IF edit[e].publish = "yes" THEN NoDate ELSE edit[e].date
      <4>1. s \in BlogState /\ d \in AnyDate
        BY <3>1
      <4>2. blog' = [state |-> s, date |-> d] /\ apart' \in BOOLEAN
        BY <2>3, <3>2 DEF UpdateBlog
      <4>3. edit' \in [Edit -> [at : EditPhase, date : AnyDate, publish : {"yes", "no", "same"}]]
        BY <2>3, <3>1, <3>2 DEF UpdateBlog
      <4> HIDE DEF s, d
      <4>4. blog' \in [state : BlogState, date : AnyDate]
        BY <4>1, <4>2
      <4>5. QED
        BY <2>3, <4>2, <4>3, <4>4 DEF UpdateBlog
    <3>3. CASE ~Exists
      BY <2>3, <3>3 DEF UpdateBlog, Request0
    <3>4. QED
      BY <3>2, <3>3
  <2>4. CASE WriteRow(e)
    BY <2>4 DEF WriteRow, RecordBlogPublishOutbox, CancelBlogPublishOutbox, Meets, Request0
  <2>5. CASE RowNotWritten(e)
    BY <2>5 DEF RowNotWritten, Request0
  <2>6. CASE DeleteBlog(e)
    BY <2>6 DEF DeleteBlog, Request0
  <2>7. QED
    BY <1>1, <2>1, <2>2, <2>3, <2>4, <2>5, <2>6 DEF Request
<1>2. ASSUME NEW t \in Caller, PollerStep(t) PROVE TypeOK'
  <2>1. CASE Acquire(t)
    BY <2>1 DEF Acquire, At
  <2>2. CASE Claim(t)
    <3>1. CASE Due
      <4>1. row' = [status |-> "processing", due |-> row.due, attempts |-> row.attempts + 1]
        BY <2>2, <3>1 DEF Claim
      <4>2. tick' = [tick EXCEPT ![t] = [at |-> "read", attempts |-> row.attempts + 1]]
        BY <2>2, <3>1 DEF Claim
      <4>3. row.attempts + 1 \in Nat /\ row.due \in AnyDate
        BY <1>2
      <4>4. QED
        BY <2>2, <3>1, <4>1, <4>2, <4>3 DEF Claim
    <3>2. CASE ~Due
      BY <2>2, <3>2 DEF Claim, End, Idle
    <3>3. QED
      BY <3>1, <3>2
  <2>3. CASE ReadBlog(t)
    BY <2>3 DEF ReadBlog, At
  <2>4. CASE SaveBlog(t)
    <3>1. blog' \in [state : BlogState, date : AnyDate]
      BY <2>4 DEF SaveBlog
    <3>2. tick' \in [Caller -> [at : Phase, attempts : Nat]]
      <4>1. tick' = [tick EXCEPT ![t].at = "completed"] \/ tick' = [tick EXCEPT ![t].at = "failed"]
        BY <2>4 DEF SaveBlog, At
      <4>2. QED
        BY <4>1
    <3>3. QED
      BY <2>4, <3>1, <3>2 DEF SaveBlog
  <2>5. CASE SaveFails(t)
    BY <2>5 DEF SaveFails, At
  <2>6. CASE Complete(t)
    BY <2>6 DEF Complete, End, Idle
  <2>7. CASE Fail(t)
    <3>1. PICK d \in {today, IF today < LastDay THEN today + 1 ELSE today} :
             row' = [row EXCEPT
                 !.status = IF tick[t].attempts >= MaxAttempts THEN "dead_letter" ELSE "pending",
                 !.due = d]
      BY <2>7 DEF Fail
    <3> DEFINE s == IF tick[t].attempts >= MaxAttempts THEN "dead_letter" ELSE "pending"
    <3>2. s \in Status /\ d \in AnyDate
      OBVIOUS
    <3>3. row' = [status |-> s, due |-> d, attempts |-> row.attempts]
      BY <3>1
    <3> HIDE DEF s
    <3>4. row' \in [status : Status, due : AnyDate, attempts : Nat]
      BY <3>2, <3>3
    <3>5. QED
      BY <2>7, <3>4 DEF Fail, End, Idle
  <2>8. QED
    BY <1>2, <2>1, <2>2, <2>3, <2>4, <2>5, <2>6, <2>7 DEF PollerStep, Dispatch
<1>3. ASSUME NEW t \in Caller, Replay(t) \/ Stop(t) PROVE TypeOK'
  <2>1. CASE Replay(t)
    <3>1. ousted' \in BOOLEAN /\ apart' \in BOOLEAN
      BY <2>1 DEF Replay
    <3>2. QED
      BY <2>1, <3>1 DEF Replay, At
  <2>2. CASE Stop(t)
    <3>1. found' \in BOOLEAN
      BY <2>2, Zenon DEF Stop
    <3>2. start' \in [at : {"ready", "record", "done"}, date : AnyDate]
      BY <2>2 DEF Stop
    <3>3. QED
      BY <2>2, <3>1, <3>2 DEF Stop, Idle
  <2>3. QED
    BY <1>3, <2>1, <2>2
<1>4. CASE FindScheduled
  BY <1>4 DEF FindScheduled
<1>5. CASE Backfill
  BY <1>5 DEF Backfill, RecordBlogPublishOutbox
<1>6. CASE Expire
  BY <1>6 DEF Expire
<1>7. CASE NextDay
  BY <1>7 DEF NextDay
<1>8. CASE FindStuck \/ MarkDead
  BY <1>8 DEF FindStuck, MarkDead
<1>9. CASE UNCHANGED vars
  BY <1>9 DEF vars
<1>10. QED
  BY <1>1, <1>2, <1>3, <1>4, <1>5, <1>6, <1>7, <1>8, <1>9 DEF Next

LEMMA TypeInit == Init => TypeOK
<1> SUFFICES ASSUME Init PROVE TypeOK
  OBVIOUS
<1>1. apart \in BOOLEAN /\ found \in BOOLEAN /\ ousted \in BOOLEAN
  BY DEF Init
<1>2. tick \in [Caller -> [at : Phase, attempts : Nat]]
  BY DEF Init, Phase, Idle
<1>3. QED
  BY <1>1, <1>2, PollerAssumption, BlogBoundAssumption
     DEF Init, TypeOK, AnyDate, Date, NoDate, BlogState, Status, EditPhase, Request0

(* The writes of the requests, of the backfill and of the dead-letter job do   *)
(* not make a row pending that is being dispatched.                            *)
LEMMA WritersKeepClosed ==
  ASSUME TypeOK, row.status \in {"processing", "dead_letter"},
         \/ \E e \in Edit : Request(e)
         \/ FindStuck \/ MarkDead
         \/ FindScheduled \/ Backfill \/ Expire \/ NextDay \/ UNCHANGED vars
  PROVE  row'.status \in {"processing", "dead_letter"}
<1>1. row \in [status : Status, due : AnyDate, attempts : Nat]
  BY DEF TypeOK
<1>2. ASSUME NEW d, RecordBlogPublishOutbox(d) PROVE UNCHANGED row.status
  BY <1>1, <1>2 DEF RecordBlogPublishOutbox, Status
<1>3. ASSUME CancelBlogPublishOutbox PROVE UNCHANGED row.status
  BY <1>1, <1>3 DEF CancelBlogPublishOutbox, Status
<1>4. ASSUME NEW e \in Edit, Request(e) PROVE UNCHANGED row.status
  <2>1. CASE WriteRow(e)
    BY <2>1, <1>2, <1>3 DEF WriteRow
  <2>2. QED
    BY <1>4, <2>1 DEF Request, CreateBlog, ReadForUpdate, UpdateBlog, RowNotWritten, DeleteBlog
<1>5. ASSUME MarkDead PROVE row'.status = "dead_letter"
  BY <1>1, <1>5 DEF MarkDead
<1>6. QED
  BY <1>2, <1>4, <1>5 DEF FindStuck, FindScheduled, Backfill, Expire, NextDay, vars

(* The invariant: until a held row is replayed, a caller that holds the row    *)
(* finds it in processing or set aside, so no other can claim it.              *)
LEMMA ClaimStep == ClaimInv /\ [Next]_vars => ClaimInv'
<1> SUFFICES ASSUME ClaimInv, [Next]_vars PROVE ClaimInv'
  OBVIOUS
<1>0. TypeOK /\ TypeOK'
  BY TypeStep DEF ClaimInv
<1>1. /\ tick \in [Caller -> [at : Phase, attempts : Nat]]
      /\ row \in [status : Status, due : AnyDate, attempts : Nat]
  BY <1>0 DEF TypeOK
<1>2. SUFFICES ASSUME ~ousted' PROVE HeldIsNotOpen' /\ ClaimedOnce'
  BY <1>0, <1>2 DEF ClaimInv, HeldIsNotOpen, ClaimedOnce
<1>3. CASE \/ \E e \in Edit : Request(e)
           \/ FindStuck \/ MarkDead
           \/ FindScheduled \/ Backfill \/ Expire \/ NextDay \/ UNCHANGED vars
  <2>1. UNCHANGED <<tick, ousted>>
    BY <1>3 DEF Request, CreateBlog, ReadForUpdate, UpdateBlog, WriteRow, RowNotWritten, FindStuck,
                MarkDead, DeleteBlog, FindScheduled, Backfill, Expire, NextDay, vars, dead
  <2>2. HeldIsNotOpen /\ ClaimedOnce /\ ~ousted
    BY <1>2, <2>1 DEF ClaimInv
  <2>3. HeldIsNotOpen'
    BY <1>0, <1>3, <2>1, <2>2, WritersKeepClosed DEF HeldIsNotOpen, Holding
  <2>4. QED
    BY <2>1, <2>2, <2>3 DEF ClaimedOnce, Holding
<1>4. ASSUME NEW t \in Caller, PollerStep(t) \/ Replay(t) \/ Stop(t)
      PROVE  HeldIsNotOpen' /\ ClaimedOnce'
  <2> USE DEF Phase, Saving, Status, Working
  <2>1. \A u \in Caller \ {t} : tick'[u] = tick[u]
    BY <1>1, <1>4 DEF PollerStep, Dispatch, Replay, Stop, Acquire, Claim, ReadBlog, SaveBlog,
                      SaveFails, Complete, Fail, End, At
  <2>2. HeldIsNotOpen /\ ClaimedOnce /\ ~ousted
    <3>1. CASE Replay(t)
      BY <1>2, <3>1, Zenon DEF Replay, ClaimInv
    <3>2. CASE ~Replay(t)
      <4>1. UNCHANGED ousted
        BY <1>4, <3>2 DEF PollerStep, Dispatch, Stop, Acquire, Claim, ReadBlog, SaveBlog,
                          SaveFails, Complete, Fail, dead
      <4>2. QED
        BY <1>2, <4>1, Zenon DEF ClaimInv
    <3>3. QED
      BY <3>1, <3>2
  <2>3. CASE Replay(t)
    \* Nobody has the row, and the replayed call does not have it yet.
    <3>1. \A u \in Caller : ~Holding(u)
      BY <1>2, <2>3 DEF Replay, InHand
    <3>2. ~Holding(t)'
      BY <1>1, <2>3 DEF Replay, At, Holding
    <3>3. QED
      BY <2>1, <3>1, <3>2 DEF HeldIsNotOpen, ClaimedOnce, Holding
  <2>4. CASE Holding(t) /\ ~Replay(t)
    \* No other caller holds the row, before or after.
    <3>1. \A u \in Caller : Holding(u)' => u = t
      BY <2>1, <2>2, <2>4 DEF ClaimedOnce, Holding
    <3>2. Holding(t)' => row'.status \in {"processing", "dead_letter"}
      <4>1. row.status \in {"processing", "dead_letter"}
        BY <2>2, <2>4 DEF HeldIsNotOpen
      <4>2. ASSUME Complete(t) \/ Fail(t) \/ Stop(t) PROVE ~Holding(t)'
        <5>1. tick' = [tick EXCEPT ![t] = Idle]
          BY <4>2 DEF Complete, Fail, Stop, End
        <5>2. QED
          BY <1>1, <5>1 DEF Idle, Holding
      <4>3. QED
        BY <1>1, <1>4, <2>4, <4>1, <4>2
           DEF PollerStep, Dispatch, Acquire, Claim, ReadBlog, SaveBlog, SaveFails, Holding
    <3>3. QED
      BY <3>1, <3>2 DEF HeldIsNotOpen, ClaimedOnce
  <2>5. CASE ~Holding(t) /\ ~Replay(t)
    <3>1. CASE Claim(t) /\ Due
      <4>1. \A u \in Caller : ~Holding(u)
        BY <2>2, <3>1 DEF HeldIsNotOpen, Due, Open
      <4>2. row'.status = "processing"
        BY <1>1, <3>1 DEF Claim
      <4>3. QED
        BY <2>1, <4>1, <4>2 DEF HeldIsNotOpen, ClaimedOnce, Holding
    <3>2. CASE ~(Claim(t) /\ Due)
      <4>1. UNCHANGED row
        BY <1>4, <2>5, <3>2
           DEF PollerStep, Dispatch, Stop, Acquire, Claim, ReadBlog, SaveBlog, SaveFails,
               Complete, Fail, Holding
      <4>2. Acquire(t) \/ Claim(t) \/ Stop(t)
        BY <1>4, <2>5 DEF PollerStep, Dispatch, ReadBlog, SaveBlog, SaveFails, Complete, Fail,
                          Holding
      <4>3. tick' = [tick EXCEPT ![t] = Idle] \/ At(t, "claim")
        BY <3>2, <4>2 DEF Acquire, Claim, Stop, End
      <4>4. ~Holding(t)'
        BY <1>1, <4>3 DEF At, Idle, Holding
      <4>5. QED
        BY <2>1, <2>2, <4>1, <4>4 DEF HeldIsNotOpen, ClaimedOnce, Holding
    <3>3. QED
      BY <3>1, <3>2
  <2>6. QED
    BY <2>3, <2>4, <2>5
<1>5. QED
  BY <1>3, <1>4 DEF Next

(* Every reachable state is well typed.                                        *)
THEOREM TypeCorrect == Spec => []TypeOK
<1>1. TypeOK /\ [Next]_vars => TypeOK'
  BY TypeStep
<1>2. QED
  BY TypeInit, <1>1, PTL DEF Spec

(* One caller at a time publishes the post and writes the outcome, whatever    *)
(* the lock and the dead-letter job do, until a row that somebody still works  *)
(* on is replayed: the row's claim alone keeps two callers apart.              *)
THEOREM OneClaim == Spec => []ClaimedOnce
<1>1. Init => ClaimInv
  <2> SUFFICES ASSUME Init PROVE ClaimInv
    OBVIOUS
  <2>1. \A t \in Caller : ~Holding(t)
    BY DEF Init, Holding, Working, Idle
  <2>2. QED
    BY TypeInit, <2>1 DEF ClaimInv, HeldIsNotOpen, ClaimedOnce
<1>2. ClaimInv => ClaimedOnce
  BY DEF ClaimInv
<1>3. QED
  BY <1>1, <1>2, ClaimStep, PTL DEF Spec

----------------------------------------------------------------------------
(* Why no post is published early. The row and the post are written one after  *)
(* the other, so between the two writes the row may still hold an earlier      *)
(* date; what a writer of the row then carries is the date the post has, or    *)
(* the post lost its date meanwhile.                                           *)
Recording(e) == edit[e].at = "record"
NoneRecords == \A e \in Edit : ~Recording(e)

Unborn ==
    blog.state = "none" =>
        start.at # "record" /\ \A e \in Edit : edit[e].at \notin {"write", "record"}
LoneWriter ==
    /\ \A e, f \in Edit : Recording(e) /\ Recording(f) => e = f
    /\ start.at = "record" => NoneRecords
CarriesItsDate ==
    /\ \A e \in Edit : Recording(e) => blog.date \in {NoDate, edit[e].date}
    /\ start.at = "record" => blog.date \in {NoDate, start.date}
RowNotEarly ==
    NoneRecords =>
        /\ InHand => blog.date <= today
        /\ Open => blog.date <= today \/ blog.date <= row.due
Together == LoneWriter /\ CarriesItsDate /\ RowNotEarly
ScheduleInv == ClaimInv /\ Unborn /\ (~apart => Together)

(* Nothing in a post that exists or was deleted makes it new again.            *)
LEMMA UnbornStep == TypeOK /\ Unborn /\ [Next]_vars => Unborn'
<1> SUFFICES ASSUME TypeOK, Unborn, [Next]_vars PROVE Unborn'
  OBVIOUS
<1> USE DEF Unborn
<1>0. /\ edit \in [Edit -> [at : EditPhase, date : AnyDate, publish : {"yes", "no", "same"}]]
      /\ start \in [at : {"ready", "record", "done"}, date : AnyDate]
  BY DEF TypeOK
<1>1. ASSUME NEW e \in Edit, Request(e) PROVE Unborn'
  <2>1. CASE CreateBlog(e)
    <3>1. blog'.state # "none"
      BY <2>1 DEF CreateBlog
    <3>2. QED
      BY <3>1
  <2>2. CASE ReadForUpdate(e)
    BY <2>2 DEF ReadForUpdate, Exists
  <2>3. CASE UpdateBlog(e)
    <3>1. blog.state # "none"
      BY <2>3 DEF UpdateBlog
    <3>2. blog'.state # "none"
      BY <2>3, <3>1 DEF UpdateBlog
    <3>3. QED
      BY <3>2
  <2>4. CASE WriteRow(e) \/ RowNotWritten(e)
    BY <1>0, <2>4 DEF WriteRow, RowNotWritten, Request0
  <2>5. CASE DeleteBlog(e)
    BY <2>5 DEF DeleteBlog
  <2>6. QED
    BY <1>1, <2>1, <2>2, <2>3, <2>4, <2>5 DEF Request
<1>2. ASSUME NEW t \in Caller, PollerStep(t) \/ Replay(t) \/ Stop(t) PROVE Unborn'
  <2>1. UNCHANGED edit /\ (start'.at = "record" => start.at = "record")
    BY <1>0, <1>2 DEF PollerStep, Dispatch, Replay, Stop, Acquire, Claim, ReadBlog, SaveBlog,
                      SaveFails, Complete, Fail
  <2>2. CASE SaveBlog(t)
    BY <2>1, <2>2 DEF SaveBlog, Exists
  <2>3. CASE ~SaveBlog(t)
    <3>1. UNCHANGED blog
      BY <1>2, <2>3 DEF PollerStep, Dispatch, Replay, Stop, Acquire, Claim, ReadBlog, SaveFails,
                        Complete, Fail
    <3>2. QED
      BY <2>1, <3>1
  <2>4. QED
    BY <2>2, <2>3
<1>3. CASE FindStuck \/ MarkDead \/ FindScheduled \/ Backfill \/ Expire \/ NextDay
           \/ UNCHANGED vars
  BY <1>0, <1>3 DEF FindStuck, MarkDead, FindScheduled, Backfill, Expire, NextDay, vars
<1>4. QED
  BY <1>1, <1>2, <1>3 DEF Next

(* A request: the post and the row get its date one after the other, and a     *)
(* request that finds another writer at work ends the invariant's hypothesis.  *)
LEMMA RequestTogether ==
  ASSUME TypeOK, TypeOK', Unborn, ~apart => Together, NEW e \in Edit, Request(e), ~apart'
  PROVE  Together'
<1> USE DEF Recording, NoneRecords
<1>0. /\ edit \in [Edit -> [at : EditPhase, date : AnyDate, publish : {"yes", "no", "same"}]]
      /\ start \in [at : {"ready", "record", "done"}, date : AnyDate]
      /\ row \in [status : Status, due : AnyDate, attempts : Nat]
      /\ blog \in [state : BlogState, date : AnyDate]
      /\ today \in Nat /\ blog.date \in Int /\ \A f \in Edit : edit[f].date \in Int
  BY BlogBoundAssumption DEF TypeOK, AnyDate, Date, NoDate
<1>1. ~apart
  BY DEF Request, CreateBlog, ReadForUpdate, UpdateBlog, WriteRow, RowNotWritten, DeleteBlog
<1>2. LoneWriter /\ CarriesItsDate /\ RowNotEarly
  BY <1>1 DEF Together
<1>3. \A f \in Edit \ {e} : edit'[f] = edit[f]
  BY <1>0 DEF Request, CreateBlog, ReadForUpdate, UpdateBlog, WriteRow, RowNotWritten, DeleteBlog
<1>4. CASE CreateBlog(e)
  <2>1. \A f \in Edit : ~Recording(f)
    BY <1>4 DEF CreateBlog, Unborn
  <2>2. start'.at # "record"
    BY <1>4 DEF CreateBlog, Unborn
  <2>3. PICK d \in AnyDate, p \in {"yes", "no"} :
           /\ edit' = [edit EXCEPT ![e] = Wants(d, p)]
           /\ blog' = [state |-> IF edit'[e].publish = "yes" THEN "published" ELSE "draft",
                       date |-> d]
    BY <1>4 DEF CreateBlog
  <2>4. edit'[e].at = "record" /\ edit'[e].date = d
    BY <1>0, <2>3 DEF Wants
  <2>5. QED
    BY <1>3, <2>1, <2>2, <2>3, <2>4 DEF Together, LoneWriter, CarriesItsDate, RowNotEarly
<1>5. CASE ReadForUpdate(e)
  <2>1. edit[e].at # "record" /\ edit'[e].at # "record"
    BY <1>0, <1>5 DEF ReadForUpdate, Wants
  <2>2. UNCHANGED <<today, blog, row, start, tick>>
    BY <1>5 DEF ReadForUpdate
  <2>3. QED
    BY <1>2, <1>3, <2>1, <2>2 DEF Together, LoneWriter, CarriesItsDate, RowNotEarly, Open,
                InHand, Holding
<1>6. CASE UpdateBlog(e)
  <2>1. CASE Exists
    <3>1. ~Meets(e)
      BY <1>6, <2>1 DEF UpdateBlog
    <3>2. edit'[e].at = "record" /\ edit'[e].date = edit[e].date /\ UNCHANGED start
      BY <1>0, <1>6, <2>1 DEF UpdateBlog
    <3>3. blog'.date \in {NoDate, edit[e].date}
      BY <1>6, <2>1 DEF UpdateBlog
    <3>4. QED
      BY <1>3, <3>1, <3>2, <3>3 DEF Together, LoneWriter, CarriesItsDate, RowNotEarly, Meets
  <2>2. CASE ~Exists
    <3>1. edit[e].at # "record" /\ edit'[e].at # "record"
      BY <1>0, <1>6, <2>2 DEF UpdateBlog, Request0
    <3>2. UNCHANGED <<today, blog, row, start, tick>>
      BY <1>6, <2>2 DEF UpdateBlog
    <3>3. QED
      BY <1>2, <1>3, <3>1, <3>2 DEF Together, LoneWriter, CarriesItsDate, RowNotEarly, Open,
                InHand, Holding
  <2>3. QED
    BY <2>1, <2>2
<1>7. CASE WriteRow(e)
  <2>1. ~Meets(e) /\ Recording(e)
    BY <1>7 DEF WriteRow
  <2>2. \A f \in Edit : ~Recording(f)'
    BY <1>0, <1>3, <1>7, <2>1 DEF WriteRow, Meets, Request0
  <2>3. start'.at # "record"
    BY <1>7, <2>1 DEF WriteRow, Meets
  <2>4. blog' = blog /\ today' = today /\ blog.date \in {NoDate, edit[e].date}
    BY <1>2, <1>7, <2>1 DEF WriteRow, CarriesItsDate
  <2>5. ~InHand'
    BY <1>7, <2>1 DEF WriteRow, Meets, InHand, Holding
  <2>6. blog'.date <= today' \/ blog'.date <= row'.due
    <3>1. edit[e].date \in Int
      BY <1>0
    <3>2. CASE edit[e].date > today
      <4>1. row'.due = edit[e].date
        BY <1>0, <1>7, <3>2 DEF WriteRow, RecordBlogPublishOutbox
      <4>2. QED
        BY <1>0, <2>4, <3>1, <4>1 DEF NoDate
    <3>3. CASE ~(edit[e].date > today)
      BY <1>0, <2>4, <3>1, <3>3 DEF NoDate
    <3>4. QED
      BY <3>2, <3>3
  <2>7. QED
    BY <2>2, <2>3, <2>5, <2>6 DEF Together, LoneWriter, CarriesItsDate, RowNotEarly
<1>8. CASE RowNotWritten(e)
  BY <1>8 DEF RowNotWritten
<1>9. CASE DeleteBlog(e)
  <2>1. edit[e].at # "record" /\ edit'[e].at # "record"
    BY <1>0, <1>9 DEF DeleteBlog, Request0
  <2>2. blog'.date = NoDate /\ UNCHANGED <<today, row, start, tick>>
    BY <1>9 DEF DeleteBlog
  <2>3. NoDate <= today
    BY <1>0 DEF NoDate
  <2>4. QED
    BY <1>2, <1>3, <2>1, <2>2, <2>3
       DEF Together, LoneWriter, CarriesItsDate, RowNotEarly, Open,
                InHand, Holding
<1>10. QED
  BY <1>4, <1>5, <1>6, <1>7, <1>8, <1>9 DEF Request

(* A caller takes a row that is due, and while it has it nobody writes the     *)
(* post without ending the hypothesis; it gives the row back due today or      *)
(* later.                                                                      *)
LEMMA CallerTogether ==
  ASSUME TypeOK, TypeOK', ~apart => Together, NEW t \in Caller,
         PollerStep(t) \/ Stop(t), ~apart'
  PROVE  Together'
<1> USE DEF Recording, NoneRecords
<1>0. /\ row \in [status : Status, due : AnyDate, attempts : Nat]
      /\ blog \in [state : BlogState, date : AnyDate]
      /\ tick \in [Caller -> [at : Phase, attempts : Nat]]
      /\ start \in [at : {"ready", "record", "done"}, date : AnyDate]
      /\ today \in Nat /\ blog.date \in Int /\ row.due \in Int
  BY BlogBoundAssumption DEF TypeOK, Date, AnyDate, NoDate
<1>1. UNCHANGED <<today, edit, apart>>
  BY DEF PollerStep, Dispatch, Stop, Acquire, Claim, ReadBlog, SaveBlog, SaveFails, Complete, Fail
<1>2. LoneWriter /\ CarriesItsDate /\ RowNotEarly
  BY <1>1, Zenon DEF Together
<1>3. blog'.date \in {NoDate, blog.date}
  <2>1. CASE SaveBlog(t)
    BY <2>1 DEF SaveBlog
  <2>2. CASE ~SaveBlog(t)
    BY <2>2 DEF PollerStep, Dispatch, Stop, Acquire, Claim, ReadBlog, SaveFails, Complete, Fail
  <2>3. QED
    BY <2>1, <2>2
<1>4. (start'.at = "record" => start.at = "record") /\ start'.date = start.date
  BY <1>0 DEF PollerStep, Dispatch, Stop, Acquire, Claim, ReadBlog, SaveBlog, SaveFails,
              Complete, Fail
<1>5. LoneWriter' /\ CarriesItsDate'
  BY <1>1, <1>2, <1>3, <1>4 DEF LoneWriter, CarriesItsDate
<1>6. RowNotEarly'
  <2> SUFFICES ASSUME NoneRecords
               PROVE  /\ InHand' => blog'.date <= today
                      /\ row'.status = "pending" => blog'.date <= today \/ blog'.date <= row'.due
    BY <1>1 DEF RowNotEarly, Open
  <2>1. blog.date <= today => blog'.date <= today
    BY <1>0, <1>3 DEF NoDate
  <2>2. /\ InHand => blog.date <= today
        /\ Open => blog.date <= today \/ blog.date <= row.due
    BY <1>2 DEF RowNotEarly
  <2>3. CASE Holding(t)
    BY <2>1, <2>2, <2>3 DEF InHand
  <2>4. CASE Claim(t) /\ Due
    <3>1. Open /\ row.due <= today
      BY <2>4 DEF Due
    <3>2. blog.date <= today
      BY <1>0, <2>2, <3>1
    <3>3. QED
      BY <2>1, <3>2
  <2>5. CASE ~Holding(t) /\ ~(Claim(t) /\ Due)
    <3> USE DEF Working, Phase, Saving
    <3>1. UNCHANGED <<row, blog>>
      BY <2>5 DEF PollerStep, Dispatch, Stop, Acquire, Claim, ReadBlog, SaveBlog, SaveFails,
                  Complete, Fail, Holding
    <3>2. Acquire(t) \/ Claim(t) \/ Stop(t)
      BY <2>5 DEF PollerStep, Dispatch, ReadBlog, SaveBlog, SaveFails, Complete, Fail, Holding
    <3>3. tick' = [tick EXCEPT ![t] = Idle] \/ At(t, "claim")
      BY <2>5, <3>2 DEF Acquire, Claim, Stop, End
    <3>4. \A u \in Caller : Holding(u)' => Holding(u)
      BY <1>0, <3>3 DEF At, Idle, Holding
    <3>5. QED
      BY <2>2, <3>1, <3>4 DEF Open, InHand
  <2>6. QED
    BY <2>3, <2>4, <2>5
<1>7. QED
  BY <1>5, <1>6 DEF Together

(* The dead-letter job opens no row, and a replay the row of a post whose date *)
(* has come, or it ends the hypothesis.                                        *)
LEMMA DeadLetterTogether ==
  ASSUME TypeOK, TypeOK', ~apart => Together,
         FindStuck \/ MarkDead \/ \E t \in Caller : Replay(t), ~apart'
  PROVE  Together'
<1>0. /\ row \in [status : Status, due : AnyDate, attempts : Nat]
      /\ tick \in [Caller -> [at : Phase, attempts : Nat]]
      /\ today \in Nat /\ blog.date \in Int /\ row.due \in Int
  BY BlogBoundAssumption DEF TypeOK, Date, AnyDate, NoDate
<1>1. ~apart /\ UNCHANGED <<today, blog, edit, start>>
  <2>1. UNCHANGED <<today, blog, edit, start>>
    BY DEF FindStuck, MarkDead, Replay
  <2>2. apart => apart'
    BY Zenon DEF FindStuck, MarkDead, Replay
  <2>3. QED
    BY <2>1, <2>2, Zenon
<1>2. LoneWriter /\ CarriesItsDate /\ RowNotEarly
  BY <1>1 DEF Together
<1>3. LoneWriter' /\ CarriesItsDate'
  BY <1>1, <1>2 DEF LoneWriter, CarriesItsDate, NoneRecords, Recording
<1>4. InHand' => InHand
  <2>1. CASE FindStuck \/ MarkDead
    BY <2>1 DEF FindStuck, MarkDead, InHand, Holding
  <2>2. ASSUME NEW t \in Caller, Replay(t) PROVE InHand' => InHand
    BY <1>0, <2>2 DEF Replay, At, InHand, Holding, Working
  <2>3. QED
    BY <2>1, <2>2
<1>5. CASE FindStuck \/ MarkDead
  <2>1. Open' => Open /\ row'.due = row.due
    BY <1>0, <1>5 DEF FindStuck, MarkDead, Open
  <2>2. QED
    BY <1>1, <1>2, <1>3, <1>4, <2>1 DEF Together, RowNotEarly, NoneRecords, Recording
<1>6. CASE \E t \in Caller : Replay(t)
  <2>1. ~(blog.date > today)
    BY <1>6 DEF Replay
  <2>2. blog'.date <= today'
    BY <1>0, <1>1, <2>1
  <2>3. QED
    BY <1>3, <2>2 DEF Together, RowNotEarly
<1>7. QED
  BY <1>5, <1>6

(* The backfill of a start, the lock's end and the clock.                      *)
LEMMA OtherTogether ==
  ASSUME TypeOK, TypeOK', ~apart => Together,
         FindScheduled \/ Backfill \/ Expire \/ NextDay \/ UNCHANGED vars, ~apart'
  PROVE  Together'
<1> USE DEF Recording, NoneRecords
<1>0. /\ row \in [status : Status, due : AnyDate, attempts : Nat]
      /\ blog \in [state : BlogState, date : AnyDate]
      /\ start \in [at : {"ready", "record", "done"}, date : AnyDate]
      /\ today \in Nat /\ blog.date \in Int /\ row.due \in Int /\ start.date \in Int
      /\ apart \in BOOLEAN
  BY BlogBoundAssumption DEF TypeOK, Date, AnyDate, NoDate
<1>1. ~apart /\ UNCHANGED <<blog, edit, tick>>
  <2>1. CASE FindScheduled
    BY <2>1 DEF FindScheduled
  <2>2. CASE Backfill
    BY <2>2 DEF Backfill
  <2>3. CASE Expire \/ NextDay \/ UNCHANGED vars
    BY <2>3 DEF Expire, NextDay, vars
  <2>4. QED
    BY <2>1, <2>2, <2>3
<1>2. LoneWriter /\ CarriesItsDate /\ RowNotEarly
  BY <1>1 DEF Together
<1>3. CASE FindScheduled
  <2>1. UNCHANGED <<today, row>>
    BY <1>3 DEF FindScheduled
  <2>2. CASE start'.at = "record"
    <3>1. start'.date = blog.date /\ NoneRecords
      BY <1>0, <1>3, <2>2 DEF FindScheduled
    <3>2. QED
      BY <1>1, <1>2, <2>1, <3>1 DEF Together, LoneWriter, CarriesItsDate, RowNotEarly, Open,
                     InHand, Holding
  <2>3. CASE start'.at # "record"
    BY <1>1, <1>2, <2>1, <2>3 DEF Together, LoneWriter, CarriesItsDate, RowNotEarly, Open,
                     InHand, Holding
  <2>4. QED
    BY <2>2, <2>3
<1>4. CASE Backfill
  <2>1. start'.at # "record" /\ UNCHANGED today
    BY <1>4 DEF Backfill
  <2>2. ~InHand'
    BY <1>4 DEF Backfill, InHand, Holding
  <2>3. row'.due = start.date
    BY <1>0, <1>4 DEF Backfill, RecordBlogPublishOutbox
  <2>4. blog.date <= today \/ blog.date <= start.date
    BY <1>0, <1>2, <1>4 DEF CarriesItsDate, Backfill, NoDate
  <2>5. QED
    BY <1>1, <1>2, <2>1, <2>2, <2>3, <2>4
       DEF Together, LoneWriter, CarriesItsDate, RowNotEarly
<1>5. CASE Expire \/ NextDay \/ UNCHANGED vars
  <2>1. UNCHANGED <<row, start>> /\ today' \in Nat /\ today <= today'
    BY <1>0, <1>5 DEF Expire, NextDay, vars
  <2>2. blog.date \in Int /\ row.due \in Int
    BY <1>0
  <2>3. blog.date <= today => blog.date <= today'
    BY <1>0, <2>1, <2>2
  <2>4. QED
    BY <1>1, <1>2, <2>1, <2>3 DEF Together, LoneWriter, CarriesItsDate, RowNotEarly, Open,
                     InHand, Holding
<1>6. QED
  BY <1>3, <1>4, <1>5

LEMMA ScheduleStep == ScheduleInv /\ [Next]_vars => ScheduleInv'
<1> SUFFICES ASSUME ScheduleInv, [Next]_vars PROVE ScheduleInv'
  OBVIOUS
<1>1. ClaimInv /\ TypeOK /\ Unborn /\ (~apart => Together)
  BY DEF ScheduleInv, ClaimInv
<1>2. ClaimInv' /\ TypeOK' /\ Unborn'
  BY <1>1, ClaimStep, UnbornStep DEF ClaimInv
<1>3. ASSUME ~apart' PROVE Together'
  <2>1. CASE \E e \in Edit : Request(e)
    BY <1>1, <1>2, <1>3, <2>1, RequestTogether
  <2>2. CASE \E t \in Caller : PollerStep(t) \/ Stop(t)
    BY <1>1, <1>2, <1>3, <2>2, CallerTogether
  <2>3. CASE FindStuck \/ MarkDead \/ \E t \in Caller : Replay(t)
    BY <1>1, <1>2, <1>3, <2>3, DeadLetterTogether
  <2>4. CASE FindScheduled \/ Backfill \/ Expire \/ NextDay \/ UNCHANGED vars
    BY <1>1, <1>2, <1>3, <2>4, OtherTogether
  <2>5. QED
    BY <2>1, <2>2, <2>3, <2>4 DEF Next
<1>4. QED
  BY <1>2, <1>3 DEF ScheduleInv

(* Unless two writers of a post met, a write of its row was lost or its row    *)
(* was replayed before the date, no tick and no replay publishes a post before *)
(* the date it has.                                                            *)
THEOREM NotEarly == Spec => NeverBeforeSchedule
<1>1. Init => ScheduleInv
  <2> SUFFICES ASSUME Init PROVE ScheduleInv
    OBVIOUS
  <2>1. \A t \in Caller : ~Holding(t)
    BY DEF Init, Holding, Working, Idle
  <2>2. ClaimInv
    BY TypeInit, <2>1 DEF ClaimInv, HeldIsNotOpen, ClaimedOnce
  <2>3. NoneRecords /\ start.at = "done" /\ row.status = "absent"
        /\ \A e \in Edit : edit[e].at # "write"
    BY DEF Init, Request0, NoneRecords, Recording
  <2>4. Unborn
    BY <2>3 DEF Unborn, NoneRecords, Recording
  <2>5. LoneWriter /\ CarriesItsDate
    BY <2>3 DEF LoneWriter, CarriesItsDate, NoneRecords
  <2>6. RowNotEarly
    BY <2>1, <2>3 DEF RowNotEarly, Open, InHand
  <2>7. QED
    BY <2>2, <2>4, <2>5, <2>6 DEF ScheduleInv, Together
<1>2. ScheduleInv =>
        \A t \in Caller :
          SaveBlog(t) /\ ~apart /\ blog.date # NoDate /\ ~(\E e \in Edit : edit[e].at = "record")
              => blog.date <= today
  BY DEF ScheduleInv, Together, RowNotEarly, NoneRecords, Recording, InHand, Holding, Working,
         Phase, Saving, SaveBlog
<1>3. QED
  BY <1>1, <1>2, ScheduleStep, PTL DEF Spec, NeverBeforeSchedule
=============================================================================
