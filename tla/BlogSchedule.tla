---------------------------- MODULE BlogSchedule ----------------------------
(* Scheduled publishing of one blog post. Admin requests write the post and    *)
(* then, in a second write, its one row of the publish outbox; every worker    *)
(* process runs a poller whose tick takes a Redis lock with a time to live,    *)
(* claims the due row, publishes the post and writes the outcome; a starting   *)
(* worker records all scheduled posts again. A daily job moves a row that was  *)
(* tried often to dead_letter and an admin can replay it. Dates are days.      *)
EXTENDS Integers

CONSTANTS Edit,         \* bound: requests on the post, each made at most once
          Creator,      \* the one that creates it
          Caller,       \* bound: ticks and replays under way, in all processes
          NoPoller,     \* the lock is free
          LastDay,      \* bound: days
          MaxAttempts,  \* MAX_ATTEMPTS
          MinStuck,     \* OUTBOX_DLQ_MIN_ATTEMPTS
          MaxFaults     \* bound: replays, ticks cut short and failed writes of the row

ASSUME PollerAssumption == NoPoller \notin Caller
ASSUME BlogBoundAssumption ==
    /\ LastDay \in Nat /\ MaxAttempts \in Nat \ {0} /\ MinStuck \in Nat \ {0}
    /\ MaxFaults \in Nat

VARIABLES
    today,
    blog,      \* the post: state ("none" before it is created), date
    row,       \* its BlogPublishOutbox row: status ("absent"), due, attempts
    edit,      \* request: at, and what it is about to write
    lock,      \* poller:lock:blog-publish, NoPoller when absent
    tick,      \* caller: at, the attempts it claimed
    start,     \* backfill of a worker's start: at, the date it has read
    found,     \* the dead-letter job has read the row and not yet written it
    faults,
    ousted,    \* history: the row was replayed while a caller still had it
    apart      \* history: two writers met, a write of the row failed, or the
               \* row of a post dated in the future was replayed

dead == <<found, ousted>>
vars == <<today, blog, row, edit, lock, tick, start, found, faults, ousted, apart>>

Date == 0..LastDay
NoDate == -1     \* scheduledPublishAt null: no day, so never in the future
AnyDate == Date \union {NoDate}
BlogState == {"none", "draft", "published", "deleted"}
Status == {"absent", "pending", "processing", "completed", "dead_letter"}
EditPhase == {"ready", "write", "record", "done"}
Request0(at) == [at |-> at, date |-> NoDate, publish |-> "same"]
Saving == {"save", "clear"}    \* the post it has read had no date, or one
Phase == {"idle", "claim", "read", "save", "clear", "completed", "failed"}
Idle == [at |-> "idle", attempts |-> 0]

Exists == blog.state \in {"draft", "published"}
Open == row.status = "pending"
Due == Open /\ row.due <= today
Working == {"read", "save", "clear", "completed", "failed"}
Holding(t) == tick[t].at \in Working

TypeOK ==
    /\ today \in Date
    /\ blog \in [state : BlogState, date : AnyDate]
    /\ row \in [status : Status, due : AnyDate, attempts : Nat]
    /\ edit \in [Edit -> [at : EditPhase, date : AnyDate, publish : {"yes", "no", "same"}]]
    /\ lock \in Caller \union {NoPoller}
    /\ tick \in [Caller -> [at : Phase, attempts : Nat]]
    /\ start \in [at : {"ready", "record", "done"}, date : AnyDate]
    /\ found \in BOOLEAN /\ ousted \in BOOLEAN /\ apart \in BOOLEAN
    /\ faults \in 0..MaxFaults

Init ==
    /\ today = 0
    /\ blog = [state |-> "none", date |-> NoDate]
    /\ row = [status |-> "absent", due |-> NoDate, attempts |-> 0]
    /\ edit = [e \in Edit |-> Request0("ready")]
    /\ lock = NoPoller
    /\ tick = [t \in Caller |-> Idle]
    /\ start = [at |-> "done", date |-> NoDate]
    /\ found = FALSE
    /\ faults = 0
    /\ ousted = FALSE /\ apart = FALSE

(* recordBlogPublishOutbox: the upsert sets the dates and leaves the status    *)
(* and the attempts of a row that is there.                                    *)
RecordKeepingDate(d) ==
    row' = IF row.status = "absent"
           THEN [status |-> "pending", due |-> d, attempts |-> 0]
           ELSE row
RecordBlogPublishOutbox(d) ==
    row' = IF row.status = "absent"
           THEN [status |-> "pending", due |-> d, attempts |-> 0]
           ELSE [row EXCEPT !.due = d]

CancelBlogPublishOutbox ==
    row' = [row EXCEPT !.status = IF @ = "pending" THEN "completed" ELSE @]

(* Another request or the backfill is between its read or write of the post    *)
(* and its write of the row, or a tick or a replay is publishing the post.     *)
InHand == \E t \in Caller : Holding(t)
Meets(e) ==
    \/ \E f \in Edit \ {e} : edit[f].at = "record"
    \/ start.at = "record"
    \/ InHand

----------------------------------------------------------------------------
(* The requests. `scheduled > Date.now()` is evaluated for the post before the *)
(* first write and once more for the row after it.                             *)
Wants(d, p) == [at |-> "record", date |-> d, publish |-> IF d > today THEN "no" ELSE p]

CreateBlog(e) ==
    /\ e = Creator /\ edit[e].at = "ready"
    /\ blog.state = "none"
    /\ \E d \in AnyDate, p \in {"yes", "no"} :
         /\ edit' = [edit EXCEPT ![e] = Wants(d, p)]
         /\ blog' = [state |-> IF edit'[e].publish = "yes" THEN "published" ELSE "draft",
                     date |-> d]
    /\ UNCHANGED <<today, row, lock, tick, start, dead, faults, apart>>

(* findById and what is computed from it: the date and the flag of the body,   *)
(* the date that was read if the body has none.                                *)
ReadForUpdate(e) ==
    /\ edit[e].at = "ready"
    /\ Exists
    /\ \E d \in AnyDate, p \in {"yes", "no", "same"} :
         edit' = [edit EXCEPT ![e] = [Wants(d, p) EXCEPT !.at = "write"]]
    /\ UNCHANGED <<today, blog, row, lock, tick, start, dead, faults, apart>>

(* findByIdAndUpdate; a post deleted meanwhile is not found and nothing follows. *)
UpdateBlog(e) ==
    /\ edit[e].at = "write"
    /\ edit' = IF Exists THEN [edit EXCEPT ![e].at = "record"]
                         ELSE [edit EXCEPT ![e] = Request0("done")]
    /\ IF Exists
       THEN /\ blog' = [state |-> IF edit[e].publish = "yes" THEN "published"
                                  ELSE IF edit[e].publish = "no" THEN "draft" ELSE blog.state,
                        date |-> IF edit[e].publish = "yes" THEN NoDate ELSE edit[e].date]
            /\ apart' = (apart \/ Meets(e))
       ELSE UNCHANGED <<blog, apart>>
    /\ UNCHANGED <<today, row, lock, tick, start, dead, faults>>

(* The second write of createBlog and updateBlog.                              *)
WriteRow(e) ==
    /\ edit[e].at = "record"
    /\ edit' = [edit EXCEPT ![e] = Request0("done")]
    /\ \/ /\ edit[e].date > today
          /\ RecordBlogPublishOutbox(edit[e].date)
       \/ /\ edit[e].date <= today /\ edit[e].publish = "yes"
          /\ CancelBlogPublishOutbox
       \/ /\ edit[e].date <= today /\ edit[e].publish # "yes"
          /\ UNCHANGED row
    /\ apart' = (apart \/ Meets(e))
    /\ UNCHANGED <<today, blog, lock, tick, start, dead, faults>>

(* The upsert fails: it is logged and the request answers as if it had not.    *)
RowNotWritten(e) ==
    /\ edit[e].at = "record" /\ edit[e].date > today
    /\ faults < MaxFaults
    /\ edit' = [edit EXCEPT ![e] = Request0("done")]
    /\ faults' = faults + 1
    /\ apart' = TRUE
    /\ UNCHANGED <<today, blog, row, lock, tick, start, dead>>

DeleteBlog(e) ==
    /\ edit[e].at = "ready"
    /\ Exists
    /\ edit' = [edit EXCEPT ![e] = Request0("done")]
    /\ blog' = [state |-> "deleted", date |-> NoDate]
    /\ UNCHANGED <<today, row, lock, tick, start, dead, faults, apart>>

(* backfillBlogPublishOutbox at the start of a worker.                         *)
FindScheduled ==
    /\ start.at = "ready"
    /\ start' = IF blog.state = "draft" /\ blog.date # NoDate
                THEN [at |-> "record", date |-> blog.date]
                ELSE [start EXCEPT !.at = "done"]
    /\ apart' = (apart \/ (start'.at = "record" /\ \E e \in Edit : edit[e].at = "record"))
    /\ UNCHANGED <<today, blog, row, edit, lock, tick, dead, faults>>

Backfill ==
    /\ start.at = "record"
    /\ start' = [at |-> "done", date |-> NoDate]
    /\ RecordBlogPublishOutbox(start.date)
    /\ apart' = (apart \/ InHand \/ \E e \in Edit : edit[e].at = "record")
    /\ UNCHANGED <<today, blog, edit, lock, tick, dead, faults>>

----------------------------------------------------------------------------
(* The poller: withPollerLock around processPendingBlogPublishBatch.           *)
At(t, p) == tick' = [tick EXCEPT ![t].at = p]

(* SET NX and the find that follows it, which looks at rows no claim has      *)
(* spent; with none the tick deletes the lock again.                           *)
Acquire(t) ==
    /\ tick[t].at = "idle"
    /\ lock = NoPoller
    /\ Due /\ row.attempts < MaxAttempts
    /\ lock' = t
    /\ At(t, "claim")
    /\ UNCHANGED <<today, blog, row, edit, start, dead, faults, apart>>

(* A tick ends: it deletes the lock if it reads its own token there. Between   *)
(* the two calls the lock can end and be taken again, and the delete then      *)
(* frees another tick's: as far as the others can tell, that one expired.      *)
End(t) ==
    /\ tick' = [tick EXCEPT ![t] = Idle]
    /\ lock' = IF lock = t THEN NoPoller ELSE lock

ClaimWhatWasFound(t) ==
    /\ tick[t].at = "claim"
    /\ row' = [row EXCEPT !.status = "processing", !.attempts = @ + 1]
    /\ tick' = [tick EXCEPT ![t].at = "read", ![t].attempts = row.attempts + 1]
    /\ UNCHANGED <<today, blog, edit, lock, start, dead, faults, apart>>
Claim(t) ==
    /\ tick[t].at = "claim"
    /\ IF Due
       THEN /\ row' = [row EXCEPT !.status = "processing", !.attempts = @ + 1]
            /\ tick' = [tick EXCEPT ![t].at = "read", ![t].attempts = row.attempts + 1]
            /\ UNCHANGED lock
       ELSE /\ End(t)
            /\ UNCHANGED row
    /\ UNCHANGED <<today, blog, edit, start, dead, faults, apart>>

(* publishBlogFromOutbox; it throws for a post that is gone, and when the      *)
(* database does.                                                              *)
ReadBlog(t) ==
    /\ tick[t].at = "read"
    /\ \/ /\ Exists
          /\ At(t, IF blog.state = "published" THEN "completed"
                   ELSE IF blog.date = NoDate THEN "save" ELSE "clear")
       \/ At(t, "failed")
    /\ UNCHANGED <<today, blog, row, edit, lock, start, dead, faults, apart>>

(* blog.save writes the paths it changed: the date only if it had read one.    *)
(* The hook that announces the post may throw after it.                        *)
SaveBlog(t) ==
    /\ tick[t].at \in Saving
    /\ Exists
    /\ blog' = [state |-> "published",
                date |-> IF tick[t].at = "clear" THEN NoDate ELSE blog.date]
    /\ At(t, "completed") \/ At(t, "failed")
    /\ UNCHANGED <<today, row, edit, lock, start, dead, faults, apart>>

SaveFails(t) ==
    /\ tick[t].at \in Saving
    /\ At(t, "failed")
    /\ UNCHANGED <<today, blog, row, edit, lock, start, dead, faults, apart>>

Complete(t) ==
    /\ tick[t].at = "completed"
    /\ row' = [row EXCEPT !.status = "completed"]
    /\ End(t)
    /\ UNCHANGED <<today, blog, edit, start, dead, faults, apart>>

(* The back-off is at most two minutes: it ends today or tomorrow.             *)
Fail(t) ==
    /\ tick[t].at = "failed"
    /\ \E d \in {today, IF today < LastDay THEN today + 1 ELSE today} :
         row' = [row EXCEPT
             !.status = IF tick[t].attempts >= MaxAttempts THEN "dead_letter" ELSE "pending",
             !.due = d]
    /\ End(t)
    /\ UNCHANGED <<today, blog, edit, start, dead, faults, apart>>

(* The time to live ends, whether or not the tick has: the work of a tick has  *)
(* no limit of its own.                                                        *)
NeverExpires == FALSE /\ UNCHANGED vars
Expire ==
    /\ lock # NoPoller
    /\ lock' = NoPoller
    /\ UNCHANGED <<today, blog, row, edit, tick, start, dead, faults, apart>>

(* The process dies, or the write of the outcome fails and its caller goes on. *)
(* A worker starts again, with the backfill, and may have died in the          *)
(* dead-letter job.                                                            *)
Stop(t) ==
    /\ faults < MaxFaults
    /\ faults' = faults + 1
    /\ tick' = [tick EXCEPT ![t] = Idle]
    /\ \/ UNCHANGED <<start, found>>
       \/ /\ start' = IF start.at = "done" THEN [start EXCEPT !.at = "ready"] ELSE start
          /\ found' \in {found, FALSE}
    /\ UNCHANGED <<today, blog, row, edit, lock, ousted, apart>>

NextDay ==
    /\ today < LastDay
    /\ today' = today + 1
    /\ UNCHANGED <<blog, row, edit, lock, tick, start, dead, faults, apart>>

----------------------------------------------------------------------------
(* The dead-letter job and the admin's replay.                                 *)
Stuck == row.status \in {"pending", "processing"} /\ row.attempts >= MinStuck

FindStuck ==
    /\ ~found /\ Stuck
    /\ found' = TRUE
    /\ UNCHANGED <<today, blog, row, edit, lock, tick, start, faults, ousted, apart>>

(* The write is by _id, whatever the row has become.                           *)
MarkDead ==
    /\ found
    /\ found' = FALSE
    /\ row' = [row EXCEPT !.status = "dead_letter"]
    /\ UNCHANGED <<today, blog, edit, lock, tick, start, faults, ousted, apart>>

(* replayOutboxEntry makes the row due now, whatever date it or the post has,  *)
(* and dispatches it without the poller's lock. The call is a new one: not the *)
(* one whose token a dead tick left in the lock.                               *)
Replay(t) ==
    /\ row.status = "dead_letter"
    /\ faults < MaxFaults /\ tick[t].at = "idle" /\ lock # t
    /\ row' = [status |-> "pending", due |-> today, attempts |-> 0]
    /\ At(t, "claim")
    /\ faults' = faults + 1
    /\ ousted' = (ousted \/ InHand)
    /\ apart' = (apart \/ blog.date > today)
    /\ UNCHANGED <<today, blog, edit, lock, start, found>>

Request(e) ==
    CreateBlog(e) \/ ReadForUpdate(e) \/ UpdateBlog(e) \/ WriteRow(e) \/ RowNotWritten(e)
    \/ DeleteBlog(e)
Dispatch(t) ==
    Claim(t) \/ ReadBlog(t) \/ SaveBlog(t) \/ SaveFails(t) \/ Complete(t) \/ Fail(t)
PollerStep(t) == Acquire(t) \/ Dispatch(t)

Next ==
    \/ \E e \in Edit : Request(e)
    \/ \E t \in Caller : PollerStep(t) \/ Replay(t) \/ Stop(t)
    \/ FindStuck \/ MarkDead
    \/ FindScheduled \/ Backfill \/ Expire \/ NextDay

Spec == Init /\ [][Next]_vars

(* A dispatch that has begun goes on, each worker's timers begin another and   *)
(* the dead-letter job; Redis ends a lock and the clock runs. No request need  *)
(* be made or go on, no admin need replay, and nothing keeps a worker from     *)
(* stopping.                                                                   *)
FairSpec ==
    /\ Spec
    /\ \A t \in Caller : WF_vars(PollerStep(t))
    /\ WF_vars(FindStuck) /\ WF_vars(MarkDead)
    /\ WF_vars(Expire) /\ WF_vars(NextDay)

----------------------------------------------------------------------------
(* The row is worked on by one caller at a time, although the lock can end     *)
(* under a tick that still runs, a late delete can free another tick's lock,   *)
(* and the dead-letter job takes the row from a tick that is slow. Only a      *)
(* replay of a row so taken lets a second caller in.                           *)
ClaimedOnce ==
    ~ousted => \A t, u \in Caller : Holding(t) /\ Holding(u) => t = u

\* Why: nobody but the caller that holds the row and a replay make it pending.
HeldIsNotOpen ==
    ~ousted => \A t \in Caller : Holding(t) => row.status \in {"processing", "dead_letter"}
ClaimInv == TypeOK /\ HeldIsNotOpen /\ ClaimedOnce

(* No tick and no replay publishes a post that has a date before that date, as *)
(* long as no two writers of the post met, no write of its row was lost and no *)
(* admin replayed the row before the date: retries, new dates, stopped workers,*)
(* backfills and the dead-letter job do not bring a date forward. A post whose *)
(* date was cleared has none: its row stays, and the poller publishes it.      *)
NeverBeforeSchedule ==
    [][\A t \in Caller :
         SaveBlog(t) /\ ~apart /\ blog.date # NoDate /\ ~(\E e \in Edit : edit[e].at = "record")
             => blog.date <= today]_vars

Stranded == row.status = "processing" /\ ~InHand

(* A pending row of a post ends, by itself or by a request: the post is        *)
(* published, the row is closed, the post is deleted, or the row is left in    *)
(* processing by a caller that stopped. A lock its tick never deleted, failed  *)
(* attempts and dates set again do not hold it up for ever.                    *)
PendingIsServed ==
    Open ~> (blog.state \in {"published", "deleted"}
             \/ row.status \in {"completed", "dead_letter"} \/ Stranded)

(* blogPublishOutboxService.ts:34, "Record a durable publish intent when a     *)
(* blog is scheduled": once it is recorded, the row is one that the poller     *)
(* will take or has taken.                                                     *)
IntentIsDurable ==
    [][\A e \in Edit :
         WriteRow(e) /\ edit[e].date > today => row'.status \in {"pending", "processing"}]_vars
=============================================================================
