------------------------------- MODULE Outbox -------------------------------
(* The transactional outboxes of the backend (order, cart, inventory, coupon,  *)
(* gifting and push events). Six services repeat one protocol: an              *)
(* event is a row keyed by its dedupeKey; a dispatcher claims a due row with a *)
(* findOneAndUpdate, runs the side effect and writes the outcome by _id. The   *)
(* poller retries, a daily job moves rows that failed too often to dead_letter *)
(* and an admin can replay those. Dispatchers run in the API process (right    *)
(* after the event is recorded, or for a replay) and in the worker (poller).   *)
EXTENDS Integers, FiniteSets

CONSTANTS Row,          \* outbox rows, one per dedupeKey
          OrderRow,     \* those of OrderEventOutbox
          CouponRow,    \* those of CouponBroadcastOutbox
          GiftingRow,   \* those of GiftingEventOutbox
          Dispatcher,   \* bound: dispatch calls in flight
          NoRow,        \* no row
          MaxAttempts,  \* MAX_ATTEMPTS: 8 for order and push, 6 for the others
          MinStuck,     \* OUTBOX_DLQ_MIN_ATTEMPTS, default 5
          MaxReplays,   \* bound: admin replays
          MaxFaults     \* bound: processes that die and calls that throw

ASSUME RowAssumption ==
    OrderRow \union CouponRow \union GiftingRow \subseteq Row /\ NoRow \notin Row
ASSUME BoundAssumption ==
    /\ MaxAttempts \in Nat \ {0} /\ MinStuck \in Nat \ {0}
    /\ MaxReplays \in Nat /\ MaxFaults \in Nat

VARIABLES
    status,    \* row: status, "absent" before the event
    attempts,  \* row: attempts
    due,       \* row: nextAttemptAt <= now
    called,    \* row: a call of its side effect came back (history)
    phase,     \* dispatcher: where its call is
    target,    \* dispatcher: the row it works on
    tries,     \* dispatcher: claimed.attempts, as read by the claim
    found,     \* ids the dead-letter job has read and not yet written
    replays,
    faults,
    cut        \* rows whose dispatch ended between claim and outcome (history)

rows == <<status, attempts, due, called>>
calls == <<phase, target, tries>>
bounds == <<replays, faults, cut>>
vars == <<status, attempts, due, called, phase, target, tries, found, replays, faults, cut>>

Status == {"pending", "processing", "completed", "dead_letter"}
Phase == {"idle", "scheduled", "claimed", "returned"}

Init ==
    /\ status = [r \in Row |-> "absent"]
    /\ attempts = [r \in Row |-> 0]
    /\ due = [r \in Row |-> FALSE]
    /\ called = [r \in Row |-> FALSE]
    /\ phase = [d \in Dispatcher |-> "idle"]
    /\ target = [d \in Dispatcher |-> NoRow]
    /\ tries = [d \in Dispatcher |-> 0]
    /\ found = {}
    /\ replays = 0
    /\ faults = 0
    /\ cut = {}

(* `redisOperational` when the modules are imported, and so whether            *)
(* orderQueue.ts, emailQueue.ts and pushQueue.ts make their queues: index.ts   *)
(* and worker.ts import them before they call bootstrapRedis, and nothing      *)
(* makes a queue later.                                                        *)
redisOperationalAtImport == FALSE
queuesMade == redisOperationalAtImport

(* Mutant: the limit is tested after the attempt that passes it.               *)
nextStatusOffByOne(n) == IF n > MaxAttempts THEN "dead_letter" ELSE "pending"

nextOutboxStatusAfterFailure(n) == IF n >= MaxAttempts THEN "dead_letter" ELSE "pending"

Schedule(d, r) ==
    /\ phase[d] = "idle"
    /\ phase' = [phase EXCEPT ![d] = "scheduled"]
    /\ target' = [target EXCEPT ![d] = r]
    /\ UNCHANGED tries

Finish(d) ==
    /\ phase' = [phase EXCEPT ![d] = "idle"]
    /\ target' = [target EXCEPT ![d] = NoRow]
    /\ tries' = [tries EXCEPT ![d] = 0]

(* The event is upserted by its dedupeKey ($setOnInsert) and, unless it was    *)
(* completed before, a dispatch is scheduled without waiting for it.           *)
Record(d, r) ==
    /\ status[r] # "completed"
    /\ IF status[r] = "absent"
       THEN /\ status' = [status EXCEPT ![r] = "pending"]
            /\ due' = [due EXCEPT ![r] = TRUE]
       ELSE UNCHANGED <<status, due>>
    /\ Schedule(d, r)
    /\ UNCHANGED <<attempts, called, found, bounds>>

(* The poller's batch: rows pending, due and below the limit.                  *)
Poll(d, r) ==
    /\ status[r] = "pending" /\ due[r] /\ attempts[r] < MaxAttempts
    /\ Schedule(d, r)
    /\ UNCHANGED <<rows, found, bounds>>

(* Mutant: a row another dispatcher is working on can be claimed.              *)
ClaimableTwice(r) == status[r] \in {"pending", "processing"} /\ due[r]

Claimable(r) == status[r] = "pending" /\ due[r]

(* One findOneAndUpdate: the row becomes this dispatcher's, or the call ends.  *)
Claim(d) ==
    /\ phase[d] = "scheduled"
    /\ LET r == target[d] IN
       IF Claimable(r)
       THEN /\ status' = [status EXCEPT ![r] = "processing"]
            /\ attempts' = [attempts EXCEPT ![r] = @ + 1]
            /\ phase' = [phase EXCEPT ![d] = "claimed"]
            /\ tries' = [tries EXCEPT ![d] = attempts[r] + 1]
            /\ UNCHANGED target
       ELSE Finish(d) /\ UNCHANGED <<status, attempts>>
    /\ UNCHANGED <<due, called, found, bounds>>

(* The side effect's call comes back. That it did what it is for the row never *)
(* learns: enqueueOrderEvent without a queue only logs, the mails of a coupon  *)
(* without one are not awaited, and invalidatePdpForProductId,                 *)
(* scheduleInventorySummaryInvalidation, notifyAdmins, notifyUser,             *)
(* enqueueEmail, enqueuePush and recordCartMetric catch what goes wrong.       *)
SideEffect(d) ==
    /\ phase[d] = "claimed"
    /\ called' = [called EXCEPT ![target[d]] = TRUE]
    /\ phase' = [phase EXCEPT ![d] = "returned"]
    /\ UNCHANGED <<status, attempts, due, target, tries, found, bounds>>

(* The side effects that can throw: those that read the users first, to write  *)
(* to all of them or to the admins, and the queue.                             *)
Throws(r) == r \in CouponRow \union GiftingRow \/ (r \in OrderRow /\ queuesMade)

(* The outcome is written by _id alone, whatever the row has become.           *)
Complete(d) ==
    /\ phase[d] = "returned"
    /\ status' = [status EXCEPT ![target[d]] = "completed"]
    /\ Finish(d)
    /\ UNCHANGED <<attempts, due, called, found, bounds>>

(* The side effect or the completing update throws.                            *)
Throw(d) ==
    \/ phase[d] = "claimed" /\ Throws(target[d])
    \/ phase[d] = "returned"

(* Mutant: the row is completed in a `finally`.                                *)
FailCompletes(d) ==
    /\ Throw(d)
    /\ status' = [status EXCEPT ![target[d]] = "completed"]
    /\ Finish(d)
    /\ UNCHANGED <<attempts, due, called, found, bounds>>

(* Mutant: the error is logged and the row left as it is.                      *)
FailLogged(d) ==
    /\ Throw(d)
    /\ Finish(d)
    /\ UNCHANGED <<rows, found, bounds>>

(* The catch block: nextAttemptAt moves ahead.                                 *)
Fail(d) ==
    /\ Throw(d)
    /\ status' = [status EXCEPT ![target[d]] = nextOutboxStatusAfterFailure(tries[d])]
    /\ due' = [due EXCEPT ![target[d]] = FALSE]
    /\ Finish(d)
    /\ UNCHANGED <<attempts, called, found, bounds>>

(* The exponential backoff has passed.                                         *)
BackoffOver(r) ==
    /\ status[r] # "absent" /\ ~due[r]
    /\ due' = [due EXCEPT ![r] = TRUE]
    /\ UNCHANGED <<status, attempts, called, calls, found, bounds>>

-----------------------------------------------------------------------------
(* The dead-letter job and the admin's replay                                  *)

Stuck(r) == status[r] \in {"pending", "processing"} /\ attempts[r] >= MinStuck

FindStuck ==
    /\ found = {}
    /\ \E r \in Row : Stuck(r)
    /\ found' = {r \in Row : Stuck(r)}
    /\ UNCHANGED <<rows, calls, bounds>>

(* updateMany by the ids read before, whatever the rows have become.           *)
MarkDead ==
    /\ found # {}
    /\ status' = [r \in Row |-> IF r \in found THEN "dead_letter" ELSE status[r]]
    /\ found' = {}
    /\ UNCHANGED <<attempts, due, called, calls, bounds>>

Replay(d, r) ==
    /\ status[r] = "dead_letter"
    /\ replays < MaxReplays
    /\ status' = [status EXCEPT ![r] = "pending"]
    /\ attempts' = [attempts EXCEPT ![r] = 0]
    /\ due' = [due EXCEPT ![r] = TRUE]
    /\ replays' = replays + 1
    /\ Schedule(d, r)
    /\ UNCHANGED <<called, found, faults, cut>>

Fault == faults < MaxFaults /\ faults' = faults + 1

(* A dispatch ends where it is: its process dies, the answer to its claim is   *)
(* lost, or the update of the outcome in the catch block throws too. What      *)
(* dispatchOutboxById throws its callers only log, and nobody has the row.     *)
CutShort(d) ==
    /\ phase[d] # "idle"
    /\ Fault
    /\ cut' = IF phase[d] = "scheduled" THEN cut ELSE cut \union {target[d]}
    /\ Finish(d)
    /\ UNCHANGED <<rows, found, replays>>

(* The worker dies with the dead-letter job's ids.                             *)
HandlerCrash ==
    /\ found # {}
    /\ Fault
    /\ found' = {}
    /\ UNCHANGED <<rows, calls, replays, cut>>

Settle(d) == Claim(d) \/ SideEffect(d) \/ Complete(d) \/ Fail(d)

Next ==
    \/ \E d \in Dispatcher, r \in Row : Record(d, r) \/ Poll(d, r) \/ Replay(d, r)
    \/ \E d \in Dispatcher : Settle(d) \/ CutShort(d)
    \/ \E r \in Row : BackoffOver(r)
    \/ FindStuck \/ MarkDead \/ HandlerCrash

Spec == Init /\ [][Next]_vars

(* A live process carries every await through, clocks advance, the poller and  *)
(* the dead-letter job run on their timers. Strong fairness for the poller: a  *)
(* row waits for a free call only because the model bounds the calls.          *)
FairSpec ==
    /\ Spec
    /\ \A d \in Dispatcher : WF_vars(Settle(d))
    /\ \A r \in Row : SF_vars(\E d \in Dispatcher : Poll(d, r)) /\ WF_vars(BackoffOver(r))
    /\ WF_vars(FindStuck) /\ WF_vars(MarkDead)

-----------------------------------------------------------------------------

TypeOK ==
    /\ status \in [Row -> Status \cup {"absent"}]
    /\ attempts \in [Row -> Nat]
    /\ due \in [Row -> BOOLEAN]
    /\ called \in [Row -> BOOLEAN]
    /\ phase \in [Dispatcher -> Phase]
    /\ target \in [Dispatcher -> Row \cup {NoRow}]
    /\ tries \in [Dispatcher -> Nat]
    /\ found \subseteq Row
    /\ replays \in 0..MaxReplays /\ faults \in 0..MaxFaults /\ cut \subseteq Row
    /\ \A d \in Dispatcher : phase[d] # "idle" => target[d] \in Row

Working(d, r) == target[d] = r /\ phase[d] \in {"claimed", "returned"}

(* No interleaving of retries, late outcomes, the dead-letter job and replays  *)
(* drops an event: a row in processing is in the hands of a live dispatcher    *)
(* unless its own dispatch was cut short, and a row is completed only after    *)
(* its side effect was called and came back.                                   *)
EventNeverForgotten ==
    \A r \in Row :
        /\ status[r] = "processing" => r \in cut \/ \E d \in Dispatcher : Working(d, r)
        /\ status[r] = "completed" => called[r]

(* Nobody but an admin's replay can get a second dispatcher to work on a row   *)
(* that one is already working on.                                             *)
SingleDispatch ==
    replays = 0 => \A r \in Row, d, e \in Dispatcher :
        Working(d, r) /\ Working(e, r) => d = e

(* No row is attempted more often than its service allows: the stale write of  *)
(* an outcome never puts a row back that has used up its attempts.             *)
AttemptsBounded == replays = 0 => \A r \in Row : attempts[r] <= MaxAttempts

(* A row left in processing below the dead-letter job's limit.                 *)
Abandoned(r) ==
    /\ status[r] = "processing" /\ attempts[r] < MinStuck
    /\ \A d \in Dispatcher : ~Working(d, r)

(* A pending event is completed or set aside for an admin in the end; only a   *)
(* row whose own dispatch was cut short may be abandoned.                      *)
EventSettles ==
    \A r \in Row : status[r] = "pending" ~>
        (status[r] \in {"completed", "dead_letter"} \/ (r \in cut /\ Abandoned(r)))
=============================================================================
