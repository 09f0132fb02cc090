--------------------------- MODULE Notifications ---------------------------
(***************************************************************************)
(* The notification outbox (src/modules/notifications/service.ts): domain   *)
(* services schedule a notification under an idempotency key, a worker      *)
(* delivers the pending emails, an administrator retries the failed ones.   *)
(*                                                                         *)
(* Every statement is one step and none is in a transaction.  A worker is   *)
(* a run of processNotificationOutbox: scripts/process-notifications.ts,    *)
(* which cron or a sidecar starts again and again, and worker-health.ts.    *)
(* The mail server is external.                                             *)
(*                                                                         *)
(* There is one recipient; an outbox row is named by its idempotency key.   *)
(* Its preferences can be anything at any time.  Every user has an address  *)
(* (a column that cannot be null).  Texts, read marks, audit rows and       *)
(* permissions are left out.                                                *)
(***************************************************************************)
EXTENDS Naturals, FiniteSets

CONSTANTS
    Keys,               \* idempotency keys
    Required,           \* those of a category that cannot be disabled
    Services, Workers, Admins,
    BatchLimit,         \* the limit of processNotificationOutbox
    MaxAttempts,        \* MAX_OUTBOX_ATTEMPTS
    None,
    MaxRetries,         \* bound: retries by hand
    MaxScheduled        \* bound: in-app rows of one key

Procs == Services \cup Workers \cup Admins

ASSUME RequiredAreKeys == Required \subseteq Keys
ASSUME NoneIsNoKey     == None \notin Keys
ASSUME LimitsPositive  == BatchLimit \in Nat \ {0} /\ MaxAttempts \in Nat \ {0}
ASSUME BoundsAreNumbers == MaxRetries \in Nat /\ MaxScheduled \in Nat

VARIABLES
    emailGate,          \* whether the deployment sends email (EMAIL_PROVIDER)
    status, attempts,   \* notification_outbox
    backingOff,         \* the rows whose availableAt is to come
    inApp,              \* how many in_app_notifications rows each key has
    pc, arg,            \* where each process is, and its locals
    \* History: emails the mail server took, retries by hand begun, rows that a
    \* worker died over, rows that two processes had in hand at once.
    delivered, retries, abandoned, shared

outbox   == <<status, attempts, backingOff>>
callVars == <<pc, arg>>
history  == <<delivered, retries, abandoned, shared>>
vars     == <<emailGate, outbox, inApp, callVars, history>>

OutboxStatus == {"none", "PENDING", "PROCESSING", "SENT", "FAILED"}

Labels ==
    {"idle", "insertOutbox", "insertInApp",
     "claim", "next", "send", "markSent", "markFailed", "retry"}

\* key: the row a process is at; batch: the rows a worker has still to go
\* through; attempts: what it read; shown: whether a service is to show the
\* notification in the recipient's list.
NoArg == [key |-> None, batch |-> {}, attempts |-> 0, shown |-> FALSE]

Init ==
    /\ emailGate \in BOOLEAN
    /\ status     = [k \in Keys |-> "none"]
    /\ attempts   = [k \in Keys |-> 0]
    /\ backingOff = {}
    /\ inApp      = [k \in Keys |-> 0]
    /\ pc  = [p \in Procs |-> "idle"]
    /\ arg = [p \in Procs |-> NoArg]
    /\ delivered = [k \in Keys |-> 0]
    /\ retries   = 0
    /\ abandoned = {}
    /\ shared    = {}

GoTo(p, label, a) ==
    /\ pc'  = [pc  EXCEPT ![p] = label]
    /\ arg' = [arg EXCEPT ![p] = a]

Return(p) == GoTo(p, "idle", NoArg)

SetRow(k, st, n) ==
    /\ status'   = [status   EXCEPT ![k] = st]
    /\ attempts' = [attempts EXCEPT ![k] = n]

-----------------------------------------------------------------------------
(* scheduleNotification *)

AllChannels == {"email", "in_app"}

CannotBeDisabled(k) == k \in Required

\* A category that is required is sent whatever the recipient prefers; no email
\* is queued where none would be delivered.
Channels(k, preferred) ==
    (IF CannotBeDisabled(k) THEN AllChannels ELSE preferred)
        \ (IF emailGate THEN {} ELSE {"email"})

\* A key the outbox has is a duplicate and ends the call.  Otherwise the call
\* reads what the recipient has switched off.
ScheduleNotification(s, k, preferred) ==
    LET channels == Channels(k, preferred) IN
    /\ pc[s] = "idle"
    /\ status[k] = "none"
    /\ inApp[k] < MaxScheduled
    /\ GoTo(s, IF "email" \in channels THEN "insertOutbox" ELSE "insertInApp",
            [NoArg EXCEPT !.key = k, !.shown = "in_app" \in channels])
    /\ UNCHANGED <<emailGate, outbox, inApp, history>>

\* Mutant: ON CONFLICT DO NOTHING, and on to the in-app row.
InsertIgnoringConflict(s) ==
    LET k == arg[s].key IN
    /\ pc[s] = "insertOutbox"
    /\ IF status[k] = "none" THEN SetRow(k, "PENDING", 0) ELSE UNCHANGED <<status, attempts>>
    /\ GoTo(s, "insertInApp", arg[s])
    /\ UNCHANGED <<emailGate, backingOff, inApp, history>>

\* The unique index on the key refuses a second row: the call throws.
InsertOutbox(s) ==
    LET k == arg[s].key IN
    /\ pc[s] = "insertOutbox"
    /\ \/ /\ status[k] # "none"
          /\ Return(s)
          /\ UNCHANGED <<status, attempts>>
       \/ /\ status[k] = "none"
          /\ SetRow(k, "PENDING", 0)
          /\ GoTo(s, "insertInApp", arg[s])
    /\ UNCHANGED <<emailGate, backingOff, inApp, history>>

InsertInApp(s) ==
    LET k == arg[s].key IN
    /\ pc[s] = "insertInApp"
    /\ inApp' = IF arg[s].shown THEN [inApp EXCEPT ![k] = @ + 1] ELSE inApp
    /\ Return(s)
    /\ UNCHANGED <<emailGate, outbox, history>>

-----------------------------------------------------------------------------
(* processNotificationOutbox *)

\* The rows a process has read and is still to write.
InHand(p) ==
    IF pc[p] \in {"idle", "insertOutbox", "insertInApp"}
    THEN {}
    ELSE arg[p].batch \cup ({arg[p].key} \ {None})

InOtherHands(p) == UNION {InHand(q) : q \in Procs \ {p}}

Due == {k \in Keys : status[k] = "PENDING" /\ k \notin backingOff}

Least(m, n) == IF m < n THEN m ELSE n

\* The oldest due rows, up to the limit.
FetchDue(w) ==
    /\ pc[w] = "idle"
    /\ \E batch \in SUBSET Due :
        /\ batch # {}
        /\ Cardinality(batch) = Least(BatchLimit, Cardinality(Due))
        /\ GoTo(w, "claim", [NoArg EXCEPT !.batch = batch])
        /\ shared' = shared \cup (batch \cap InOtherHands(w))
    /\ UNCHANGED <<emailGate, outbox, inApp, delivered, retries, abandoned>>

\* The UPDATE that claims them, WHERE id only.
Claim(w) ==
    /\ pc[w] = "claim"
    /\ status' = [k \in Keys |-> IF k \in arg[w].batch THEN "PROCESSING" ELSE status[k]]
    /\ GoTo(w, "next", arg[w])
    /\ UNCHANGED <<emailGate, attempts, backingOff, inApp, history>>

\* The loop: a claimed row is read again before it is sent.
NextRow(w) ==
    /\ pc[w] = "next"
    /\ \/ arg[w].batch = {} /\ Return(w)
       \/ \E k \in arg[w].batch :
            GoTo(w, "send",
                 [arg[w] EXCEPT !.key = k, !.batch = @ \ {k}, !.attempts = attempts[k]])
    /\ UNCHANGED <<emailGate, outbox, inApp, history>>

\* External.  The adapter waits for the reply to each SMTP command and looks at
\* none of the codes: a message that the server refuses is as good as sent.  And
\* send() may throw when the server has the message already (at QUIT).
Send(w) ==
    /\ pc[w] = "send"
    /\ \E taken \in BOOLEAN :
        delivered' = IF taken THEN [delivered EXCEPT ![arg[w].key] = @ + 1] ELSE delivered
    /\ \/ GoTo(w, "markSent", arg[w])
       \/ GoTo(w, "markFailed", arg[w])
    /\ UNCHANGED <<emailGate, outbox, inApp, retries, abandoned, shared>>

Loop(w) == GoTo(w, "next", [arg[w] EXCEPT !.key = None, !.attempts = 0])

\* Mutant: SENT leaves the number of attempts alone.
MarkSentUncounted(w) ==
    /\ pc[w] = "markSent"
    /\ \/ SetRow(arg[w].key, "SENT", arg[w].attempts) /\ Loop(w)
       \/ GoTo(w, "markFailed", arg[w]) /\ UNCHANGED <<status, attempts>>
    /\ UNCHANGED <<emailGate, backingOff, inApp, history>>

\* The UPDATE is inside the try: if it fails, the catch treats a delivered
\* message as one that was not.
MarkSent(w) ==
    /\ pc[w] = "markSent"
    /\ \/ SetRow(arg[w].key, "SENT", arg[w].attempts + 1) /\ Loop(w)
       \/ GoTo(w, "markFailed", arg[w]) /\ UNCHANGED <<status, attempts>>
    /\ UNCHANGED <<emailGate, backingOff, inApp, history>>

\* Mutant: one attempt more than the maximum.
GivesUpLate(n) == n > MaxAttempts

GivesUp(n) == n >= MaxAttempts

\* Mutant: a row to be tried again stays claimed.
StayClaimed(n) == IF GivesUp(n) THEN "FAILED" ELSE "PROCESSING"

AfterFailure(n) == IF GivesUp(n) THEN "FAILED" ELSE "PENDING"

MarkFailed(w) ==
    LET k == arg[w].key
        n == arg[w].attempts + 1 IN
    /\ pc[w] = "markFailed"
    /\ SetRow(k, AfterFailure(n), n)
    /\ backingOff' = IF GivesUp(n) THEN backingOff ELSE backingOff \cup {k}
    /\ Loop(w)
    /\ UNCHANGED <<emailGate, inApp, history>>

\* availableAt comes.
BackoffOver(k) ==
    /\ k \in backingOff
    /\ backingOff' = backingOff \ {k}
    /\ UNCHANGED <<emailGate, status, attempts, inApp, callVars, history>>

-----------------------------------------------------------------------------
(* retryFailedNotification *)

\* A row is read and then written, as a worker does: two administrators, or
\* one and a worker that the row was retried for, may have it in hand.
RetryFailedNotification(a, k) ==
    /\ pc[a] = "idle"
    /\ status[k] = "FAILED"
    /\ retries < MaxRetries
    /\ GoTo(a, "retry", [NoArg EXCEPT !.key = k])
    /\ retries' = retries + 1
    /\ shared' = shared \cup ({k} \cap InOtherHands(a))
    /\ UNCHANGED <<emailGate, outbox, inApp, delivered, abandoned>>

\* The UPDATE, WHERE id only.
RetryWrite(a) ==
    LET k == arg[a].key IN
    /\ pc[a] = "retry"
    /\ status' = [status EXCEPT ![k] = "PENDING"]
    /\ backingOff' = backingOff \ {k}
    /\ Return(a)
    /\ UNCHANGED <<emailGate, attempts, inApp, history>>

-----------------------------------------------------------------------------

\* The rows a worker has claimed and not finished with.
Claimed(w) ==
    IF pc[w] \in {"next", "send", "markSent", "markFailed"}
    THEN arg[w].batch \cup ({arg[w].key} \ {None})
    ELSE {}

\* The process dies.  Nothing looks for rows that stay PROCESSING.
Crash(p) ==
    /\ pc[p] # "idle"
    /\ Return(p)
    /\ abandoned' = abandoned \cup Claimed(p)
    /\ UNCHANGED <<emailGate, outbox, inApp, delivered, retries, shared>>

Schedule(s) ==
    \/ \E k \in Keys, preferred \in SUBSET AllChannels :
            ScheduleNotification(s, k, preferred)
    \/ InsertOutbox(s) \/ InsertInApp(s)

Process(w) ==
    FetchDue(w) \/ Claim(w) \/ NextRow(w) \/ Send(w) \/ MarkSent(w) \/ MarkFailed(w)

Retry(a) ==
    (\E k \in Keys : RetryFailedNotification(a, k)) \/ RetryWrite(a)

Next ==
    \/ \E s \in Services : Schedule(s)
    \/ \E w \in Workers : Process(w)
    \/ \E a \in Admins : Retry(a)
    \/ \E p \in Procs : Crash(p)
    \/ \E k \in Keys : BackoffOver(k)

Spec == Init /\ [][Next]_vars

\* The worker is started again and again, each run goes on to its end, they do
\* not all die before they have claimed anything, and time passes.  Nothing
\* else is sure to happen.
Fairness ==
    /\ \A w \in Workers : WF_vars(Process(w)) /\ SF_vars(Claim(w))
    /\ \A k \in Keys : WF_vars(BackoffOver(k))

FairSpec == Spec /\ Fairness

-----------------------------------------------------------------------------
(* Properties *)

TypeOK ==
    /\ emailGate  \in BOOLEAN
    /\ status     \in [Keys -> OutboxStatus]
    /\ attempts   \in [Keys -> Nat]
    /\ \A k \in Keys \ shared : attempts[k] <= MaxAttempts + MaxRetries
    /\ backingOff \subseteq Keys
    /\ inApp      \in [Keys -> Nat]
    /\ pc  \in [Procs -> Labels]
    /\ arg \in [Procs -> [key : Keys \cup {None}, batch : SUBSET Keys,
                          attempts : Nat, shown : BOOLEAN]]
    /\ shared \subseteq Keys

\* No email goes out without being counted as an attempt, but for the one that
\* is being sent or that a worker died over: the limit on attempts limits the
\* copies a recipient gets.  Any number of workers and administrators may be at
\* work; what they do to a row that two of them had in hand at once is not said
\* here (each counts from the number it read).
DeliveriesCounted ==
    \A k \in Keys \ shared :
        delivered[k] <= attempts[k] + (IF status[k] = "PROCESSING" THEN 1 ELSE 0)

\* Where emails are sent, a notification that cannot be switched off appears
\* once in the recipient's list, however many calls schedule it at once: the
\* insert of its outbox row, which the unique index lets through once, comes
\* before.  Where none are, nothing remembers the idempotency key.
RequiredShownOnce == emailGate => \A k \in Required : inApp[k] <= 1

\* A pending email is sent or given up, unless a worker dies over it.
EventuallySettled ==
    \A k \in Keys :
        status[k] = "PENDING" ~> status[k] \in {"SENT", "FAILED"} \/ k \in abandoned

-----------------------------------------------------------------------------
(* What the documents say and the code does not do *)

\* docs/operations/WORKER.md: "Multiple workers are safe: rows are claimed
\* before send."  The claim is an UPDATE that asks for no status: two workers
\* that fetched the same row both claim it, and both send it.
ClaimedByOne ==
    \A v, w \in Workers : v # w => Claimed(v) \cap Claimed(w) = {}
=============================================================================
