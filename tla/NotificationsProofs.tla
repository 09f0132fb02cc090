------------------------ MODULE NotificationsProofs ------------------------
(***************************************************************************)
(* Proofs about the outbox, for any number of keys, services, workers and   *)
(* administrators: a notification that cannot be switched off is shown     *)
(* once (Shown: the insert of its outbox row lets one call through), the    *)
(* attempts at a row are bounded and its deliveries are counted.            *)
(*                                                                         *)
(* The last two are about the rows that no two processes had in hand at     *)
(* once.  Nothing in the code keeps two workers, or two administrators,     *)
(* from one row; Apart says that whoever shares none has its rows to        *)
(* itself, and Turn what it then knows of them from one statement to the    *)
(* next.                                                                   *)
(***************************************************************************)
EXTENDS Notifications, ContentView, TLAPS

Args == [key : Keys \cup {None}, batch : SUBSET Keys, attempts : Nat, shown : BOOLEAN]

AtRow       == {"send", "markSent", "markFailed"}
InLoop      == AtRow \cup {"next"}
WorkerLabel == InLoop \cup {"claim"}
AtKey       == AtRow \cup {"insertOutbox", "insertInApp", "retry"}

TablesOK ==
    /\ emailGate  \in BOOLEAN
    /\ status     \in [Keys -> OutboxStatus]
    /\ attempts   \in [Keys -> Nat]
    /\ backingOff \subseteq Keys
    /\ inApp      \in [Keys -> Nat]
    /\ delivered  \in [Keys -> Nat]
    /\ retries    \in Nat
    /\ shared     \subseteq Keys

LocalsOK(label, a) == label \in AtKey => a.key \in Keys

Shape ==
    /\ TablesOK
    /\ pc  \in [Procs -> Labels]
    /\ arg \in [Procs -> Args]
    /\ \A p \in Procs : LocalsOK(pc[p], arg[p])

-----------------------------------------------------------------------------
(* What the call that is to show a notification, and the table, know *)

Showing(p, k) == pc[p] = "insertInApp" /\ arg[p].key = k

ShownAt(k) ==
    /\ inApp[k] <= 1
    /\ (status[k] = "none" \/ inApp[k] = 1) => \A p \in Procs : ~Showing(p, k)
    /\ status[k] = "none" => inApp[k] = 0
    /\ \A p, q \in Procs : Showing(p, k) /\ Showing(q, k) => p = q

Shown == emailGate => \A k \in Required : ShownAt(k)

-----------------------------------------------------------------------------
(* What a process knows of the rows that it alone has in hand *)

ServiceLabel == {"idle", "insertOutbox", "insertInApp"}

Hand(label, a) == IF label \in ServiceLabel THEN {} ELSE a.batch \cup ({a.key} \ {None})

Apart == \A p, q \in Procs : p # q => InHand(p) \cap InHand(q) \subseteq shared

Knows(label, a) ==
    /\ label = "claim" => \A k \in a.batch \ shared : status[k] = "PENDING"
    /\ label \in InLoop =>
          \A k \in a.batch \ shared : status[k] = "PROCESSING" /\ delivered[k] <= attempts[k]
    /\ label \in AtRow =>
          /\ a.key \notin a.batch
          /\ a.key \notin shared =>
                status[a.key] = "PROCESSING" /\ a.attempts = attempts[a.key]
    /\ label = "send" /\ a.key \notin shared => delivered[a.key] <= attempts[a.key]
    /\ label = "retry" /\ a.key \notin shared =>
          status[a.key] = "FAILED" /\ attempts[a.key] < MaxAttempts + retries

Turn == \A p \in Procs : Knows(pc[p], arg[p])

\* What the attempts of a row in each status are.
Counted(k) ==
    k \notin shared =>
        /\ attempts[k] <= MaxAttempts + retries
        /\ status[k] \in {"PENDING", "PROCESSING"} => attempts[k] < MaxAttempts + retries
        /\ status[k] = "none" => attempts[k] = 0
        /\ delivered[k] <= attempts[k] + (IF status[k] = "PROCESSING" THEN 1 ELSE 0)

Inv ==
    /\ Shape
    /\ Apart
    /\ Turn
    /\ retries <= MaxRetries
    /\ \A k \in Keys : Counted(k)
-----------------------------------------------------------------------------
(* Shape *)

LEMMA NoArgIsArg ==
    NoArg \in Args /\ NoArg.batch = {} /\ "idle" \in Labels /\ LocalsOK("idle", NoArg)
  BY DEF NoArg, Args, Labels, LocalsOK, AtKey, AtRow

LEMMA LocalsTyped ==
    ASSUME Shape, NEW p \in Procs
    PROVE  /\ arg[p] \in Args /\ pc[p] \in Labels
           /\ arg[p].batch \subseteq Keys /\ arg[p].attempts \in Nat /\ arg[p].shown \in BOOLEAN
           /\ pc[p] \in AtKey => arg[p].key \in Keys
  BY DEF Shape, Args, LocalsOK

\* A step that moves one process.
LEMMA Moved ==
    ASSUME Shape, NEW p \in Procs, NEW label \in Labels, NEW a \in Args, GoTo(p, label, a)
    PROVE  /\ pc' \in [Procs -> Labels] /\ arg' \in [Procs -> Args]
           /\ pc'[p] = label /\ arg'[p] = a
           /\ \A q \in Procs : q # p => pc'[q] = pc[q] /\ arg'[q] = arg[q]
  BY DEF GoTo, Shape

LEMMA MoveShape ==
    ASSUME Shape, NEW p \in Procs, NEW label \in Labels, NEW a \in Args, GoTo(p, label, a),
           TablesOK', LocalsOK(label, a)
    PROVE  Shape'
<1>1. ASSUME NEW q \in Procs PROVE LocalsOK(pc'[q], arg'[q])
  BY Moved DEF Shape
<1>2. QED BY <1>1, Moved DEF Shape, LocalsOK

LEMMA KeptTables ==
    ASSUME Shape, UNCHANGED <<emailGate, outbox, inApp>>, delivered' = delivered,
           retries' \in Nat, shared' \subseteq Keys
    PROVE  TablesOK'
  BY DEF Shape, TablesOK, outbox

LEMMA ScheduledArg ==
    ASSUME NEW k \in Keys, NEW f \in BOOLEAN
    PROVE  /\ [NoArg EXCEPT !.key = k, !.shown = f] \in Args
           /\ [NoArg EXCEPT !.key = k, !.shown = f].key = k
           /\ [NoArg EXCEPT !.key = k, !.shown = f].batch = {}
  BY NoArgIsArg DEF Args

\* Where a call to scheduleNotification starts.
ScheduleLabel(channels) == IF "email" \in channels THEN "insertOutbox" ELSE "insertInApp"
ScheduleArg(k, channels) == [NoArg EXCEPT !.key = k, !.shown = "in_app" \in channels]

LEMMA ScheduleTyped ==
    ASSUME NEW k \in Keys, NEW channels
    PROVE  /\ ScheduleArg(k, channels) \in Args
           /\ ScheduleArg(k, channels).key = k
           /\ ScheduleLabel(channels) \in {"insertOutbox", "insertInApp"}
           /\ ScheduleLabel(channels) \in Labels
           /\ LocalsOK(ScheduleLabel(channels), ScheduleArg(k, channels))
<1>1. ("in_app" \in channels) \in BOOLEAN
  OBVIOUS
<1>2. ScheduleArg(k, channels) \in Args /\ ScheduleArg(k, channels).key = k
  BY <1>1, ScheduledArg, ZenonT(30) DEF ScheduleArg
<1>3. ScheduleLabel(channels) \in {"insertOutbox", "insertInApp"}
  BY DEF ScheduleLabel
<1>4. QED BY <1>2, <1>3 DEF Labels, LocalsOK

LEMMA ServiceShape ==
    ASSUME Shape, NEW s \in Services, Schedule(s)
    PROVE  Shape'
<1>0. s \in Procs
  BY DEF Procs
<1>1. ASSUME NEW k \in Keys, NEW preferred \in SUBSET AllChannels,
             ScheduleNotification(s, k, preferred)
      PROVE  Shape'
  <2> DEFINE channels == Channels(k, preferred)
  <2>1. GoTo(s, ScheduleLabel(channels), ScheduleArg(k, channels)) /\ TablesOK'
    BY <1>1, KeptTables
    DEF ScheduleNotification, ScheduleLabel, ScheduleArg, history, Shape, TablesOK
  <2>2. QED BY <1>0, <2>1, ScheduleTyped, MoveShape
<1>2. CASE InsertOutbox(s)
  <2>1. /\ arg[s].key \in Keys /\ arg[s] \in Args /\ pc[s] = "insertOutbox"
        /\ LocalsOK("insertInApp", arg[s]) /\ "insertInApp" \in Labels
    BY <1>0, <1>2, LocalsTyped DEF InsertOutbox, AtKey, LocalsOK, Labels
  <2>2. TablesOK'
    BY <2>1, <1>2 DEF Shape, TablesOK, InsertOutbox, SetRow, OutboxStatus, history
  <2>3. QED BY <1>0, <1>2, <2>1, <2>2, NoArgIsArg, MoveShape DEF InsertOutbox, Return
<1>3. CASE InsertInApp(s)
  <2>1. arg[s].key \in Keys
    BY <1>0, <1>3, LocalsTyped DEF InsertInApp, AtKey
  <2>2. TablesOK'
    BY <2>1, <1>3 DEF Shape, TablesOK, InsertInApp, outbox, history
  <2>3. QED BY <1>0, <1>3, <2>2, NoArgIsArg, MoveShape DEF InsertInApp, Return
<1>4. QED BY <1>1, <1>2, <1>3 DEF Schedule

\* What a worker carries from one row to the next.
LEMMA WorkerArgs ==
    ASSUME NEW a \in Args, NEW k \in Keys
    PROVE  /\ [a EXCEPT !.key = None, !.attempts = 0] \in Args
           /\ [a EXCEPT !.key = None, !.attempts = 0].batch = a.batch
           /\ [a EXCEPT !.key = k, !.batch = a.batch \ {k}, !.attempts = attempts[k]].key = k
           /\ [a EXCEPT !.key = k, !.batch = a.batch \ {k}, !.attempts = attempts[k]].batch
                = a.batch \ {k}
           /\ [a EXCEPT !.key = k, !.batch = a.batch \ {k}, !.attempts = attempts[k]].attempts
                = attempts[k]
           /\ attempts[k] \in Nat =>
                [a EXCEPT !.key = k, !.batch = a.batch \ {k}, !.attempts = attempts[k]] \in Args
<1>1. [a EXCEPT !.key = None, !.attempts = 0] \in Args
  BY DEF Args
<1>2. attempts[k] \in Nat =>
        [a EXCEPT !.key = k, !.batch = a.batch \ {k}, !.attempts = attempts[k]] \in Args
  BY DEF Args
<1>3. QED BY <1>1, <1>2 DEF Args

LEMMA BatchArg ==
    ASSUME NEW batch \in SUBSET Keys
    PROVE  /\ [NoArg EXCEPT !.batch = batch] \in Args
           /\ [NoArg EXCEPT !.batch = batch].batch = batch
  BY NoArgIsArg DEF Args

LEMMA WorkerShape ==
    ASSUME Shape, NEW w \in Workers, Process(w)
    PROVE  Shape'
<1>0. /\ w \in Procs /\ arg[w] \in Args /\ arg[w].attempts \in Nat
      /\ pc[w] \in AtKey => arg[w].key \in Keys
  BY LocalsTyped DEF Procs
<1> DEFINE between == [arg[w] EXCEPT !.key = None, !.attempts = 0]
<1>a. between \in Args
  BY <1>0 DEF Args
<1>1. CASE FetchDue(w)
  <2> PICK batch \in SUBSET Due : GoTo(w, "claim", [NoArg EXCEPT !.batch = batch])
    BY <1>1 DEF FetchDue
  <2>1. [NoArg EXCEPT !.batch = batch] \in Args /\ LocalsOK("claim", [NoArg EXCEPT !.batch = batch])
    BY BatchArg DEF Due, LocalsOK, AtKey, AtRow
  <2>2. TablesOK' /\ "claim" \in Labels
    BY <1>1, KeptTables DEF FetchDue, Labels, Due, Shape, TablesOK
  <2>3. QED BY <1>0, <2>1, <2>2, MoveShape
<1>2. CASE Claim(w)
  <2>1. LocalsOK("next", arg[w]) /\ "next" \in Labels
    BY DEF LocalsOK, AtKey, AtRow, Labels
  <2>2. TablesOK'
    BY <1>2 DEF Shape, TablesOK, Claim, OutboxStatus, history
  <2>3. QED BY <1>0, <1>2, <2>1, <2>2, MoveShape DEF Claim
<1>3. CASE NextRow(w)
  <2>1. TablesOK'
    BY <1>3, KeptTables DEF NextRow, history, Shape, TablesOK
  <2>2. CASE Return(w)
    BY <1>0, <2>1, <2>2, NoArgIsArg, MoveShape DEF Return
  <2>3. ASSUME NEW k \in arg[w].batch,
               GoTo(w, "send", [arg[w] EXCEPT !.key = k, !.batch = @ \ {k}, !.attempts = attempts[k]])
        PROVE  Shape'
    <3> DEFINE a == [arg[w] EXCEPT !.key = k, !.batch = @ \ {k}, !.attempts = attempts[k]]
    <3>1. k \in Keys /\ attempts[k] \in Nat
      BY <1>0, LocalsTyped DEF Shape, TablesOK
    <3>2. a \in Args /\ a.key = k
      BY <1>0, <3>1, WorkerArgs
    <3>3. LocalsOK("send", a) /\ "send" \in Labels
      BY <3>1, <3>2 DEF LocalsOK, Labels
    <3>4. QED BY <1>0, <2>1, <2>3, <3>2, <3>3, MoveShape
  <2>4. QED BY <1>3, <2>2, <2>3 DEF NextRow
<1>4. CASE Send(w)
  <2>1. arg[w].key \in Keys
    BY <1>0, <1>4 DEF Send, AtKey, AtRow
  <2>2. TablesOK'
    BY <1>4, <2>1 DEF Shape, TablesOK, Send, outbox
  <2>3. /\ LocalsOK("markSent", arg[w]) /\ LocalsOK("markFailed", arg[w])
        /\ "markSent" \in Labels /\ "markFailed" \in Labels
    BY <2>1 DEF LocalsOK, Labels
  <2>4. QED BY <1>0, <1>4, <2>2, <2>3, MoveShape DEF Send
<1>5. CASE MarkSent(w)
  <2>1. arg[w].key \in Keys
    BY <1>0, <1>5 DEF MarkSent, AtKey, AtRow
  <2>2. TablesOK'
    BY <1>0, <1>5, <2>1 DEF Shape, TablesOK, MarkSent, SetRow, OutboxStatus, history
  <2>3. /\ LocalsOK("markFailed", arg[w]) /\ LocalsOK("next", between)
        /\ "markFailed" \in Labels /\ "next" \in Labels
    BY <2>1 DEF LocalsOK, Labels, AtKey, AtRow
  <2>4. QED BY <1>0, <1>a, <1>5, <2>2, <2>3, MoveShape DEF MarkSent, Loop
<1>6. CASE MarkFailed(w)
  <2>1. arg[w].key \in Keys
    BY <1>0, <1>6 DEF MarkFailed, AtKey, AtRow
  <2>2. TablesOK'
    BY <1>0, <1>6, <2>1
    DEF Shape, TablesOK, MarkFailed, AfterFailure, SetRow, OutboxStatus, history
  <2>3. LocalsOK("next", between) /\ "next" \in Labels
    BY DEF LocalsOK, Labels, AtKey, AtRow
  <2>4. QED BY <1>0, <1>a, <1>6, <2>2, <2>3, MoveShape DEF MarkFailed, Loop
<1>7. QED BY <1>1, <1>2, <1>3, <1>4, <1>5, <1>6 DEF Process

LEMMA AdminShape ==
    ASSUME Shape, NEW a \in Admins, Retry(a)
    PROVE  Shape'
<1>0. a \in Procs
  BY DEF Procs
<1>1. ASSUME NEW k \in Keys, RetryFailedNotification(a, k)
      PROVE  Shape'
  <2> DEFINE b == [NoArg EXCEPT !.key = k]
  <2>1. b \in Args /\ b.key = k
    BY NoArgIsArg DEF Args
  <2>2. LocalsOK("retry", b) /\ "retry" \in Labels
    BY <2>1 DEF LocalsOK, Labels
  <2>3. TablesOK'
    BY <1>1, KeptTables DEF RetryFailedNotification, Shape, TablesOK
  <2>4. QED BY <1>0, <1>1, <2>1, <2>2, <2>3, MoveShape DEF RetryFailedNotification
<1>2. CASE RetryWrite(a)
  <2>1. arg[a].key \in Keys
    BY <1>0, <1>2, LocalsTyped DEF RetryWrite, AtKey
  <2>2. TablesOK'
    BY <1>2, <2>1 DEF Shape, TablesOK, RetryWrite, OutboxStatus, history
  <2>3. QED BY <1>0, <1>2, <2>2, NoArgIsArg, MoveShape DEF RetryWrite, Return
<1>3. QED BY <1>1, <1>2 DEF Retry

LEMMA StepShape == Shape /\ [Next]_vars => Shape'
<1> SUFFICES ASSUME Shape, [Next]_vars PROVE Shape'
  OBVIOUS
<1>1. ASSUME NEW p \in Procs, Crash(p) PROVE Shape'
  <2>1. TablesOK'
    BY <1>1, KeptTables DEF Crash, Shape, TablesOK
  <2>2. QED BY <1>1, <2>1, NoArgIsArg, MoveShape DEF Crash, Return
<1>2. ASSUME NEW k \in Keys, BackoffOver(k) PROVE Shape'
  BY <1>2 DEF BackoffOver, Shape, TablesOK, LocalsOK, callVars, history
<1>3. CASE UNCHANGED vars
  BY <1>3 DEF vars, outbox, callVars, history, Shape, TablesOK, LocalsOK
<1>4. QED BY <1>1, <1>2, <1>3, ServiceShape, WorkerShape, AdminShape DEF Next

LEMMA InitShape == Init => Shape
  BY LimitsPositive, NoArgIsArg DEF Init, Shape, TablesOK, OutboxStatus, Labels, LocalsOK, AtKey, AtRow
-----------------------------------------------------------------------------
(* Shown once, with any number of processes *)

\* A step that shows nothing, sets no process to showing, and deletes no row.
LEMMA NothingShown ==
    ASSUME Shown, emailGate' = emailGate, inApp' = inApp,
           \A k \in Required : status'[k] = "none" => status[k] = "none",
           \A p \in Procs, k \in Required : Showing(p, k)' => Showing(p, k)
    PROVE  Shown'
<1> SUFFICES ASSUME emailGate, NEW k \in Required PROVE ShownAt(k)'
  BY DEF Shown
<1>1. ShownAt(k)
  BY DEF Shown
<1>2. \A p \in Procs : Showing(p, k)' => Showing(p, k)
  OBVIOUS
<1>3. QED BY <1>1, <1>2 DEF ShownAt

\* Moving one process elsewhere is such a step, as far as the processes go.
LEMMA NoNewShowing ==
    ASSUME Shape, NEW p \in Procs, NEW label \in Labels, NEW a \in Args, GoTo(p, label, a),
           label # "insertInApp" \/ a.key \notin Required
    PROVE  \A q \in Procs, k \in Required : Showing(q, k)' => Showing(q, k)
  BY Moved DEF Showing

LEMMA ReturnShowsNothing ==
    ASSUME Shape, NEW p \in Procs, Return(p)
    PROVE  \A q \in Procs, k \in Required : Showing(q, k)' => Showing(q, k)
  BY NoArgIsArg, NoNewShowing DEF Return

LEMMA ServiceShown ==
    ASSUME Shape, Shown, NEW s \in Services, Schedule(s)
    PROVE  Shown'
<1>0. s \in Procs /\ arg[s] \in Args /\ (pc[s] \in AtKey => arg[s].key \in Keys)
  BY LocalsTyped DEF Procs
<1>1. ASSUME NEW k \in Keys, NEW preferred \in SUBSET AllChannels,
             ScheduleNotification(s, k, preferred), emailGate
      PROVE  Shown'
  <2> DEFINE channels == Channels(k, preferred)
  <2>1. GoTo(s, ScheduleLabel(channels), ScheduleArg(k, channels))
    BY <1>1 DEF ScheduleNotification, ScheduleLabel, ScheduleArg
  <2>2. k \in Required => ScheduleLabel(channels) = "insertOutbox"
    BY <1>1 DEF Channels, CannotBeDisabled, AllChannels, ScheduleLabel
  <2>3. \A q \in Procs, j \in Required : Showing(q, j)' => Showing(q, j)
    BY <1>0, <2>1, <2>2, ScheduleTyped, NoNewShowing
  <2>4. UNCHANGED <<emailGate, inApp, status>>
    BY <1>1 DEF ScheduleNotification, outbox
  <2>5. QED BY <2>3, <2>4, NothingShown
<1>2. CASE InsertOutbox(s)
  <2> DEFINE k == arg[s].key
  <2>1. k \in Keys /\ UNCHANGED <<emailGate, inApp>>
    BY <1>0, <1>2 DEF InsertOutbox, AtKey
  <2>2. CASE Return(s) /\ UNCHANGED <<status, attempts>>
    BY <1>0, <2>1, <2>2, ReturnShowsNothing, NothingShown
  <2>3. CASE /\ status[k] = "none" /\ SetRow(k, "PENDING", 0)
             /\ GoTo(s, "insertInApp", arg[s])
    <3> SUFFICES ASSUME emailGate, NEW j \in Required PROVE ShownAt(j)'
      BY <2>1 DEF Shown
    <3>1. ShownAt(j) /\ j \in Keys
      BY RequiredAreKeys DEF Shown
    <3>2. status'[k] = "PENDING" /\ (j # k => status'[j] = status[j])
      BY <2>1, <2>3, <3>1 DEF SetRow, Shape, TablesOK
    <3>3. "insertInApp" \in Labels
      BY DEF Labels
    <3>4. \A p \in Procs : Showing(p, j)' => Showing(p, j) \/ (p = s /\ j = k)
      BY <1>0, <2>3, <3>3, Moved DEF Showing
    <3>5. CASE j = k
      BY <2>1, <2>3, <3>1, <3>2, <3>4, <3>5 DEF ShownAt
    <3>6. CASE j # k
      BY <2>1, <3>1, <3>2, <3>4, <3>6 DEF ShownAt
    <3>7. QED BY <3>5, <3>6
  <2>4. QED BY <1>2, <2>2, <2>3 DEF InsertOutbox
<1>3. CASE InsertInApp(s)
  <2> DEFINE k == arg[s].key
  <2>1. k \in Keys /\ UNCHANGED <<emailGate, status>> /\ Return(s) /\ Showing(s, k)
    BY <1>0, <1>3 DEF InsertInApp, AtKey, outbox, Showing
  <2> SUFFICES ASSUME emailGate, NEW j \in Required PROVE ShownAt(j)'
    BY <2>1 DEF Shown
  <2>2. ShownAt(j) /\ j \in Keys
    BY RequiredAreKeys DEF Shown
  <2>3. \A p \in Procs : Showing(p, j)' => Showing(p, j) /\ p # s
    BY <1>0, <2>1, NoArgIsArg, Moved DEF Return, Showing
  <2>4. inApp \in [Keys -> Nat]
    BY DEF Shape, TablesOK
  <2>5. CASE j = k
    <3>1. inApp[j] = 0 /\ \A p \in Procs : ~Showing(p, j)'
      BY <1>0, <2>1, <2>2, <2>3, <2>4, <2>5 DEF ShownAt
    <3>2. inApp'[j] \in {0, 1}
      BY <1>3, <2>2, <2>4, <2>5, <3>1 DEF InsertInApp
    <3>3. status[j] # "none"
      BY <1>0, <2>1, <2>2, <2>5 DEF ShownAt
    <3>4. QED BY <2>1, <3>1, <3>2, <3>3 DEF ShownAt
  <2>6. CASE j # k
    <3>1. inApp'[j] = inApp[j]
      BY <1>3, <2>1, <2>2, <2>4, <2>6 DEF InsertInApp
    <3>2. QED BY <2>1, <2>2, <2>3, <3>1 DEF ShownAt
  <2>7. QED BY <2>5, <2>6
<1>4. ASSUME ~emailGate, UNCHANGED emailGate PROVE Shown'
  BY <1>4 DEF Shown
<1>5. QED BY <1>1, <1>2, <1>3, <1>4 DEF Schedule, ScheduleNotification

LEMMA WorkerShown ==
    ASSUME Shape, Shown, NEW w \in Workers, Process(w)
    PROVE  Shown'
<1>0. /\ w \in Procs /\ arg[w] \in Args /\ arg[w].batch \subseteq Keys
      /\ pc[w] \in AtKey => arg[w].key \in Keys
  BY LocalsTyped DEF Procs
<1> DEFINE between == [arg[w] EXCEPT !.key = None, !.attempts = 0]
<1>a. between \in Args
  BY <1>0 DEF Args
<1>b. \A label \in WorkerLabel : label \in Labels /\ label # "insertInApp"
  BY DEF WorkerLabel, InLoop, AtRow, Labels
<1>c. "claim" \in WorkerLabel /\ "next" \in WorkerLabel /\ AtRow \subseteq WorkerLabel
  BY DEF WorkerLabel, InLoop
<1>1. /\ emailGate' = emailGate /\ inApp' = inApp
      /\ \A k \in Required : status'[k] = "none" => status[k] = "none"
  <2>1. CASE Claim(w)
    BY <1>0, <2>1, RequiredAreKeys DEF Claim
  <2>2. CASE MarkSent(w)
    BY <1>0, <2>2, RequiredAreKeys DEF MarkSent, SetRow, AtKey, AtRow, Shape, TablesOK
  <2>3. CASE MarkFailed(w)
    BY <1>0, <2>3, RequiredAreKeys
    DEF MarkFailed, AfterFailure, SetRow, AtKey, AtRow, Shape, TablesOK
  <2>4. QED BY <2>1, <2>2, <2>3 DEF Process, FetchDue, NextRow, Send, outbox
<1>2. \A q \in Procs, k \in Required : Showing(q, k)' => Showing(q, k)
  <2>1. CASE Return(w)
    BY <1>0, <2>1, ReturnShowsNothing
  <2>2. ASSUME NEW label \in WorkerLabel, NEW a \in Args, GoTo(w, label, a)
        PROVE  \A q \in Procs, k \in Required : Showing(q, k)' => Showing(q, k)
    BY <1>0, <1>b, <2>2, NoNewShowing
  <2>3. CASE FetchDue(w)
    <3> PICK batch \in SUBSET Due : GoTo(w, "claim", [NoArg EXCEPT !.batch = batch])
      BY <2>3 DEF FetchDue
    <3>1. [NoArg EXCEPT !.batch = batch] \in Args
      BY BatchArg DEF Due
    <3>2. QED BY <1>c, <2>2, <3>1
  <2>4. CASE NextRow(w)
    <3>1. ASSUME NEW k \in arg[w].batch,
                 GoTo(w, "send", [arg[w] EXCEPT !.key = k, !.batch = @ \ {k}, !.attempts = attempts[k]])
          PROVE  \A q \in Procs, j \in Required : Showing(q, j)' => Showing(q, j)
      <4> DEFINE a == [arg[w] EXCEPT !.key = k, !.batch = @ \ {k}, !.attempts = attempts[k]]
      <4>1. k \in Keys /\ attempts[k] \in Nat /\ "send" \in WorkerLabel
        BY <1>0, <1>c DEF Shape, TablesOK, AtRow
      <4>2. a \in Args
        BY <1>0, <4>1, WorkerArgs
      <4>3. QED BY <2>2, <3>1, <4>1, <4>2
    <3>2. QED BY <2>1, <2>4, <3>1 DEF NextRow
  <2>5. CASE Claim(w) \/ Send(w) \/ MarkSent(w) \/ MarkFailed(w)
    <3>1. \/ \E label \in AtRow \cup {"next"} : GoTo(w, label, arg[w])
          \/ GoTo(w, "next", between)
      BY <2>5 DEF Claim, Send, MarkSent, MarkFailed, Loop, AtRow
    <3>2. QED BY <1>0, <1>a, <1>c, <2>2, <3>1
  <2>6. QED BY <2>3, <2>4, <2>5 DEF Process
<1>3. QED BY <1>1, <1>2, NothingShown

LEMMA AdminShown ==
    ASSUME Shape, Shown, NEW a \in Admins, Retry(a)
    PROVE  Shown'
<1>0. a \in Procs
  BY DEF Procs
<1>1. ASSUME NEW k \in Keys, RetryFailedNotification(a, k)
      PROVE  Shown'
  <2>1. [NoArg EXCEPT !.key = k] \in Args /\ "retry" \in Labels
    BY NoArgIsArg DEF Args, Labels
  <2>2. \A q \in Procs, j \in Required : Showing(q, j)' => Showing(q, j)
    BY <1>0, <1>1, <2>1, NoNewShowing DEF RetryFailedNotification
  <2>3. QED BY <1>1, <2>2, NothingShown DEF RetryFailedNotification, outbox
<1>2. CASE RetryWrite(a)
  <2>1. arg[a].key \in Keys
    BY <1>0, <1>2, LocalsTyped DEF RetryWrite, AtKey
  <2>2. \A k \in Required : status'[k] = "none" => status[k] = "none"
    BY <1>2, <2>1, RequiredAreKeys DEF RetryWrite, Shape, TablesOK
  <2>3. QED BY <1>0, <1>2, <2>2, ReturnShowsNothing, NothingShown DEF RetryWrite
<1>3. QED BY <1>1, <1>2 DEF Retry

LEMMA StepShown == Shape /\ Shown /\ [Next]_vars => Shown'
<1> SUFFICES ASSUME Shape, Shown, [Next]_vars PROVE Shown'
  OBVIOUS
<1>1. ASSUME NEW p \in Procs, Crash(p) PROVE Shown'
  BY <1>1, ReturnShowsNothing, NothingShown DEF Crash, outbox
<1>2. ASSUME NEW k \in Keys, BackoffOver(k) PROVE Shown'
  BY <1>2, NothingShown DEF BackoffOver, callVars, Showing
<1>3. CASE UNCHANGED vars
  BY <1>3, NothingShown DEF vars, outbox, callVars, Showing
<1>4. QED BY <1>1, <1>2, <1>3, ServiceShown, WorkerShown, AdminShown DEF Next

LEMMA InitShown == Init => Shown
  BY RequiredAreKeys DEF Init, Shown, ShownAt, Showing

\* However many calls schedule a notification that cannot be switched off, it
\* is in the recipient's list once, where emails are sent: the outbox's unique
\* key lets one of them through (scheduleNotification).
THEOREM ShownOnce == Spec => []RequiredShownOnce
<1>1. Init => Shape /\ Shown
  BY InitShape, InitShown
<1>2. Shape /\ Shown /\ [Next]_vars => Shape' /\ Shown'
  BY StepShape, StepShown
<1>3. Shown => RequiredShownOnce
  BY DEF Shown, ShownAt, RequiredShownOnce
<1>4. QED BY <1>1, <1>2, <1>3, PTL DEF Spec
-----------------------------------------------------------------------------
(* The rows that no two processes had in hand at once *)

\* A row that a step leaves alone.
SameRow(k) ==
    status'[k] = status[k] /\ attempts'[k] = attempts[k] /\ delivered'[k] = delivered[k]

LEMMA HandIs ==
    ASSUME NEW p \in Procs
    PROVE  InHand(p) = Hand(pc[p], arg[p])
  BY DEF InHand, Hand, ServiceLabel

LEMMA InOthers ==
    ASSUME NEW p \in Procs, NEW q \in Procs, q # p
    PROVE  InHand(q) \subseteq InOtherHands(p)
  BY DEF InOtherHands

LEMMA Labelled ==
    /\ ServiceLabel \cup WorkerLabel \cup {"retry"} \subseteq Labels
    /\ ServiceLabel \cap (WorkerLabel \cup {"retry"}) = {}
    /\ AtRow \subseteq InLoop /\ InLoop \subseteq WorkerLabel /\ AtRow \subseteq AtKey
    /\ "idle" \in ServiceLabel /\ "insertOutbox" \in ServiceLabel
    /\ "insertInApp" \in ServiceLabel
    /\ "claim" \in WorkerLabel /\ "next" \in InLoop
    /\ "send" \in AtRow /\ "markSent" \in AtRow /\ "markFailed" \in AtRow
    /\ "retry" \notin WorkerLabel /\ "claim" \notin InLoop /\ "next" \notin AtRow
    /\ "retry" \in AtKey
  BY DEF ServiceLabel, WorkerLabel, InLoop, AtRow, AtKey, Labels

\* The rows of a process, outside the service.
LEMMA HasInHand ==
    ASSUME NEW label \in Labels \ ServiceLabel, NEW a \in Args, LocalsOK(label, a)
    PROVE  /\ a.batch \subseteq Hand(label, a)
           /\ label \in AtKey => a.key \in Keys /\ a.key \in Hand(label, a)
  BY NoneIsNoKey DEF Hand, LocalsOK

\* What is known of rows that are left alone stays known.
LEMMA KnowsStill ==
    ASSUME Shape, Shape', NEW label \in Labels, NEW a \in Args, LocalsOK(label, a),
           Knows(label, a), shared \subseteq shared', retries <= retries',
           \A k \in Hand(label, a) \ shared' : status[k] = "none" \/ SameRow(k)
    PROVE  Knows(label, a)'
<1>1. CASE label \in ServiceLabel
  BY <1>1, Labelled DEF Knows
<1>2. CASE label \notin ServiceLabel
  <2>1. /\ a.batch \subseteq Keys /\ a.batch \subseteq Hand(label, a)
        /\ label \in AtKey => a.key \in Keys /\ a.key \in Hand(label, a)
    BY <1>2, HasInHand DEF Args
  <2>2. label \in WorkerLabel =>
          \A k \in a.batch \ shared' : label = "claim" \/ label \in InLoop => SameRow(k)
    BY <2>1, Labelled DEF Knows
  <2>3. label \in AtRow \cup {"retry"} => a.key \in shared' \/ SameRow(a.key)
    BY <2>1, Labelled DEF Knows
  <2>4. label = "retry" => a.key \in Keys /\ attempts[a.key] \in Nat
    BY <2>1, Labelled DEF Shape, TablesOK
  <2>5. retries \in Nat /\ retries' \in Nat
    BY DEF Shape, TablesOK
  <2>6. /\ label = "claim" => \A k \in a.batch \ shared' : status'[k] = "PENDING"
        /\ label \in InLoop =>
             \A k \in a.batch \ shared' : status'[k] = "PROCESSING" /\ delivered'[k] <= attempts'[k]
    BY <2>2, Labelled DEF Knows, SameRow
  <2>7. label \in AtRow =>
          /\ a.key \notin a.batch
          /\ a.key \notin shared' => status'[a.key] = "PROCESSING" /\ a.attempts = attempts'[a.key]
    BY <2>3 DEF Knows, SameRow
  <2>8. label = "send" /\ a.key \notin shared' => delivered'[a.key] <= attempts'[a.key]
    BY <2>3, Labelled DEF Knows, SameRow
  <2>9. label = "retry" /\ a.key \notin shared' =>
          status'[a.key] = "FAILED" /\ attempts'[a.key] < MaxAttempts + retries'
    BY <2>3, <2>4, <2>5, LimitsPositive DEF Knows, SameRow
  <2>10. QED BY <2>6, <2>7, <2>8, <2>9 DEF Knows
<1>3. QED BY <1>1, <1>2

\* A row that is left alone is counted still: only retries grow.
LEMMA CountedStill ==
    ASSUME Shape, Shape', NEW k \in Keys, Counted(k), SameRow(k),
           shared \subseteq shared', retries <= retries'
    PROVE  Counted(k)'
<1>1. /\ attempts[k] \in Nat /\ delivered[k] \in Nat /\ retries \in Nat /\ retries' \in Nat
  BY DEF Shape, TablesOK
<1>2. QED BY <1>1, LimitsPositive DEF Counted, SameRow

\* A step of p keeps Inv if it writes the rows that p has in hand or that are
\* new, p knows what it should afterwards, and what it takes in hand from
\* others is shared.
LEMMA MoveInv ==
    ASSUME Inv, Shape', NEW p \in Procs, NEW label \in Labels, NEW a \in Args,
           GoTo(p, label, a), shared \subseteq shared', retries <= retries',
           retries' <= MaxRetries,
           \A k \in Keys : k \in InHand(p) \/ status[k] = "none" \/ SameRow(k),
           \A k \in Keys : Counted(k)' \/ SameRow(k),
           Hand(label, a) \cap InOtherHands(p) \subseteq shared',
           Knows(label, a)'
    PROVE  Inv'
<1>0. Shape /\ pc'[p] = label /\ arg'[p] = a
      /\ \A q \in Procs : q # p => pc'[q] = pc[q] /\ arg'[q] = arg[q]
  BY Moved DEF Inv
<1>1. \A q \in Procs : q # p => InHand(q)' = InHand(q)
  BY <1>0 DEF InHand
<1>2. InHand(p)' = Hand(label, a)
  BY <1>0 DEF InHand, Hand, ServiceLabel
<1>3. Apart'
  <2> SUFFICES ASSUME NEW q \in Procs, NEW r \in Procs, q # r
               PROVE  InHand(q)' \cap InHand(r)' \subseteq shared'
    BY DEF Apart
  <2>1. CASE q # p /\ r # p
    BY <1>1, <2>1 DEF Inv, Apart
  <2>2. CASE q = p
    BY <1>1, <1>2, <2>2, InOthers
  <2>3. CASE r = p
    BY <1>1, <1>2, <2>3, InOthers
  <2>4. QED BY <2>1, <2>2, <2>3
<1>4. ASSUME NEW q \in Procs PROVE Knows(pc[q], arg[q])'
  <2>1. CASE q = p
    BY <1>0, <2>1 DEF Knows
  <2>2. CASE q # p
    <3> PICK l, b : l = pc[q] /\ b = arg[q]
      OBVIOUS
    <3>1. l \in Labels /\ b \in Args /\ LocalsOK(l, b) /\ Knows(l, b)
      BY <1>0, LocalsTyped DEF Inv, Turn, Shape
    <3>2. pc'[q] = l /\ arg'[q] = b
      BY <1>0, <2>2
    <3>3. Hand(l, b) \subseteq Keys /\ \A k \in Hand(l, b) \ shared' : k \notin InHand(p)
      BY <2>2, <3>1, HandIs DEF Hand, Args, Inv, Apart
    <3>4. Knows(l, b)'
      BY <1>0, <3>1, <3>3, KnowsStill
    <3>5. QED BY <3>2, <3>4 DEF Knows
  <2>3. QED BY <2>1, <2>2
<1>5. Turn'
  BY <1>4 DEF Turn
<1>6. \A k \in Keys : Counted(k)'
  BY <1>0, CountedStill DEF Inv
<1>7. QED BY <1>3, <1>5, <1>6 DEF Inv

\* A step of p that writes no row and takes none in hand.
RowsKept == UNCHANGED <<status, attempts, delivered, retries, shared>>

LEMMA ReadInv ==
    ASSUME Inv, Shape', RowsKept, NEW p \in Procs, NEW label \in Labels, NEW a \in Args,
           GoTo(p, label, a), Hand(label, a) \subseteq InHand(p), Knows(label, a)'
    PROVE  Inv'
<1>1. retries \in Nat /\ retries <= MaxRetries
  BY DEF Inv, Shape, TablesOK
<1>2. InHand(p) \cap InOtherHands(p) \subseteq shared
  BY DEF InOtherHands, Inv, Apart
<1>3. \A k \in Keys : SameRow(k)
  BY DEF RowsKept, SameRow
<1>4. QED BY <1>1, <1>2, <1>3, MoveInv DEF RowsKept

\* ... and goes on to where it has none in hand.
LEMMA PlainInv ==
    ASSUME Inv, Shape', RowsKept, NEW p \in Procs, NEW label \in ServiceLabel, NEW a \in Args,
           GoTo(p, label, a)
    PROVE  Inv'
<1>1. Hand(label, a) = {} /\ Knows(label, a)' /\ label \in Labels
  BY Labelled DEF Hand, Knows
<1>2. QED BY <1>1, ReadInv

LEMMA ReturnInv ==
    ASSUME Inv, Shape', RowsKept, NEW p \in Procs, Return(p)
    PROVE  Inv'
  BY PlainInv, NoArgIsArg, Labelled DEF Return

LEMMA ServiceInv ==
    ASSUME Inv, Shape', NEW s \in Services, Schedule(s)
    PROVE  Inv'
<1>0. Shape /\ s \in Procs /\ arg[s] \in Args /\ (pc[s] \in AtKey => arg[s].key \in Keys)
  BY LocalsTyped DEF Procs, Inv
<1>1. ASSUME NEW k \in Keys, NEW preferred \in SUBSET AllChannels,
             ScheduleNotification(s, k, preferred)
      PROVE  Inv'
  <2> DEFINE channels == Channels(k, preferred)
  <2>1. GoTo(s, ScheduleLabel(channels), ScheduleArg(k, channels)) /\ RowsKept
    BY <1>1 DEF ScheduleNotification, ScheduleLabel, ScheduleArg, RowsKept, outbox, history
  <2>2. ScheduleLabel(channels) \in ServiceLabel /\ ScheduleArg(k, channels) \in Args
    BY ScheduleTyped DEF ServiceLabel
  <2>3. QED BY <1>0, <2>1, <2>2, PlainInv
<1>2. CASE InsertOutbox(s)
  <2> PICK k : k = arg[s].key
    OBVIOUS
  <2>1. k \in Keys /\ UNCHANGED <<delivered, retries, shared>>
    BY <1>0, <1>2 DEF InsertOutbox, AtKey, history
  <2>2. CASE Return(s) /\ UNCHANGED <<status, attempts>>
    BY <1>0, <2>1, <2>2, ReturnInv DEF RowsKept
  <2>3. CASE /\ status[k] = "none" /\ SetRow(k, "PENDING", 0)
             /\ GoTo(s, "insertInApp", arg[s])
    <3>1. status'[k] = "PENDING" /\ attempts'[k] = 0
      BY <1>0, <2>1, <2>3 DEF SetRow, Shape, TablesOK
    <3>2. \A j \in Keys : j # k => SameRow(j)
      BY <1>0, <2>1, <2>3 DEF SetRow, Shape, TablesOK, SameRow
    <3>3. Counted(k)'
      <4>1. /\ Counted(k) /\ attempts[k] \in Nat /\ delivered[k] \in Nat
            /\ retries \in Nat
        BY <1>0, <2>1 DEF Inv, Shape, TablesOK
      <4>2. QED BY <2>1, <2>3, <3>1, <4>1, LimitsPositive DEF Counted
    <3> PICK a \in Args : a = arg[s]
      BY <1>0
    <3>4. Knows("insertInApp", a)' /\ Hand("insertInApp", a) = {} /\ "insertInApp" \in Labels
      BY Labelled DEF Knows, Hand
    <3>5. retries <= retries' /\ retries' <= MaxRetries
      BY <2>1 DEF Inv, Shape, TablesOK
    <3>6. QED BY <1>0, <2>1, <2>3, <3>2, <3>3, <3>4, <3>5, MoveInv
  <2>4. QED BY <1>2, <2>2, <2>3 DEF InsertOutbox
<1>3. CASE InsertInApp(s)
  BY <1>0, <1>3, ReturnInv DEF InsertInApp, RowsKept, outbox, history
<1>4. QED BY <1>1, <1>2, <1>3 DEF Schedule

LEMMA AdminInv ==
    ASSUME Inv, Shape', NEW a \in Admins, Retry(a)
    PROVE  Inv'
<1>0. Shape /\ a \in Procs /\ retries \in Nat
  BY DEF Procs, Inv, Shape, TablesOK
<1>1. ASSUME NEW k \in Keys, RetryFailedNotification(a, k)
      PROVE  Inv'
  <2> DEFINE b == [NoArg EXCEPT !.key = k]
  <2>1. b \in Args /\ b.key = k /\ b.batch = {}
    BY NoArgIsArg DEF Args
  <2>2. /\ UNCHANGED <<status, attempts, delivered>> /\ status[k] = "FAILED"
        /\ retries < MaxRetries /\ retries' = retries + 1 /\ GoTo(a, "retry", b)
        /\ shared' = shared \cup ({k} \cap InOtherHands(a))
    BY <1>1 DEF RetryFailedNotification, outbox
  <2>3. Knows("retry", b)'
    <3>1. Counted(k) /\ attempts[k] \in Nat
      BY DEF Inv, Shape, TablesOK
    <3>2. k \notin shared' => attempts'[k] < MaxAttempts + retries'
      BY <1>0, <2>2, <3>1, LimitsPositive DEF Counted
    <3>3. QED BY <2>1, <2>2, <3>2, Labelled DEF Knows
  <2>4. Hand("retry", b) \cap InOtherHands(a) \subseteq shared'
    BY <2>1, <2>2 DEF Hand
  <2>5. (\A j \in Keys : SameRow(j)) /\ "retry" \in Labels
    BY <2>2, Labelled DEF SameRow
  <2>6. shared \subseteq shared' /\ retries <= retries' /\ retries' <= MaxRetries
    BY <1>0, <2>2, BoundsAreNumbers
  <2>7. QED BY <1>0, <2>1, <2>2, <2>3, <2>4, <2>5, <2>6, MoveInv
<1>2. CASE RetryWrite(a)
  <2> PICK k : k = arg[a].key
    OBVIOUS
  <2>1. /\ k \in Keys /\ k \in InHand(a) /\ pc[a] = "retry" /\ Knows("retry", arg[a])
    <3>1. pc[a] = "retry" /\ arg[a] \in Args /\ LocalsOK("retry", arg[a])
      BY <1>0, <1>2, LocalsTyped DEF RetryWrite, Shape
    <3>2. QED BY <1>0, <3>1, HasInHand, HandIs, Labelled DEF Inv, Turn
  <2>2. /\ attempts' = attempts /\ UNCHANGED history
        /\ status'[k] = "PENDING" /\ \A j \in Keys : j # k => status'[j] = status[j]
    BY <1>0, <1>2, <2>1 DEF RetryWrite, Shape, TablesOK
  <2>3. Counted(k)'
    <3>1. /\ Counted(k) /\ attempts[k] \in Nat /\ delivered[k] \in Nat
          /\ k \notin shared => status[k] = "FAILED" /\ attempts[k] < MaxAttempts + retries
      BY <1>0, <2>1 DEF Inv, Shape, TablesOK, Knows
    <3>2. QED BY <1>0, <2>2, <3>1, LimitsPositive DEF Counted, history
  <2>4. \A j \in Keys : j # k => SameRow(j)
    BY <2>2 DEF SameRow, history
  <2>5. /\ Knows("idle", NoArg)' /\ Hand("idle", NoArg) = {} /\ GoTo(a, "idle", NoArg)
        /\ NoArg \in Args /\ "idle" \in Labels
    BY <1>2, NoArgIsArg, Labelled DEF Knows, Hand, RetryWrite, Return
  <2>6. shared' = shared /\ retries <= retries' /\ retries' <= MaxRetries
    BY <1>0, <2>2 DEF Inv, history
  <2>7. QED BY <1>0, <2>1, <2>3, <2>4, <2>5, <2>6, MoveInv
<1>3. QED BY <1>1, <1>2 DEF Retry

\* What a worker knows, with its locals in hand.
LEMMA WorkerHas ==
    ASSUME Inv, NEW w \in Workers
    PROVE  /\ Shape /\ w \in Procs /\ arg[w] \in Args /\ arg[w].batch \subseteq Keys
           /\ pc[w] \in WorkerLabel => arg[w].batch \subseteq InHand(w)
           /\ pc[w] \in AtRow => arg[w].key \in Keys /\ arg[w].key \in InHand(w)
           /\ Knows(pc[w], arg[w])
           /\ \A k \in Keys : Counted(k) /\ attempts[k] \in Nat /\ delivered[k] \in Nat
           /\ retries \in Nat /\ retries <= MaxRetries
<1>1. Shape /\ w \in Procs /\ arg[w] \in Args /\ pc[w] \in Labels /\ LocalsOK(pc[w], arg[w])
  BY LocalsTyped DEF Inv, Procs, Shape
<1>2. arg[w].batch \subseteq Keys
  BY <1>1, LocalsTyped
<1>3. /\ pc[w] \in WorkerLabel => arg[w].batch \subseteq InHand(w)
      /\ pc[w] \in AtRow => arg[w].key \in Keys /\ arg[w].key \in InHand(w)
  BY <1>1, HasInHand, HandIs, Labelled
<1>4. QED BY <1>1, <1>2, <1>3 DEF Inv, Turn, Shape, TablesOK

LEMMA FetchInv ==
    ASSUME Inv, Shape', NEW w \in Workers, FetchDue(w)
    PROVE  Inv'
<1>1. /\ w \in Procs /\ UNCHANGED <<status, attempts, delivered, retries>>
      /\ "claim" \in Labels /\ retries \in Nat /\ retries <= MaxRetries
  BY WorkerHas, Labelled DEF FetchDue, outbox
<1> PICK batch \in SUBSET Due : /\ GoTo(w, "claim", [NoArg EXCEPT !.batch = batch])
                                /\ shared' = shared \cup (batch \cap InOtherHands(w))
  BY DEF FetchDue
<1> PICK a : a = [NoArg EXCEPT !.batch = batch]
  OBVIOUS
<1>2. a \in Args /\ a.batch = batch /\ a.key = None
  BY BatchArg, NoArgIsArg DEF Due, NoArg
<1>3. Knows("claim", a)'
  BY <1>1, <1>2, Labelled DEF Knows, Due
<1>4. Hand("claim", a) \cap InOtherHands(w) \subseteq shared'
  BY <1>2 DEF Hand
<1>5. \A k \in Keys : SameRow(k)
  BY <1>1 DEF SameRow
<1>6. QED BY <1>1, <1>2, <1>3, <1>4, <1>5, MoveInv

\* A step of a worker in its loop: it takes no new row in hand.
LEMMA WorkerMoves ==
    ASSUME Inv, Shape', NEW w \in Workers, pc[w] \in WorkerLabel,
           NEW label \in WorkerLabel, NEW a \in Args, GoTo(w, label, a),
           retries' = retries, shared' = shared, a.batch \subseteq arg[w].batch,
           a.key \in {None, arg[w].key},
           \A k \in Keys : k \in InHand(w) \/ SameRow(k),
           \A k \in Keys : Counted(k)' \/ SameRow(k),
           Knows(label, a)'
    PROVE  Inv'
<1>1. w \in Procs /\ label \in Labels /\ retries \in Nat /\ retries <= MaxRetries
  BY WorkerHas, Labelled
<1>2. Hand(label, a) \subseteq InHand(w)
  BY <1>1, HandIs, Labelled DEF Hand
<1>3. InHand(w) \cap InOtherHands(w) \subseteq shared
  BY <1>1 DEF InOtherHands, Inv, Apart
<1>4. QED BY <1>1, <1>2, <1>3, MoveInv

LEMMA ClaimInv ==
    ASSUME Inv, Shape', NEW w \in Workers, Claim(w)
    PROVE  Inv'
<1> PICK a : a = arg[w]
  OBVIOUS
<1>0. /\ a \in Args /\ a.batch \subseteq Keys /\ a.batch \subseteq InHand(w)
      /\ \A k \in a.batch \ shared : status[k] = "PENDING"
  BY WorkerHas, Labelled DEF Claim, Knows
<1>1. /\ pc[w] = "claim" /\ GoTo(w, "next", a) /\ UNCHANGED <<attempts, delivered, retries, shared>>
      /\ \A k \in a.batch : status'[k] = "PROCESSING"
      /\ \A k \in Keys : k \notin a.batch => SameRow(k)
  BY <1>0 DEF Claim, history, SameRow
<1>2. ASSUME NEW k \in a.batch
      PROVE  Counted(k)' /\ (k \notin shared => delivered'[k] <= attempts'[k])
  <2>1. Counted(k) /\ attempts[k] \in Nat /\ delivered[k] \in Nat
    BY <1>0, WorkerHas
  <2>2. QED BY <1>0, <1>1, <2>1 DEF Counted
<1>3. Knows("next", a)'
  BY <1>1, <1>2, Labelled DEF Knows
<1>4. QED BY <1>0, <1>1, <1>2, <1>3, Labelled, WorkerMoves

LEMMA NextRowInv ==
    ASSUME Inv, Shape', NEW w \in Workers, NextRow(w)
    PROVE  Inv'
<1>0. /\ Shape /\ w \in Procs /\ arg[w] \in Args /\ arg[w].batch \subseteq Keys
      /\ Knows("next", arg[w]) /\ RowsKept /\ pc[w] = "next" /\ arg[w].batch \subseteq InHand(w)
  BY WorkerHas, Labelled DEF NextRow, RowsKept, outbox, history
<1>1. CASE Return(w)
  BY <1>0, <1>1, ReturnInv
<1>2. ASSUME NEW k \in arg[w].batch,
             GoTo(w, "send", [arg[w] EXCEPT !.key = k, !.batch = @ \ {k}, !.attempts = attempts[k]])
      PROVE  Inv'
  <2> PICK a : a = [arg[w] EXCEPT !.key = k, !.batch = @ \ {k}, !.attempts = attempts[k]]
    OBVIOUS
  <2>1. k \in Keys /\ attempts[k] \in Nat
    BY <1>0 DEF Shape, TablesOK
  <2>2. a \in Args /\ a.key = k /\ a.batch = arg[w].batch \ {k} /\ a.attempts = attempts[k]
    BY <1>0, <2>1, WorkerArgs
  <2>3. \A j \in arg[w].batch \ shared : status[j] = "PROCESSING" /\ delivered[j] <= attempts[j]
    BY <1>0, Labelled DEF Knows
  <2>4. Knows("send", a)'
    BY <1>0, <2>2, <2>3, Labelled DEF Knows, RowsKept
  <2>5. Hand("send", a) \subseteq InHand(w) /\ "send" \in Labels
    BY <1>0, <2>2, Labelled DEF Hand
  <2>6. QED BY <1>0, <1>2, <2>2, <2>4, <2>5, ReadInv
<1>3. QED BY <1>1, <1>2 DEF NextRow

\* A worker at a row.
LEMMA AtOwnRow ==
    ASSUME Inv, NEW w \in Workers, pc[w] \in AtRow
    PROVE  /\ Shape /\ arg[w] \in Args /\ pc[w] \in WorkerLabel
           /\ arg[w].key \in Keys /\ arg[w].key \notin arg[w].batch /\ arg[w].key \in InHand(w)
           /\ arg[w].key \notin shared =>
                status[arg[w].key] = "PROCESSING" /\ arg[w].attempts = attempts[arg[w].key]
           /\ \A k \in arg[w].batch : k \in Keys
           /\ \A k \in arg[w].batch \ shared :
                status[k] = "PROCESSING" /\ delivered[k] <= attempts[k]
  BY WorkerHas, Labelled DEF Knows

LEMMA SendInv ==
    ASSUME Inv, Shape', NEW w \in Workers, Send(w)
    PROVE  Inv'
<1> PICK k, a : k = arg[w].key /\ a = arg[w]
  OBVIOUS
<1>0. pc[w] = "send" /\ pc[w] \in AtRow
  BY DEF Send, AtRow
<1>1. /\ Shape /\ a \in Args /\ k \in Keys /\ k \notin a.batch /\ k = a.key /\ k \in InHand(w)
      /\ k \notin shared => status[k] = "PROCESSING" /\ a.attempts = attempts[k]
      /\ \A j \in a.batch : j \in Keys
      /\ \A j \in a.batch \ shared : status[j] = "PROCESSING" /\ delivered[j] <= attempts[j]
      /\ pc[w] \in WorkerLabel
  BY <1>0, AtOwnRow
<1>2. (k \notin shared => delivered[k] <= attempts[k]) /\ delivered[k] \in Nat /\ attempts[k] \in Nat
  BY <1>0, <1>1, WorkerHas DEF Knows
<1>3. /\ UNCHANGED <<status, attempts, retries, shared>>
      /\ delivered'[k] \in {delivered[k], delivered[k] + 1}
      /\ \A j \in Keys : j # k => delivered'[j] = delivered[j]
  BY <1>1 DEF Send, outbox, Shape, TablesOK
<1>4. Counted(k)'
  <2>1. Counted(k)
    BY <1>1, WorkerHas
  <2>2. QED BY <1>1, <1>2, <1>3, <2>1 DEF Counted
<1>5. \A j \in Keys : j # k => SameRow(j)
  BY <1>3 DEF SameRow
<1>6. ASSUME NEW label \in {"markSent", "markFailed"} PROVE Knows(label, a)'
  BY <1>1, <1>3, Labelled DEF Knows
<1>7. PICK label \in {"markSent", "markFailed"} : GoTo(w, label, a)
  BY DEF Send
<1>8. label \in WorkerLabel
  BY Labelled
<1>9. QED BY <1>1, <1>3, <1>4, <1>5, <1>6, <1>7, <1>8, WorkerMoves

\* Back to the loop, with one row settled.
LEMMA LoopInv ==
    ASSUME Inv, Shape', NEW w \in Workers, pc[w] \in AtRow, Loop(w),
           NEW st \in {"SENT", "FAILED", "PENDING"},
           SetRow(arg[w].key, st, arg[w].attempts + 1),
           st = "PENDING" => arg[w].attempts + 1 < MaxAttempts,
           UNCHANGED <<delivered, retries, shared>>
    PROVE  Inv'
<1> PICK k, b : k = arg[w].key /\ b = arg[w]
  OBVIOUS
<1> PICK a : a = [b EXCEPT !.key = None, !.attempts = 0]
  OBVIOUS
<1>1. /\ Shape /\ b \in Args /\ k \in Keys /\ k \notin b.batch /\ k \in InHand(w)
      /\ k \notin shared => status[k] = "PROCESSING" /\ b.attempts = attempts[k]
      /\ \A j \in b.batch : j \in Keys
      /\ \A j \in b.batch \ shared : status[j] = "PROCESSING" /\ delivered[j] <= attempts[j]
      /\ pc[w] \in WorkerLabel
  BY AtOwnRow
<1>2. a \in Args /\ a.batch = b.batch /\ a.key = None
  BY <1>1, WorkerArgs DEF Args
<1>3. /\ status'[k] = st /\ attempts'[k] = b.attempts + 1
      /\ \A j \in Keys : j # k => SameRow(j)
  BY <1>1 DEF SetRow, Shape, TablesOK, SameRow
<1>4. Counted(k)'
  <2>1. Counted(k) /\ attempts[k] \in Nat /\ delivered[k] \in Nat /\ retries \in Nat
    BY <1>1, WorkerHas
  <2> SUFFICES ASSUME k \notin shared PROVE Counted(k)'
    BY DEF Counted
  <2>2. attempts'[k] = attempts[k] + 1 /\ b.attempts = attempts[k] /\ status[k] = "PROCESSING"
    BY <1>1, <1>3
  <2>3. attempts[k] + 1 <= MaxAttempts + retries /\ delivered[k] <= attempts[k] + 1
    BY <2>1, <2>2, LimitsPositive DEF Counted
  <2>4. st = "PENDING" => attempts[k] + 1 < MaxAttempts + retries
    BY <2>1, <2>2, LimitsPositive
  <2>5. QED BY <1>3, <2>1, <2>2, <2>3, <2>4 DEF Counted
<1>5. Knows("next", a)'
  BY <1>1, <1>2, <1>3, Labelled DEF Knows, SameRow
<1>6. "next" \in WorkerLabel /\ GoTo(w, "next", a)
  BY Labelled DEF Loop
<1>7. QED BY <1>1, <1>2, <1>3, <1>4, <1>5, <1>6, WorkerMoves

LEMMA MarkInv ==
    ASSUME Inv, Shape', NEW w \in Workers, MarkSent(w) \/ MarkFailed(w)
    PROVE  Inv'
<1>0. pc[w] \in AtRow /\ UNCHANGED <<delivered, retries, shared>> /\ w \in Procs
  BY DEF MarkSent, MarkFailed, AtRow, history, Procs
<1>1. arg[w].attempts \in Nat
  BY <1>0, LocalsTyped DEF Inv
<1>2. CASE MarkSent(w)
  <2>1. CASE SetRow(arg[w].key, "SENT", arg[w].attempts + 1) /\ Loop(w)
    BY <1>0, <2>1, LoopInv
  <2>2. CASE GoTo(w, "markFailed", arg[w]) /\ UNCHANGED <<status, attempts>>
    <3> PICK a : a = arg[w]
      OBVIOUS
    <3>1. /\ a \in Args /\ Knows("markFailed", a) /\ pc[w] \in WorkerLabel
      BY <1>0, AtOwnRow, Labelled DEF Knows
    <3>2. RowsKept /\ "markFailed" \in Labels
      BY <1>0, <2>2, Labelled DEF RowsKept
    <3>3. Knows("markFailed", a)'
      BY <3>1, <3>2 DEF Knows, RowsKept
    <3>4. Hand("markFailed", a) = InHand(w)
      BY <1>0, <3>1, HandIs, Labelled DEF Hand
    <3>5. QED BY <1>0, <2>2, <3>1, <3>2, <3>3, <3>4, ReadInv
  <2>3. QED BY <1>2, <2>1, <2>2 DEF MarkSent
<1>3. CASE MarkFailed(w)
  <2> DEFINE n == arg[w].attempts + 1
  <2>1. AfterFailure(n) \in {"FAILED", "PENDING"} /\ (AfterFailure(n) = "PENDING" => n < MaxAttempts)
    BY <1>1, LimitsPositive DEF AfterFailure, GivesUp
  <2>2. SetRow(arg[w].key, AfterFailure(n), n) /\ Loop(w)
    BY <1>3 DEF MarkFailed
  <2>3. QED BY <1>0, <2>1, <2>2, LoopInv
<1>4. QED BY <1>2, <1>3

LEMMA StepInv == Inv /\ [Next]_vars => Inv'
<1> SUFFICES ASSUME Inv, [Next]_vars PROVE Inv'
  OBVIOUS
<1>0. Shape /\ Shape'
  BY StepShape DEF Inv
<1>1. ASSUME NEW w \in Workers, Process(w) PROVE Inv'
  BY <1>0, <1>1, FetchInv, ClaimInv, NextRowInv, SendInv, MarkInv DEF Process
<1>2. ASSUME NEW p \in Procs, Crash(p) PROVE Inv'
  BY <1>0, <1>2, ReturnInv DEF Crash, RowsKept, outbox
<1>3. CASE UNCHANGED vars \/ \E k \in Keys : BackoffOver(k)
  <2>1. RowsKept /\ UNCHANGED callVars
    BY <1>3 DEF BackoffOver, vars, outbox, history, RowsKept
  <2>2. Turn' /\ Apart'
    BY <2>1 DEF Inv, Turn, Apart, InHand, Knows, RowsKept, callVars
  <2>3. \A k \in Keys : Counted(k)'
    BY <2>1 DEF Inv, Counted, RowsKept
  <2>4. QED BY <1>0, <2>1, <2>2, <2>3 DEF Inv, RowsKept
<1>4. QED BY <1>0, <1>1, <1>2, <1>3, ServiceInv, AdminInv DEF Next

LEMMA InitInv == Init => Inv
<1> SUFFICES ASSUME Init PROVE Inv
  OBVIOUS
<1>1. Shape
  BY InitShape
<1>2. \A p \in Procs : pc[p] = "idle"
  BY DEF Init
<1>3. Apart /\ Turn
  BY <1>2, Labelled DEF Apart, InHand, Turn, Knows
<1>4. ASSUME NEW k \in Keys PROVE Counted(k)
  BY LimitsPositive DEF Init, Counted
<1>5. QED BY <1>1, <1>3, <1>4, BoundsAreNumbers DEF Init, Inv

\* The types, with a bound on the attempts at each row that no two processes
\* had in hand at once: MaxAttempts, and one more for each retry by hand, with
\* any number of workers and administrators (processNotificationOutbox).
THEOREM TypeCorrect == Spec => []TypeOK
<1>1. Inv => TypeOK
  <2> SUFFICES ASSUME Inv PROVE TypeOK
    OBVIOUS
  <2>1. ASSUME NEW k \in Keys \ shared PROVE attempts[k] <= MaxAttempts + MaxRetries
    <3>1. attempts[k] \in Nat /\ retries \in Nat /\ retries <= MaxRetries /\ Counted(k)
      BY DEF Inv, Shape, TablesOK
    <3>2. QED BY <3>1, LimitsPositive, BoundsAreNumbers DEF Counted
  <2>2. QED BY <2>1 DEF Inv, Shape, TablesOK, TypeOK, Args
<1>2. QED BY <1>1, InitInv, StepInv, PTL DEF Spec

\* The limit on attempts limits the copies a recipient gets: every message that
\* went out is counted, but for one that is being sent or that a worker died
\* over, at every row that no two processes had in hand at once, whatever any
\* number of workers and administrators do at it (processNotificationOutbox,
\* retryFailedNotification).
THEOREM Counting == Spec => []DeliveriesCounted
<1>1. Inv => DeliveriesCounted
  BY DEF Inv, Counted, DeliveriesCounted
<1>2. QED BY <1>1, InitInv, StepInv, PTL DEF Spec

-----------------------------------------------------------------------------
(*****************************************************************************)
(* The editorial pages: the theorems of Content, for any pages, texts and    *)
(* number of requests, edits and starts: the seed completes its list however *)
(* often it was cut short, edits stay, and a consent names what was read.    *)
(*                                                                           *)
(* ContentView gives its requests, their locals and its bound names of their *)
(* own; the theorems here are about ContentSpec alone.                       *)
(*                                                                           *)
(* The last needs Public: that no version is later than the clock, and that  *)
(* whatever is public, or open on a page, is among what has been published,  *)
(* where a page and a time have one text.                                    *)
(*****************************************************************************)

Versions == [slug : Slugs, text : Pages!Texts, at : Nat]
Blocks   == [text : Pages!Texts, status : Pages!Status, edited : BOOLEAN, at : Nat]
ContentArgs ==
    [slug : Slugs \cup {"none"}, text : Pages!Texts \cup {"none"},
     status : Pages!Status \cup {"none"}, at : Nat]

ContentTypeOK ==
    /\ block \in [Slugs -> Blocks \cup {Pages!NoBlock}]
    /\ consents \subseteq Versions
    /\ published \subseteq Versions
    /\ server \in {"down", "seeding", "up"}
    /\ todo \subseteq Slugs
    /\ seed \in [step : {"find", "insert", "update"}, slug : Slugs \cup {"none"}]
    /\ contentPc \in [ContentRequests -> {"idle", "save", "article"}]
    /\ contentArg \in [ContentRequests -> ContentArgs]
    /\ clock \in Nat

\* A request that saves, or a page that is open, has a page and a text.
ContentLocalsOK == \A r \in ContentRequests :
    contentPc[r] # "idle" =>
        /\ contentArg[r].slug \in Slugs
        /\ contentArg[r].text \in Pages!Texts
        /\ contentArg[r].status \in Pages!Status

ContentShape == ContentTypeOK /\ ContentLocalsOK

-----------------------------------------------------------------------------
(* Types *)

LEMMA NoneTyped ==
    /\ Pages!NoArg \in ContentArgs
    /\ Pages!NoSeed \in [step : {"find", "insert", "update"}, slug : Slugs \cup {"none"}]
  BY DEF Pages!NoArg, ContentArgs, Pages!NoSeed

LEMMA GoToTyped ==
    ASSUME ContentShape, NEW r \in ContentRequests, NEW label \in {"idle", "save", "article"},
           NEW a \in ContentArgs,
           Pages!GoTo(r, label, a),
           label # "idle" => a.slug \in Slugs /\ a.text \in Pages!Texts /\ a.status \in Pages!Status
    PROVE  /\ contentPc' \in [ContentRequests -> {"idle", "save", "article"}]
           /\ contentArg' \in [ContentRequests -> ContentArgs]
           /\ ContentLocalsOK'
  BY DEF ContentShape, ContentTypeOK, ContentLocalsOK, Pages!GoTo

LEMMA ReturnTyped ==
    ASSUME ContentShape, NEW r \in ContentRequests, Pages!Return(r)
    PROVE  /\ contentPc' \in [ContentRequests -> {"idle", "save", "article"}]
           /\ contentArg' \in [ContentRequests -> ContentArgs]
           /\ ContentLocalsOK'
  BY NoneTyped, GoToTyped DEF Pages!Return

LEMMA WriteTyped ==
    ASSUME ContentShape, NEW s \in Slugs, NEW b \in Blocks, Pages!Write(s, b)
    PROVE  /\ block' \in [Slugs -> Blocks \cup {Pages!NoBlock}] /\ clock' \in Nat
           /\ published' \subseteq Versions
  BY DEF ContentShape, ContentTypeOK, Pages!Write, Versions, Blocks

LEMMA SeedBlockTyped ==
    ASSUME ContentShape, NEW s \in Slugs, Pages!WriteBlock(s)
    PROVE  \E b \in Blocks :
             /\ Pages!Write(s, b) /\ b.at = clock + 1 /\ b.text = "seed"
             /\ b.edited = IF seed.step = "insert" THEN FALSE ELSE block[s].edited
<1>1. Pages!SeedBlock(s) \in Blocks
  BY
     DEF Pages!SeedBlock, Pages!SeedStatus, Blocks, Pages!Texts, Pages!Status, ContentShape,
         ContentTypeOK
<1>2. block[s].edited \in BOOLEAN
  <2>1. CASE block[s] = Pages!NoBlock
    BY <2>1 DEF Pages!NoBlock
  <2>2. CASE block[s] \in Blocks
    BY <2>2 DEF Blocks
  <2>3. QED BY <2>1, <2>2 DEF ContentShape, ContentTypeOK
<1> PICK e \in BOOLEAN : e = block[s].edited
  BY <1>2
<1> DEFINE new == [Pages!SeedBlock(s) EXCEPT !.edited = e]
<1>3. new \in Blocks
  BY <1>1 DEF Blocks
<1>4. new.at = clock + 1 /\ new.text = "seed" /\ new.edited = e
  BY <1>1 DEF Pages!SeedBlock
<1>5. Pages!SeedBlock(s).at = clock + 1 /\ Pages!SeedBlock(s).text = "seed" /\ Pages!SeedBlock(s).edited = FALSE
  BY DEF Pages!SeedBlock
<1>6. CASE seed.step = "insert"
  BY <1>1, <1>5, <1>6 DEF Pages!WriteBlock
<1>7. CASE seed.step # "insert"
  BY <1>2, <1>3, <1>4, <1>7 DEF Pages!WriteBlock
<1>8. QED BY <1>6, <1>7

\* What is saved is a block.
LEMMA SavedTyped ==
    ASSUME ContentShape, NEW r \in ContentRequests, contentPc[r] = "save"
    PROVE  /\ contentArg[r].slug \in Slugs
           /\ [text |-> contentArg[r].text, status |-> contentArg[r].status, edited |-> TRUE,
               at |-> clock + 1] \in Blocks
  BY DEF ContentShape, ContentTypeOK, ContentLocalsOK, Blocks

LEMMA WiderRows ==
    ASSUME NEW A, NEW B, NEW C, NEW D, NEW E, NEW F, NEW G, NEW H,
           A \subseteq E, B \subseteq F, C \subseteq G, D \subseteq H
    PROVE  [text : A, status : B, edited : C, at : D] \subseteq
           [text : E, status : F, edited : G, at : H]
  OBVIOUS

LEMMA ShapeInit == Pages!Init => ContentShape
<1> SUFFICES ASSUME Pages!Init PROVE ContentShape
  OBVIOUS
<1>1. Pages!Factory \subseteq Blocks
  <2>1. {"old", "seed"} \subseteq Pages!Texts /\ {FALSE} \subseteq BOOLEAN /\ {0} \subseteq Nat
    BY DEF Pages!Texts
  <2>2. QED BY <2>1, WiderRows, Zenon DEF Pages!Factory, Blocks
<1>2. block \in [Slugs -> Blocks \cup {Pages!NoBlock}]
  BY <1>1 DEF Pages!Init
<1>3. published \subseteq Versions
  <2>1. ASSUME NEW s \in Slugs, block[s].status = "published"
        PROVE  [slug |-> s, text |-> block[s].text, at |-> 0] \in Versions
    BY <1>2, <2>1 DEF Pages!NoBlock, Blocks, Versions
  <2>2. QED BY <2>1 DEF Pages!Init
<1>4. QED BY <1>2, <1>3, NoneTyped DEF Pages!Init, ContentShape, ContentTypeOK, ContentLocalsOK

LEMMA ShapeStep == ContentShape /\ [Pages!Next]_Pages!vars => ContentShape'
<1> SUFFICES ASSUME ContentShape, [Pages!Next]_Pages!vars PROVE ContentShape'
  OBVIOUS
<1>1. CASE Pages!StartServer \/ Pages!ServerUp
  BY <1>1, NoneTyped
     DEF Pages!StartServer, Pages!ServerUp, ContentShape, ContentTypeOK, ContentLocalsOK,
         Pages!rows, Pages!callVars
<1>2. CASE Pages!SeedContentCatalog
  <2>1. PICK s \in todo : Pages!FindBlock(s) \/ Pages!WriteBlock(s)
    BY <1>2 DEF Pages!SeedContentCatalog
  <2>2. s \in Slugs /\ UNCHANGED <<consents, server, Pages!callVars>>
    BY <1>2 DEF Pages!SeedContentCatalog, ContentShape, ContentTypeOK
  <2>3. CASE Pages!FindBlock(s)
    BY <2>2, <2>3, NoneTyped
       DEF Pages!FindBlock, Pages!Find, ContentShape, ContentTypeOK, ContentLocalsOK,
           Pages!callVars
  <2>4. CASE Pages!WriteBlock(s)
    <3>1. PICK b \in Blocks : Pages!Write(s, b)
      BY <2>2, <2>4, SeedBlockTyped
    <3>2. /\ block' \in [Slugs -> Blocks \cup {Pages!NoBlock}] /\ clock' \in Nat
          /\ published' \subseteq Versions
      BY <2>2, <3>1, WriteTyped
    <3>3. QED BY <2>2, <2>4, <3>2, NoneTyped
         DEF Pages!WriteBlock, ContentShape, ContentTypeOK, ContentLocalsOK, Pages!callVars
  <2>5. QED BY <2>1, <2>3, <2>4
<1>3. CASE Pages!Stop
  <2>1. /\ contentPc' \in [ContentRequests -> {"idle", "save", "article"}]
        /\ contentArg' \in [ContentRequests -> ContentArgs]
        /\ ContentLocalsOK'
    BY <1>3, NoneTyped DEF Pages!Stop, ContentShape, ContentTypeOK, ContentLocalsOK
  <2>2. QED BY <1>3, <2>1, NoneTyped DEF Pages!Stop, ContentShape, ContentTypeOK, Pages!rows
<1>4. ASSUME NEW r \in ContentRequests, NEW s \in Slugs, NEW text \in {"old"} \cup Edited,
             NEW shown \in Pages!Status, Pages!UpdateContentBlock(r, s, text, shown)
      PROVE  ContentShape'
  <2>1. [slug |-> s, text |-> text, status |-> shown, at |-> 0] \in ContentArgs /\ text \in Pages!Texts
    BY DEF ContentArgs, Pages!Texts
  <2>2. /\ contentPc' \in [ContentRequests -> {"idle", "save", "article"}]
        /\ contentArg' \in [ContentRequests -> ContentArgs]
        /\ ContentLocalsOK'
    BY <1>4, <2>1, GoToTyped DEF Pages!UpdateContentBlock, Pages!Begin
  <2>3. QED BY <1>4, <2>2
       DEF Pages!UpdateContentBlock, ContentShape, ContentTypeOK, Pages!rows, Pages!seedVars
<1>5. ASSUME NEW r \in ContentRequests, NEW s \in Slugs, Pages!CmsArticle(r, s) PROVE ContentShape'
  <2>1. block[s] \in Blocks
    BY <1>5 DEF Pages!CmsArticle, ContentShape, ContentTypeOK, Pages!NoBlock
  <2>2. [slug |-> s, text |-> block[s].text, status |-> "published", at |-> block[s].at] \in ContentArgs
    BY <2>1 DEF ContentArgs, Blocks, Pages!Status
  <2>3. /\ contentPc' \in [ContentRequests -> {"idle", "save", "article"}]
        /\ contentArg' \in [ContentRequests -> ContentArgs]
        /\ ContentLocalsOK'
    BY <1>5, <2>1, <2>2, GoToTyped DEF Pages!CmsArticle, Pages!Begin, Blocks, Pages!Status
  <2>4. QED BY <1>5, <2>3 DEF Pages!CmsArticle, ContentShape, ContentTypeOK, Pages!rows, Pages!seedVars
<1>6. ASSUME NEW r \in ContentRequests, Pages!Save(r) PROVE ContentShape'
  <2>1. /\ block' \in [Slugs -> Blocks \cup {Pages!NoBlock}] /\ clock' \in Nat
        /\ published' \subseteq Versions
    BY <1>6, SavedTyped, WriteTyped DEF Pages!Save
  <2>2. QED BY <1>6, <2>1, ReturnTyped DEF Pages!Save, ContentShape, ContentTypeOK, Pages!seedVars
<1>7. ASSUME NEW r \in ContentRequests, Pages!RecordPolicyConsent(r) PROVE ContentShape'
  <2>1. [slug |-> contentArg[r].slug, text |-> contentArg[r].text, at |-> contentArg[r].at] \in Versions
    BY <1>7
       DEF Pages!RecordPolicyConsent, ContentShape, ContentTypeOK, ContentLocalsOK, Versions,
           ContentArgs
  <2>2. QED BY <1>7, <2>1, ReturnTyped
       DEF Pages!RecordPolicyConsent, ContentShape, ContentTypeOK, Pages!seedVars
<1>8. ASSUME NEW r \in ContentRequests, Pages!ClosePage(r) PROVE ContentShape'
  BY <1>8, ReturnTyped DEF Pages!ClosePage, ContentShape, ContentTypeOK, Pages!seedVars, Pages!rows
<1>9. CASE UNCHANGED Pages!vars
  BY <1>9
     DEF Pages!vars, Pages!rows, Pages!seedVars, Pages!callVars, ContentShape, ContentTypeOK,
         ContentLocalsOK
<1>10. QED BY <1>1, <1>2, <1>3, <1>4, <1>5, <1>6, <1>7, <1>8, <1>9 DEF Pages!Next

\* The tables, the locals and the clock are of their types.
THEOREM ContentTypeCorrect == ContentSpec => []ContentTypeOK
<1>1. ContentSpec => []ContentShape
  BY ShapeInit, ShapeStep, PTL DEF ContentSpec, Pages!Spec
<1>2. QED BY <1>1, PTL DEF ContentShape

-----------------------------------------------------------------------------
(* The seed *)

Complete(s) == block[s] # Pages!NoBlock /\ ~Pages!ShouldRefresh(s)

\* What the seed has gone through is complete, and the entry it is about to write
\* is still as it was found: no one edits while it runs.
Seeding ==
    /\ server = "down" => todo = {}
    /\ server = "seeding" => \A s \in Slugs \ todo : Complete(s)
    /\ server = "up" => \A s \in Slugs : Complete(s)
    /\ seed.step # "find" => seed.slug \in todo
    /\ seed.step = "insert" => block[seed.slug] = Pages!NoBlock
    /\ seed.step = "update" => block[seed.slug] # Pages!NoBlock /\ Pages!ShouldRefresh(seed.slug)
    /\ server # "seeding" => seed.step = "find"
    /\ \A r \in ContentRequests : contentPc[r] = "save" => server = "up"

LEMMA SeedingInit == Pages!Init => Seeding
  BY DEF Pages!Init, Seeding, Pages!NoSeed

LEMMA SeedingStep == ContentShape /\ Seeding /\ [Pages!Next]_Pages!vars => Seeding'
<1> SUFFICES ASSUME ContentShape, Seeding, [Pages!Next]_Pages!vars PROVE Seeding'
  OBVIOUS
<1>1. CASE Pages!StartServer
  BY <1>1
     DEF Pages!StartServer, Seeding, ContentShape, ContentTypeOK, Complete,
         Pages!ShouldRefresh, Pages!rows, Pages!callVars, Pages!NoSeed
<1>2. CASE Pages!SeedContentCatalog
  <2>1. PICK s \in todo : Pages!FindBlock(s) \/ Pages!WriteBlock(s)
    BY <1>2 DEF Pages!SeedContentCatalog
  <2>2. s \in Slugs /\ server = "seeding" /\ server' = server /\ contentPc' = contentPc
    BY <1>2 DEF Pages!SeedContentCatalog, ContentShape, ContentTypeOK, Pages!callVars
  <2>3. CASE Pages!FindBlock(s)
    BY <2>2, <2>3 DEF Pages!FindBlock, Pages!Find, Seeding, Complete, Pages!ShouldRefresh, Pages!NoSeed
  <2>4. CASE Pages!WriteBlock(s)
    <3>1. /\ \A t \in Slugs : t # s => block'[t] = block[t]
          /\ block'[s] # Pages!NoBlock /\ block'[s].text = "seed"
          /\ todo' = todo \ {s} /\ seed' = Pages!NoSeed
      BY <2>2, <2>4
         DEF Pages!WriteBlock, Pages!Write, Pages!SeedBlock, ContentShape, ContentTypeOK,
             Pages!NoBlock
    <3>2. Complete(s)'
      BY <3>1 DEF Complete, Pages!ShouldRefresh
    <3>3. \A t \in Slugs \ todo' : Complete(t)'
      BY <2>2, <3>1, <3>2 DEF Seeding, Complete, Pages!ShouldRefresh
    <3>4. QED BY <2>2, <3>1, <3>3 DEF Seeding, Pages!NoSeed
  <2>5. QED BY <2>1, <2>3, <2>4
<1>3. CASE Pages!ServerUp
  <2>1. todo = {} /\ server = "seeding" /\ server' = "up" /\ UNCHANGED <<block, seed, todo, contentPc>>
        /\ (seed.step = "find" \/ seed.slug \in todo)
    BY <1>3 DEF Pages!ServerUp, Seeding, Pages!rows, Pages!callVars
  <2>2. ASSUME NEW s \in Slugs PROVE Complete(s)'
    <3>1. Complete(s)
      BY <2>1 DEF Seeding
    <3>2. QED BY <2>1, <3>1 DEF Complete, Pages!ShouldRefresh
  <2>3. seed.step = "find"
    BY <2>1
  <2>4. QED BY <2>1, <2>2, <2>3 DEF Seeding, Complete, Pages!ShouldRefresh
<1>4. CASE Pages!Stop
  BY <1>4 DEF Pages!Stop, Seeding, Pages!NoSeed
<1>5. ASSUME NEW r \in ContentRequests, Pages!Save(r) PROVE Seeding'
  <2>1. contentPc[r] = "save" /\ server = "up" /\ contentArg[r].slug \in Slugs
    BY <1>5, SavedTyped DEF Pages!Save, Seeding
  <2>2. /\ \A t \in Slugs : t # contentArg[r].slug => block'[t] = block[t]
        /\ block'[contentArg[r].slug].edited = TRUE /\ block'[contentArg[r].slug] # Pages!NoBlock
    BY <1>5, <2>1 DEF Pages!Save, Pages!Write, ContentShape, ContentTypeOK, Pages!NoBlock
  <2>3. \A s \in Slugs : Complete(s)'
    BY <2>1, <2>2 DEF Seeding, Complete, Pages!ShouldRefresh
  <2>4. QED BY <1>5, <2>1, <2>3
       DEF Pages!Save, Pages!Return, Pages!GoTo, Pages!seedVars, Seeding, ContentShape,
           ContentTypeOK
<1>6. ASSUME UNCHANGED <<block, Pages!seedVars>>,
             \A r \in ContentRequests : contentPc'[r] = "save" => contentPc[r] = "save" \/ server = "up"
      PROVE  Seeding'
  BY <1>6 DEF Seeding, Complete, Pages!ShouldRefresh, Pages!seedVars
<1>7. ASSUME NEW r \in ContentRequests, NEW s \in Slugs, NEW text, NEW shown,
             Pages!UpdateContentBlock(r, s, text, shown) \/ Pages!CmsArticle(r, s)
      PROVE  Seeding'
  <2>1. UNCHANGED <<block, Pages!seedVars>> /\ server = "up"
    BY <1>7 DEF Pages!UpdateContentBlock, Pages!CmsArticle, Pages!Begin, Pages!rows
  <2>2. QED BY <1>6, <2>1
<1>8. ASSUME NEW r \in ContentRequests, Pages!RecordPolicyConsent(r) \/ Pages!ClosePage(r) PROVE Seeding'
  <2>1. /\ UNCHANGED <<block, Pages!seedVars>>
        /\ \A q \in ContentRequests : contentPc'[q] = "save" => contentPc[q] = "save"
    BY <1>8
       DEF Pages!RecordPolicyConsent, Pages!ClosePage, Pages!Return, Pages!GoTo, Pages!rows,
           ContentShape, ContentTypeOK
  <2>2. QED BY <1>6, <2>1
<1>9. CASE UNCHANGED Pages!vars
  BY <1>6, <1>9 DEF Pages!vars, Pages!rows, Pages!callVars
<1>10. QED BY <1>1, <1>2, <1>3, <1>4, <1>5, <1>7, <1>8, <1>9 DEF Pages!Next

LEMMA SeedInvariant == ContentSpec => [](ContentShape /\ Seeding)
  BY ShapeInit, ShapeStep, SeedingInit, SeedingStep, PTL DEF ContentSpec, Pages!Spec

\* When the server is up the seed's list is complete.
THEOREM SeedsComplete == ContentSpec => []SeedsAreComplete
<1>1. ContentShape /\ Seeding => SeedsAreComplete
  BY DEF Seeding, Complete, SeedsAreComplete, Pages!SeedsAreComplete
<1>2. QED BY <1>1, SeedInvariant, PTL

\* What an administrator has saved changes only when one saves again.
THEOREM EditsStayed == ContentSpec => EditsStay
<1>1. ASSUME ContentShape, Seeding, Pages!Next, NEW s \in Slugs, block[s].edited, block'[s] # block[s]
      PROVE  block'[s].edited /\ \E r \in ContentRequests : contentPc[r] = "save" /\ contentArg[r].slug = s
  <2>1. CASE Pages!SeedContentCatalog
    <3>1. PICK t \in todo : Pages!WriteBlock(t)
      BY <1>1, <2>1 DEF Pages!SeedContentCatalog, Pages!FindBlock
    <3>2. t = s /\ seed.slug = s
      BY <1>1, <3>1 DEF Pages!WriteBlock, Pages!Write, ContentShape, ContentTypeOK
    <3>3. ~block[s].edited
      <4>1. seed.step = "insert" \/ seed.step = "update"
        BY <3>1 DEF Pages!WriteBlock
      <4>2. CASE seed.step = "insert"
        BY <1>1, <3>2, <4>2 DEF Seeding, Pages!NoBlock
      <4>3. CASE seed.step = "update"
        BY <1>1, <3>2, <4>3 DEF Seeding, Pages!ShouldRefresh
      <4>4. QED BY <4>1, <4>2, <4>3
    <3>4. QED BY <1>1, <3>3
  <2>2. ASSUME NEW r \in ContentRequests, Pages!Save(r)
        PROVE  block'[s].edited /\ \E q \in ContentRequests : contentPc[q] = "save" /\ contentArg[q].slug = s
    <3>1. contentPc[r] = "save" /\ contentArg[r].slug = s
      BY <1>1, <2>2 DEF Pages!Save, Pages!Write, ContentShape, ContentTypeOK
    <3>2. block'[s].edited = TRUE
      BY <1>1, <2>2, <3>1 DEF Pages!Save, Pages!Write, ContentShape, ContentTypeOK
    <3>3. QED BY <3>1, <3>2
  <2>3. CASE Pages!StartServer \/ Pages!ServerUp \/ Pages!Stop
    BY <1>1, <2>3 DEF Pages!StartServer, Pages!ServerUp, Pages!Stop, Pages!rows
  <2>4. ASSUME NEW r \in ContentRequests,
               \/ \E t \in Slugs, text \in {"old"} \cup Edited, shown \in Pages!Status :
                    Pages!UpdateContentBlock(r, t, text, shown)
               \/ \E t \in Slugs : Pages!CmsArticle(r, t)
               \/ Pages!RecordPolicyConsent(r) \/ Pages!ClosePage(r)
        PROVE  FALSE
    BY <1>1, <2>4
       DEF Pages!UpdateContentBlock, Pages!CmsArticle, Pages!RecordPolicyConsent,
           Pages!ClosePage, Pages!rows
  <2>5. QED BY <1>1, <2>1, <2>2, <2>3, <2>4 DEF Pages!Next
<1>2. ContentShape /\ Seeding /\ [Pages!Next]_Pages!vars =>
        [\A s \in Slugs :
            block[s].edited /\ block'[s] # block[s] =>
                block'[s].edited /\ \E r \in ContentRequests :
                    contentPc[r] = "save" /\ contentArg[r].slug = s]_Pages!vars
  BY <1>1
<1>3. QED BY <1>2, SeedInvariant, PTL DEF ContentSpec, Pages!Spec, EditsStay, Pages!EditsStay

-----------------------------------------------------------------------------
(* Versions *)

VersionOf(s) == [slug |-> s, text |-> block[s].text, at |-> block[s].at]
Read(r)      == [slug |-> contentArg[r].slug, text |-> contentArg[r].text, at |-> contentArg[r].at]

\* A page and a time have one text, none is later than the clock, and what is
\* public now, is open somewhere or was consented to has been published.
Public ==
    /\ \A p \in published : p.at <= clock
    /\ \A p, q \in published : p.slug = q.slug /\ p.at = q.at => p.text = q.text
    /\ \A s \in Slugs : block[s].status = "published" => VersionOf(s) \in published
    /\ \A r \in ContentRequests : contentPc[r] = "article" => Read(r) \in published
    /\ consents \subseteq published

LEMMA PublicInit == Pages!Init => Public
<1> SUFFICES ASSUME Pages!Init PROVE Public
  OBVIOUS
<1>1. \A s \in Slugs : block[s].at = 0
  <2>1. \A b \in Pages!Factory : b.at = 0
    BY DEF Pages!Factory
  <2>2. Pages!NoBlock.at = 0
    BY DEF Pages!NoBlock
  <2>3. QED BY <2>1, <2>2 DEF Pages!Init
<1>2. \A p \in published : p.at = 0 /\ p.slug \in Slugs /\ p.text = block[p.slug].text
  BY DEF Pages!Init
<1>3. \A s \in Slugs : block[s].status = "published" => VersionOf(s) \in published
  <2>1. ASSUME NEW s \in Slugs, block[s].status = "published"
        PROVE  [slug |-> s, text |-> block[s].text, at |-> 0] \in published
    BY <2>1 DEF Pages!Init
  <2>2. QED BY <1>1, <2>1 DEF VersionOf
<1>4. clock = 0 /\ consents = {} /\ \A r \in ContentRequests : contentPc[r] = "idle"
  BY DEF Pages!Init
<1>5. (\A p \in published : p.at <= clock) /\
      \A p, q \in published : p.slug = q.slug /\ p.at = q.at => p.text = q.text
  BY <1>2, <1>4
<1>6. QED BY <1>3, <1>4, <1>5 DEF Public

\* A block that is written gets a time that no version has.
LEMMA WritePublic ==
    ASSUME ContentShape, Public, NEW s \in Slugs, NEW b \in Blocks, Pages!Write(s, b), b.at = clock + 1,
           UNCHANGED consents,
           \A r \in ContentRequests :
               contentPc'[r] = "article" => contentPc[r] = "article" /\ contentArg'[r] = contentArg[r]
    PROVE  Public'
<1> DEFINE new == [slug |-> s, text |-> b.text, at |-> b.at]
<1>1. /\ clock' = clock + 1 /\ clock \in Nat
      /\ published' = published \/ published' = published \cup {new}
      /\ b.status = "published" => new \in published'
      /\ block'[s] = b /\ \A t \in Slugs : t # s => block'[t] = block[t]
  BY DEF Pages!Write, ContentShape, ContentTypeOK
<1>2. \A p \in published : p.at \in Nat /\ p.at <= clock
  BY DEF Public, ContentShape, ContentTypeOK, Versions
<1>3. \A p \in published' : p.at <= clock'
  BY <1>1, <1>2
<1>4. \A p, q \in published' : p.slug = q.slug /\ p.at = q.at => p.text = q.text
  <2>1. \A p \in published : p.at # new.at
    BY <1>1, <1>2
  <2>2. QED BY <1>1, <2>1 DEF Public
<1>5. ASSUME NEW t \in Slugs, block'[t].status = "published" PROVE VersionOf(t)' \in published'
  BY <1>1, <1>5 DEF Public, VersionOf
<1>6. ASSUME NEW r \in ContentRequests, contentPc'[r] = "article" PROVE Read(r)' \in published'
  BY <1>1, <1>6 DEF Public, Read
<1>7. consents' \subseteq published'
  BY <1>1 DEF Public
<1>8. QED BY <1>3, <1>4, <1>5, <1>6, <1>7 DEF Public, VersionOf, Read

LEMMA KeptPublic ==
    ASSUME Public, UNCHANGED <<block, clock, published>>, consents' \subseteq published,
           \A r \in ContentRequests :
             contentPc'[r] = "article" =>
                 (contentPc[r] = "article" /\ contentArg'[r] = contentArg[r]) \/ Read(r)' \in published
    PROVE  Public'
  BY DEF Public, VersionOf, Read

LEMMA PublicStep == ContentShape /\ Public /\ [Pages!Next]_Pages!vars => Public'
<1> SUFFICES ASSUME ContentShape, Public, [Pages!Next]_Pages!vars PROVE Public'
  OBVIOUS
<1>0. consents \subseteq published
  BY DEF Public
<1>1. CASE Pages!StartServer \/ Pages!ServerUp \/ UNCHANGED Pages!vars
  BY <1>0, <1>1, KeptPublic DEF Pages!StartServer, Pages!ServerUp, Pages!vars, Pages!rows, Pages!callVars
<1>2. CASE Pages!SeedContentCatalog
  <2>1. PICK s \in todo : Pages!FindBlock(s) \/ Pages!WriteBlock(s)
    BY <1>2 DEF Pages!SeedContentCatalog
  <2>2. s \in Slugs /\ UNCHANGED <<consents, contentPc, contentArg>>
    BY <1>2 DEF Pages!SeedContentCatalog, ContentShape, ContentTypeOK, Pages!callVars
  <2>3. CASE Pages!FindBlock(s)
    BY <1>0, <2>2, <2>3, KeptPublic DEF Pages!FindBlock
  <2>4. CASE Pages!WriteBlock(s)
    <3>1. PICK b \in Blocks : Pages!Write(s, b) /\ b.at = clock + 1
      BY <2>2, <2>4, SeedBlockTyped
    <3>2. QED BY <2>2, <3>1, WritePublic
  <2>5. QED BY <2>1, <2>3, <2>4
<1>3. CASE Pages!Stop
  <2>1. UNCHANGED <<block, clock, published, consents>>
        /\ \A r \in ContentRequests :
               contentPc'[r] = "article" => contentPc[r] = "article" /\ contentArg'[r] = contentArg[r]
    BY <1>3 DEF Pages!Stop, Pages!rows
  <2>2. QED BY <1>0, <2>1, KeptPublic
<1>4. ASSUME NEW r \in ContentRequests, NEW s \in Slugs, NEW text, NEW shown,
             Pages!UpdateContentBlock(r, s, text, shown)
      PROVE  Public'
  <2>1. UNCHANGED <<block, clock, published, consents>>
        /\ \A q \in ContentRequests :
               contentPc'[q] = "article" => contentPc[q] = "article" /\ contentArg'[q] = contentArg[q]
    BY <1>4
       DEF Pages!UpdateContentBlock, Pages!Begin, Pages!GoTo, Pages!rows, ContentShape,
           ContentTypeOK
  <2>2. QED BY <1>0, <2>1, KeptPublic
<1>5. ASSUME NEW r \in ContentRequests, NEW s \in Slugs, Pages!CmsArticle(r, s) PROVE Public'
  <2>1. UNCHANGED <<block, clock, published, consents>> /\ VersionOf(s) \in published
    BY <1>5 DEF Pages!CmsArticle, Pages!rows, Public
  <2>2. Read(r)' = VersionOf(s)
    BY <1>5 DEF Pages!CmsArticle, Pages!Begin, Pages!GoTo, Read, VersionOf, ContentShape, ContentTypeOK
  <2>3. \A q \in ContentRequests : q # r => contentPc'[q] = contentPc[q] /\ contentArg'[q] = contentArg[q]
    BY <1>5 DEF Pages!CmsArticle, Pages!Begin, Pages!GoTo, ContentShape, ContentTypeOK
  <2>4. QED BY <1>0, <2>1, <2>2, <2>3, KeptPublic
<1>6. ASSUME NEW r \in ContentRequests, Pages!Return(r)
      PROVE  \A q \in ContentRequests :
                 contentPc'[q] = "article" => contentPc[q] = "article" /\ contentArg'[q] = contentArg[q]
  BY <1>6 DEF Pages!Return, Pages!GoTo, ContentShape, ContentTypeOK
<1>7. ASSUME NEW r \in ContentRequests, Pages!Save(r) PROVE Public'
  <2>1. PICK b \in Blocks : Pages!Write(contentArg[r].slug, b) /\ b.at = clock + 1
    BY <1>7, SavedTyped DEF Pages!Save
  <2>2. Pages!Return(r) /\ UNCHANGED consents /\ contentArg[r].slug \in Slugs
    BY <1>7, SavedTyped DEF Pages!Save
  <2>3. QED BY <1>6, <2>1, <2>2, WritePublic
<1>8. ASSUME NEW r \in ContentRequests, Pages!RecordPolicyConsent(r) PROVE Public'
  <2>1. consents' = consents \cup {Read(r)} /\ Read(r) \in published
    BY <1>8 DEF Pages!RecordPolicyConsent, Read, Public
  <2>2. UNCHANGED <<block, clock, published>> /\ Pages!Return(r)
    BY <1>8 DEF Pages!RecordPolicyConsent
  <2>3. QED BY <1>0, <1>6, <2>1, <2>2, KeptPublic
<1>9. ASSUME NEW r \in ContentRequests, Pages!ClosePage(r) PROVE Public'
  BY <1>0, <1>6, <1>9, KeptPublic DEF Pages!ClosePage, Pages!rows
<1>10. QED BY <1>1, <1>2, <1>3, <1>4, <1>5, <1>7, <1>8, <1>9 DEF Pages!Next

\* A consent names the one text that was public under the version it gives.
THEOREM ConsentsNameTexts == ContentSpec => []ConsentNamesItsText
<1>1. Public => ConsentNamesItsText
  BY DEF Public, ConsentNamesItsText, Pages!ConsentNamesItsText
<1>2. ContentSpec => [](ContentShape /\ Public)
  BY ShapeInit, ShapeStep, PublicInit, PublicStep, PTL DEF ContentSpec, Pages!Spec
<1>3. QED BY <1>1, <1>2, PTL
=============================================================================
