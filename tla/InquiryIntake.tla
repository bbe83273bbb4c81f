--------------------------- MODULE InquiryIntake ----------------------------
(***************************************************************************)
(* What happens to an inquiry that a visitor submits: the view contact of  *)
(* apps/inquiries with its rate limit and its search for duplicates, and   *)
(* notify_new_inquiry of apps/integrations, which mails one alert.          *)
(*                                                                         *)
(* contact runs outside any transaction: the entry of the cache, the row   *)
(* of the inquiry, its audit event, the notification and its outcome are   *)
(* separate steps.  The cache lives in the memory of the one worker, which *)
(* takes it and every request in progress along when it is lost.           *)
(*                                                                         *)
(* A content stands for all that _recent_duplicate compares: listing,      *)
(* email, phone and message, as the view has stripped them.                *)
(***************************************************************************)
EXTENDS Naturals, FiniteSets

CONSTANTS
    Addresses,     \* the addresses that submit
    Contents,
    Inquiries,     \* bound: the rows that can be inserted
    Requests,      \* the requests that can be in progress at the same time
    None,
    RateLimit

ASSUME RateLimitAssumption == RateLimit \in Nat \ {0}

(* gunicorn runs the one worker with a fixed number of threads.             *)
ASSUME RequestsAssumption == IsFiniteSet(Requests)

VARIABLES
    count,         \* the cache: the entry of each address
    inquiry,       \* the Inquiry rows
    notification,  \* the status of the InquiryNotification of each inquiry
    audit,         \* the audit events about inquiries
    recipient,     \* inquiry_notification_email is not blank (it is not edited here)
    delivered,     \* the mails about each inquiry that have arrived
    passed,        \* history: submissions let through since the entry appeared
    lossless,      \* history: no request has failed or been lost
    request        \* where each request is

history == <<passed, lossless>>
vars == <<count, inquiry, notification, audit, recipient, delivered, passed, lossless, request>>

Outcome == {"SENT", "FAILED"}
Event == {"submitted", "notification_sent", "notification_failed"}
Row == [content: Contents, recent: BOOLEAN]

(* The next statement of a request; row is the inquiry it is about, error    *)
(* whether send_mail has raised.                                            *)
Step == {"incr", "set", "check", "suppress", "save", "audit", "notify", "send", "record",
         "report"}
Request ==
    [step: Step, address: Addresses, content: Contents, row: Inquiries \cup {None},
     error: BOOLEAN]

(* None is no row of a table and no request.                                 *)
ASSUME NoneAssumption ==
    None \notin Nat \cup Row \cup Outcome \cup {"PENDING"} \cup Inquiries \cup Request

Init ==
    /\ count = [a \in Addresses |-> None]
    /\ inquiry = [i \in Inquiries |-> None]
    /\ notification = [i \in Inquiries |-> None]
    /\ audit = {}
    /\ recipient \in BOOLEAN
    /\ delivered = [i \in Inquiries |-> 0]
    /\ passed = [a \in Addresses |-> 0]
    /\ lossless = TRUE
    /\ request = [r \in Requests |-> None]

At(r, step) == request[r] # None /\ request[r].step = step
GoTo(r, step) == request' = [request EXCEPT ![r].step = step]
Finish(r) == request' = [request EXCEPT ![r] = None]
Logged(event, i) == audit' = audit \cup {<<event, i>>}

-----------------------------------------------------------------------------
(* _consume_rate_limit.  Above RateLimit the exact count does not matter.   *)

Counted(n) == IF n <= RateLimit THEN n + 1 ELSE n

(* cache.add finds no entry: the submission is the first of its window.     *)
SubmitFirst(r, a, c) ==
    /\ request[r] = None
    /\ count[a] = None
    /\ count' = [count EXCEPT ![a] = 1]
    /\ passed' = [passed EXCEPT ![a] = 1]
    /\ request' = [request EXCEPT ![r] =
           [step |-> "check", address |-> a, content |-> c, row |-> None, error |-> FALSE]]
    /\ UNCHANGED <<inquiry, notification, audit, recipient, delivered, lossless>>

SubmitAgain(r, a, c) ==
    /\ request[r] = None
    /\ count[a] # None
    /\ request' = [request EXCEPT ![r] =
           [step |-> "incr", address |-> a, content |-> c, row |-> None, error |-> FALSE]]
    /\ UNCHANGED <<count, inquiry, notification, audit, recipient, delivered, history>>

(* Mutant of Increment: the count is compared before it is incremented.     *)
IncrementAfterTest(r) ==
    LET a == request[r].address
    IN /\ At(r, "incr")
       /\ count[a] # None
       /\ count' = [count EXCEPT ![a] = Counted(@)]
       /\ IF count[a] <= RateLimit
          THEN GoTo(r, "check") /\ passed' = [passed EXCEPT ![a] = @ + 1]
          ELSE Finish(r) /\ UNCHANGED passed
       /\ UNCHANGED <<inquiry, notification, audit, recipient, delivered, lossless>>

(* cache.incr, and "Too many recent inquiries" above the limit.             *)
Increment(r) ==
    LET a == request[r].address
    IN /\ At(r, "incr")
       /\ count[a] # None
       /\ count' = [count EXCEPT ![a] = Counted(@)]
       /\ IF Counted(count[a]) <= RateLimit
          THEN GoTo(r, "check") /\ passed' = [passed EXCEPT ![a] = @ + 1]
          ELSE Finish(r) /\ UNCHANGED passed
       /\ UNCHANGED <<inquiry, notification, audit, recipient, delivered, lossless>>

(* The entry has gone between cache.add and cache.incr: ValueError.         *)
IncrementFails(r) ==
    /\ At(r, "incr")
    /\ count[request[r].address] = None
    /\ GoTo(r, "set")
    /\ UNCHANGED <<count, inquiry, notification, audit, recipient, delivered, history>>

(* Mutant of SetCount: the submission at hand is not counted.               *)
SetCountToZero(r) ==
    LET a == request[r].address
    IN /\ At(r, "set")
       /\ count' = [count EXCEPT ![a] = 0]
       /\ passed' = [passed EXCEPT ![a] = @ + 1]
       /\ GoTo(r, "check")
       /\ UNCHANGED <<inquiry, notification, audit, recipient, delivered, lossless>>

(* cache.set, over the entry another request may have added meanwhile.      *)
SetCount(r) ==
    LET a == request[r].address
    IN /\ At(r, "set")
       /\ count' = [count EXCEPT ![a] = 1]
       /\ passed' = [passed EXCEPT ![a] = @ + 1]
       /\ GoTo(r, "check")
       /\ UNCHANGED <<inquiry, notification, audit, recipient, delivered, lossless>>

(* RATE_WINDOW_SECONDS have passed, or the full cache was culled.           *)
EntryVanishes(a) ==
    /\ count[a] # None
    /\ count' = [count EXCEPT ![a] = None]
    /\ passed' = [passed EXCEPT ![a] = 0]
    /\ UNCHANGED <<inquiry, notification, audit, recipient, delivered, request, lossless>>

-----------------------------------------------------------------------------
RecentOf(c) ==
    {i \in Inquiries : inquiry[i] # None /\ inquiry[i].content = c /\ inquiry[i].recent}

(* Mutant of Check: the comparison with the window is turned round.         *)
CheckTurnedRound(r) ==
    LET old == {i \in Inquiries : inquiry[i] # None /\ ~inquiry[i].recent
                                  /\ inquiry[i].content = request[r].content}
    IN /\ At(r, "check")
       /\ \/ old = {} /\ GoTo(r, "save")
          \/ \E i \in old :
                request' = [request EXCEPT ![r].step = "suppress", ![r].row = i]
       /\ UNCHANGED <<count, inquiry, notification, audit, recipient, delivered, history>>

(* _recent_duplicate *)
Check(r) ==
    LET recent == RecentOf(request[r].content)
    IN /\ At(r, "check")
       /\ \/ recent = {} /\ GoTo(r, "save")
          \/ \E i \in recent :
                request' = [request EXCEPT ![r].step = "suppress", ![r].row = i]
       /\ UNCHANGED <<count, inquiry, notification, audit, recipient, delivered, history>>

(* The visitor is thanked for the inquiry that is there already.  Of the     *)
(* events only those that a property compares with the table are kept:      *)
(* duplicate_suppressed is not.                                              *)
Suppress(r) ==
    /\ At(r, "suppress")
    /\ Finish(r)
    /\ UNCHANGED <<count, inquiry, notification, audit, recipient, delivered, history>>

Save(r, i) ==
    /\ At(r, "save")
    /\ inquiry[i] = None
    /\ inquiry' = [inquiry EXCEPT ![i] = [content |-> request[r].content, recent |-> TRUE]]
    /\ request' = [request EXCEPT ![r].step = "audit", ![r].row = i]
    /\ UNCHANGED <<count, notification, audit, recipient, delivered, history>>

LogSubmission(r) ==
    /\ At(r, "audit")
    /\ Logged("submitted", request[r].row)
    /\ GoTo(r, "notify")
    /\ UNCHANGED <<count, inquiry, notification, recipient, delivered, history>>

(* DUPLICATE_WINDOW_MINUTES have passed.                                    *)
Age(i) ==
    /\ inquiry[i] # None
    /\ inquiry[i].recent
    /\ inquiry' = [inquiry EXCEPT ![i].recent = FALSE]
    /\ UNCHANGED <<count, notification, audit, recipient, delivered, history, request>>

-----------------------------------------------------------------------------
(* notify_new_inquiry *)

(* Mutant of Notify: the notification is created with its final status.     *)
NotifyAsSent(r) ==
    LET i == request[r].row
    IN /\ At(r, "notify")
       /\ IF ~recipient \/ notification[i] # None
          THEN Finish(r) /\ UNCHANGED notification
          ELSE notification' = [notification EXCEPT ![i] = "SENT"] /\ GoTo(r, "send")
       /\ UNCHANGED <<count, inquiry, audit, recipient, delivered, history>>

(* Nobody is to be told, or get_or_create finds the row of somebody else.   *)
Notify(r) ==
    LET i == request[r].row
    IN /\ At(r, "notify")
       /\ IF ~recipient \/ notification[i] # None
          THEN Finish(r) /\ UNCHANGED notification
          ELSE notification' = [notification EXCEPT ![i] = "PENDING"] /\ GoTo(r, "send")
       /\ UNCHANGED <<count, inquiry, audit, recipient, delivered, history>>

(* send_mail: a mail may arrive although it raises (the answer of the       *)
(* server is lost, or comes after EMAIL_TIMEOUT).                           *)
Send(r, arrives, error) ==
    /\ At(r, "send")
    /\ arrives \/ error
    /\ delivered' = IF arrives THEN [delivered EXCEPT ![request[r].row] = @ + 1] ELSE delivered
    /\ request' = [request EXCEPT ![r].step = "record", ![r].error = error]
    /\ UNCHANGED <<count, inquiry, notification, audit, recipient, history>>

(* Mutants of Record: a failed mail is sent once more; a failed mail is     *)
(* swallowed without a trace.                                               *)
RecordOrRetry(r) ==
    /\ At(r, "record")
    /\ IF request[r].error
       THEN GoTo(r, "send") /\ UNCHANGED notification
       ELSE /\ notification' = [notification EXCEPT ![request[r].row] = "SENT"]
            /\ GoTo(r, "report")
    /\ UNCHANGED <<count, inquiry, audit, recipient, delivered, history>>
RecordSuccessOnly(r) ==
    /\ At(r, "record")
    /\ IF request[r].error
       THEN Finish(r) /\ UNCHANGED notification
       ELSE /\ notification' = [notification EXCEPT ![request[r].row] = "SENT"]
            /\ GoTo(r, "report")
    /\ UNCHANGED <<count, inquiry, audit, recipient, delivered, history>>

Record(r) ==
    /\ At(r, "record")
    /\ notification' = [notification EXCEPT ![request[r].row] =
                           IF request[r].error THEN "FAILED" ELSE "SENT"]
    /\ GoTo(r, "report")
    /\ UNCHANGED <<count, inquiry, audit, recipient, delivered, history>>

(* The outcome is in the audit log and the visitor is thanked.              *)
Report(r) ==
    /\ At(r, "report")
    /\ Logged(IF request[r].error THEN "notification_failed" ELSE "notification_sent",
              request[r].row)
    /\ Finish(r)
    /\ UNCHANGED <<count, inquiry, notification, recipient, delivered, history>>

-----------------------------------------------------------------------------
(* A statement on the database raises: the visitor sees an error page.  The *)
(* cache is not in the database, and whatever send_mail raises is caught.    *)
Fail(r) ==
    /\ request[r] # None
    /\ request[r].step \notin {"incr", "set", "send"}
    /\ Finish(r)
    /\ lossless' = FALSE
    /\ UNCHANGED <<count, inquiry, notification, audit, recipient, delivered, passed>>

(* The worker is lost or restarted, with its requests and its cache.        *)
Crash ==
    /\ request' = [r \in Requests |-> None]
    /\ count' = [a \in Addresses |-> None]
    /\ passed' = [a \in Addresses |-> 0]
    /\ lossless' = FALSE
    /\ UNCHANGED <<inquiry, notification, audit, recipient, delivered>>

Next ==
    \/ \E r \in Requests :
          \/ \E a \in Addresses, c \in Contents : SubmitFirst(r, a, c) \/ SubmitAgain(r, a, c)
          \/ Increment(r)
          \/ IncrementFails(r)
          \/ SetCount(r)
          \/ Check(r)
          \/ Suppress(r)
          \/ \E i \in Inquiries : Save(r, i)
          \/ LogSubmission(r)
          \/ Notify(r)
          \/ \E arrives, error \in BOOLEAN : Send(r, arrives, error)
          \/ Record(r)
          \/ Report(r)
          \/ Fail(r)
    \/ \E a \in Addresses : EntryVanishes(a)
    \/ \E i \in Inquiries : Age(i)
    \/ Crash

Spec == Init /\ [][Next]_vars

-----------------------------------------------------------------------------
TypeOK ==
    /\ count \in [Addresses -> (1 .. RateLimit + 1) \cup {None}]
    /\ inquiry \in [Inquiries -> Row \cup {None}]
    /\ notification \in [Inquiries -> Outcome \cup {"PENDING", None}]
    /\ audit \subseteq Event \X Inquiries
    /\ recipient \in BOOLEAN
    /\ delivered \in [Inquiries -> Nat]
    /\ passed \in [Addresses -> Nat]
    /\ lossless \in BOOLEAN
    /\ request \in [Requests -> Request \cup {None}]

(* One mail at most is sent about an inquiry, whatever fails, is submitted  *)
(* again or raises although it has arrived (notify_new_inquiry).            *)
AlertsAreSentOnce == \A i \in Inquiries : delivered[i] <= 1

(* The notification and the audit log tell the truth: SENT means that the   *)
(* mail has arrived, an event of the log has its outcome in the table, and   *)
(* no mail is about an inquiry that is not stored.                          *)
OutcomeIsTrue ==
    \A i \in Inquiries :
        /\ notification[i] = "SENT" => delivered[i] = 1
        /\ <<"notification_sent", i>> \in audit => notification[i] = "SENT"
        /\ <<"notification_failed", i>> \in audit => notification[i] = "FAILED"
        /\ delivered[i] > 0 => inquiry[i] # None /\ notification[i] # None

(* The search for duplicates takes no lock, so requests that look at the    *)
(* same time may each store the content; but there are never more recent    *)
(* copies than requests at a time (_recent_duplicate).                       *)
CopiesAreBounded == \A c \in Contents : Cardinality(RecentOf(c)) <= Cardinality(Requests)

(* While the entry of an address lasts, no more than RateLimit submissions  *)
(* of it pass for each request that can run at a time: one at a time, the   *)
(* limit is exact; a cache.set that comes late starts the count over        *)
(* (_consume_rate_limit).                                                   *)
LimitIsBounded ==
    \A a \in Addresses : passed[a] <= RateLimit * Cardinality(Requests)

(* An inquiry that is stored, has no outcome and is in nobody's hands.       *)
InHand(i) ==
    \E r \in Requests : request[r] # None /\ request[r].row = i /\ request[r].step # "suppress"
Orphan(i) == inquiry[i] # None /\ notification[i] \notin Outcome /\ ~InHand(i)

(* Only an error of the database or a lost worker leaves an inquiry without  *)
(* its events or the outcome of its alert: no path of contact or of          *)
(* notify_new_inquiry does, a mail that raises and a repetition included.    *)
NothingIsForgotten ==
    lossless =>
        \A i \in Inquiries :
            inquiry[i] # None /\ ~InHand(i) =>
                /\ <<"submitted", i>> \in audit
                /\ recipient => /\ notification[i] \in Outcome
                                /\ \/ <<"notification_sent", i>> \in audit
                                   \/ <<"notification_failed", i>> \in audit

(* Nobody is thanked for an inquiry whose alert was never sent and never    *)
(* will be: "one alert whenever a customer submits a new inquiry".          *)
NoThanksForOrphans ==
    [][\A r \in Requests :
          recipient /\ Suppress(r) => ~Orphan(request[r].row)]_vars

=============================================================================
