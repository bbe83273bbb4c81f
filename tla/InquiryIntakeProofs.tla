------------------------ MODULE InquiryIntakeProofs -------------------------
(***************************************************************************)
(* Proofs about InquiryIntake, for every number of requests and inquiries  *)
(* and every limit: one mail at most is sent about an inquiry, and the     *)
(* notifications and the audit log tell the truth about it.  The argument: *)
(* the one request that has stored an inquiry has it to itself, and moves  *)
(* its notification from none to PENDING to its outcome.                   *)
(***************************************************************************)
EXTENDS InquiryIntake, FiniteSetTheorems, TLAPS

(* The steps of a request that has stored an inquiry.                       *)
MailStep == {"audit", "notify", "send", "record", "report"}
Mails(r) == request[r] # None /\ request[r].step \in MailStep

(* How far the notification is, by the step of the request that mails.      *)
Progress(r) ==
    LET i == request[r].row
        step == request[r].step
    IN /\ i \in Inquiries
       /\ inquiry[i] # None
       /\ step \in {"audit", "notify"} => notification[i] = None
       /\ step \in {"send", "record"} => notification[i] = "PENDING"
       /\ step = "send" => delivered[i] = 0
       /\ step = "record" /\ ~request[r].error => delivered[i] = 1
       /\ step = "report" =>
             notification[i] = IF request[r].error THEN "FAILED" ELSE "SENT"

MailersProgress == \A r \in Requests : Mails(r) => Progress(r)
OneMailerEach ==
    \A r, q \in Requests : Mails(r) /\ Mails(q) /\ r # q => request[r].row # request[q].row
(* What the tables and the log say of one inquiry.                           *)
RowFacts(i) ==
    /\ inquiry[i] = None => notification[i] = None
    /\ notification[i] = None => delivered[i] = 0
    /\ delivered[i] <= 1
    /\ notification[i] = "SENT" => delivered[i] = 1
    /\ <<"notification_sent", i>> \in audit => notification[i] = "SENT"
    /\ <<"notification_failed", i>> \in audit => notification[i] = "FAILED"
    /\ delivered[i] > 0 => inquiry[i] # None /\ notification[i] # None

MailInv ==
    /\ TypeOK
    /\ MailersProgress
    /\ OneMailerEach
    /\ \A i \in Inquiries : RowFacts(i)

LEMMA RequestFields ==
  ASSUME NEW req \in Request
  PROVE  /\ req.step \in Step /\ req.address \in Addresses /\ req.content \in Contents
         /\ req.row \in Inquiries \cup {None} /\ req.error \in BOOLEAN
         /\ req # None
  BY NoneAssumption DEF Request

(* None is no row, no outcome and no number.                                *)
LEMMA NoneIsNothing ==
  /\ None \notin Nat /\ None \notin Row /\ None \notin Outcome
  /\ None # "PENDING" /\ None \notin Inquiries
  BY NoneAssumption

-----------------------------------------------------------------------------
(* A request that goes on, takes a row or ends keeps its type.              *)
RequestsTyped == request \in [Requests -> Request \cup {None}]

LEMMA Begun ==
  ASSUME TypeOK, NEW r \in Requests, NEW a \in Addresses, NEW c \in Contents,
         NEW step \in Step,
         request' = [request EXCEPT ![r] =
             [step |-> step, address |-> a, content |-> c, row |-> None, error |-> FALSE]]
  PROVE  RequestsTyped'
  <1>1. [step |-> step, address |-> a, content |-> c, row |-> None, error |-> FALSE] \in Request
    BY DEF Request
  <1>2. QED
    BY <1>1 DEF TypeOK, RequestsTyped

LEMMA Gone ==
  ASSUME TypeOK, NEW r \in Requests, request[r] # None, NEW step \in Step, GoTo(r, step)
  PROVE  RequestsTyped'
  <1>1. request[r] \in Request
    BY DEF TypeOK
  <1>2. [request[r] EXCEPT !.step = step] \in Request
    BY <1>1 DEF Request
  <1>3. request' = [request EXCEPT ![r] = [request[r] EXCEPT !.step = step]]
    BY DEF GoTo, TypeOK
  <1>4. QED
    BY <1>2, <1>3 DEF TypeOK, RequestsTyped

LEMMA WithRow ==
  ASSUME TypeOK, NEW r \in Requests, request[r] # None, NEW step \in Step, NEW i \in Inquiries,
         request' = [request EXCEPT ![r].step = step, ![r].row = i]
  PROVE  RequestsTyped'
  <1>1. request[r] \in Request
    BY DEF TypeOK
  <1> DEFINE req == [[request[r] EXCEPT !.step = step] EXCEPT !.row = i]
  <1>2. req \in Request
    BY <1>1 DEF Request
  <1>3. request' = [request EXCEPT ![r] = req]
    BY DEF TypeOK
  <1>4. QED
    BY <1>2, <1>3 DEF TypeOK, RequestsTyped

LEMMA Finished ==
  ASSUME TypeOK, NEW r \in Requests, Finish(r)
  PROVE  RequestsTyped'
  BY DEF TypeOK, Finish, RequestsTyped

LEMMA CountedType ==
  ASSUME NEW n \in 1 .. RateLimit + 1
  PROVE  Counted(n) \in 1 .. RateLimit + 1
  BY RateLimitAssumption DEF Counted

LEMMA InitTyped == Init => TypeOK
  BY DEF Init, TypeOK

(* What is logged or mailed is about a row only because of MailersProgress. *)
LEMMA NextTyped == TypeOK /\ MailersProgress /\ [Next]_vars => TypeOK'
  <1> SUFFICES ASSUME TypeOK, MailersProgress, [Next]_vars PROVE TypeOK'
    OBVIOUS
  <1> USE RateLimitAssumption
  <1>a. /\ \A r \in Requests : request[r] # None => request[r] \in Request
        /\ \A a \in Addresses : count[a] # None => count[a] \in 1 .. RateLimit + 1
        /\ \A a \in Addresses : passed[a] + 1 \in Nat
        /\ \A i \in Inquiries : delivered[i] + 1 \in Nat
        /\ \A i \in Inquiries : inquiry[i] # None => inquiry[i] \in Row
    BY DEF TypeOK
  <1>b. \A r \in Requests : request[r] # None /\ request[r].step \in MailStep =>
           request[r].row \in Inquiries
    BY DEF MailersProgress, Mails, Progress
  <1>1. ASSUME NEW r \in Requests, NEW a \in Addresses, NEW c \in Contents,
               SubmitFirst(r, a, c) \/ SubmitAgain(r, a, c)
        PROVE  TypeOK'
    <2>1. RequestsTyped'
      BY <1>1, Begun DEF SubmitFirst, SubmitAgain, Step
    <2>2. QED
      BY <1>1, <2>1 DEF SubmitFirst, SubmitAgain, TypeOK, RequestsTyped, history
  <1>2. ASSUME NEW r \in Requests, Increment(r)
        PROVE  TypeOK'
    <2>1. RequestsTyped'
      BY <1>2, Gone, Finished DEF Increment, At, Step
    <2> DEFINE a == request[r].address
    <2>2. a \in Addresses
      BY <1>2, <1>a, RequestFields DEF Increment, At
    <2>3. Counted(count[a]) \in 1 .. RateLimit + 1
      BY <1>2, <1>a, <2>2, CountedType DEF Increment
    <2>4. count' \in [Addresses -> (1 .. RateLimit + 1) \cup {None}]
      BY <1>2, <2>2, <2>3 DEF Increment, TypeOK
    <2>5. passed' \in [Addresses -> Nat]
      BY <1>2, <1>a, <2>2 DEF Increment, TypeOK
    <2>6. QED
      BY <1>2, <2>1, <2>4, <2>5 DEF Increment, TypeOK, RequestsTyped
  <1>3. ASSUME NEW r \in Requests, SetCount(r)
        PROVE  TypeOK'
    <2>1. RequestsTyped'
      BY <1>3, Gone DEF SetCount, At, Step
    <2>2. request[r].address \in Addresses
      BY <1>3, <1>a, RequestFields DEF SetCount, At
    <2>3. QED
      BY <1>3, <1>a, <2>1, <2>2 DEF SetCount, TypeOK, RequestsTyped
  <1>4. ASSUME NEW r \in Requests, IncrementFails(r) \/ Check(r) \/ Suppress(r)
        PROVE  TypeOK'
    <2>1. RequestsTyped'
      BY <1>4, Gone, WithRow, Finished
         DEF IncrementFails, Check, Suppress, At, Step, RecentOf
    <2>2. QED
      BY <1>4, <2>1 DEF IncrementFails, Check, Suppress, TypeOK, RequestsTyped, history
  <1>5. ASSUME NEW r \in Requests, NEW i \in Inquiries, Save(r, i)
        PROVE  TypeOK'
    <2>1. RequestsTyped'
      BY <1>5, WithRow DEF Save, At, Step
    <2>2. [content |-> request[r].content, recent |-> TRUE] \in Row
      BY <1>5, <1>a, RequestFields DEF Save, At, Row
    <2>3. QED
      BY <1>5, <2>1, <2>2 DEF Save, TypeOK, RequestsTyped, history
  <1>6. ASSUME NEW r \in Requests, LogSubmission(r) \/ Report(r)
        PROVE  TypeOK'
    <2>1. RequestsTyped'
      BY <1>6, Gone, Finished DEF LogSubmission, Report, At, Step
    <2>2. request[r].row \in Inquiries
      BY <1>6, <1>b DEF LogSubmission, Report, At, MailStep
    <2>3. audit' \subseteq Event \X Inquiries
      BY <1>6, <2>2 DEF LogSubmission, Report, Logged, Event, TypeOK
    <2>4. QED
      BY <1>6, <2>1, <2>3 DEF LogSubmission, Report, TypeOK, RequestsTyped, history
  <1>7. ASSUME NEW r \in Requests, Notify(r) \/ Record(r)
        PROVE  TypeOK'
    <2>1. RequestsTyped'
      BY <1>7, Gone, Finished DEF Notify, Record, At, Step
    <2>2. notification' \in [Inquiries -> Outcome \cup {"PENDING", None}]
      BY <1>7 DEF Notify, Record, Outcome, TypeOK
    <2>3. QED
      BY <1>7, <2>1, <2>2 DEF Notify, Record, TypeOK, RequestsTyped, history
  <1>8. ASSUME NEW r \in Requests, NEW arrives \in BOOLEAN, NEW error \in BOOLEAN,
               Send(r, arrives, error)
        PROVE  TypeOK'
    <2>1. request[r] # None /\ request[r] \in Request
      BY <1>8, <1>a DEF Send, At
    <2> DEFINE req == [[request[r] EXCEPT !.step = "record"] EXCEPT !.error = error]
    <2>2. req \in Request
      BY <2>1 DEF Request, Step
    <2>3. request' = [request EXCEPT ![r] = req]
      BY <1>8 DEF Send, TypeOK
    <2> HIDE DEF req
    <2>4. RequestsTyped'
      BY <2>2, <2>3 DEF RequestsTyped, TypeOK
    <2>5. delivered' \in [Inquiries -> Nat]
      BY <1>8, <1>a DEF Send, TypeOK
    <2>6. QED
      BY <1>8, <2>4, <2>5 DEF Send, TypeOK, RequestsTyped, history
  <1>9. ASSUME NEW r \in Requests, Fail(r)
        PROVE  TypeOK'
    <2>1. RequestsTyped'
      BY <1>9, Finished DEF Fail
    <2>2. QED
      BY <1>9, <2>1 DEF Fail, TypeOK, RequestsTyped
  <1>10. ASSUME NEW a \in Addresses, EntryVanishes(a)
         PROVE  TypeOK'
    BY <1>10 DEF EntryVanishes, TypeOK
  <1>11. ASSUME NEW i \in Inquiries, Age(i)
         PROVE  TypeOK'
    <2> DEFINE row == [inquiry[i] EXCEPT !.recent = FALSE]
    <2>1. row \in Row
      BY <1>11, <1>a DEF Age, Row
    <2>2. inquiry' = [inquiry EXCEPT ![i] = row]
      BY <1>11 DEF Age, TypeOK
    <2> HIDE DEF row
    <2>3. QED
      BY <1>11, <2>1, <2>2 DEF Age, TypeOK, history
  <1>12. CASE Crash
    BY <1>12 DEF Crash, TypeOK
  <1>13. CASE UNCHANGED vars
    BY <1>13 DEF vars, TypeOK
  <1>14. QED
    BY <1>1, <1>2, <1>3, <1>4, <1>5, <1>6, <1>7, <1>8, <1>9, <1>10, <1>11, <1>12, <1>13
       DEF Next

-----------------------------------------------------------------------------
(* The steps that are about no mail, or abandon one.                        *)
LEMMA QuietKeepsMailInv ==
  ASSUME MailInv, TypeOK',
         UNCHANGED <<notification, delivered, audit>>,
         \A i \in Inquiries : inquiry'[i] = None <=> inquiry[i] = None,
         \A r \in Requests : Mails(r)' => request'[r] = request[r]
  PROVE  MailInv'
  <1>1. \A r \in Requests : Mails(r)' => Mails(r) /\ request'[r] = request[r]
    BY DEF Mails
  <1>2. MailersProgress'
    BY <1>1 DEF MailInv, MailersProgress, Progress
  <1>3. OneMailerEach'
    BY <1>1 DEF MailInv, OneMailerEach
  <1>4. \A i \in Inquiries : RowFacts(i)'
    BY DEF MailInv, RowFacts
  <1>5. QED
    BY <1>2, <1>3, <1>4 DEF MailInv

(* The steps of the one request that mails about inquiry i.                 *)
LEMMA MailerKeepsMailInv ==
  ASSUME MailInv, TypeOK', NEW r \in Requests, NEW i \in Inquiries,
         \A q \in Requests : q # r => request'[q] = request[q],
         \A q \in Requests : q # r /\ Mails(q) => request[q].row # i,
         \A j \in Inquiries : j # i =>
            /\ inquiry'[j] = inquiry[j] /\ notification'[j] = notification[j]
            /\ delivered'[j] = delivered[j],
         \A j \in Inquiries, e \in Event : j # i => (<<e, j>> \in audit' <=> <<e, j>> \in audit),
         Mails(r)' => request'[r].row = i /\ Progress(r)',
         RowFacts(i)'
  PROVE  MailInv'
  <1>1. \A q \in Requests : q # r /\ Mails(q)' =>
            Mails(q) /\ request'[q] = request[q] /\ request[q].row # i
    BY DEF Mails
  <1>2. MailersProgress'
    <2> SUFFICES ASSUME NEW q \in Requests, Mails(q)' PROVE Progress(q)'
      BY DEF MailersProgress
    <2>1. CASE q = r
      BY <2>1
    <2>2. CASE q # r
      <3>1. Progress(q) /\ request'[q] = request[q] /\ request[q].row # i
        BY <2>2, <1>1 DEF MailInv, MailersProgress
      <3>2. QED
        BY <3>1 DEF Progress
    <2>3. QED
      BY <2>1, <2>2
  <1>3. OneMailerEach'
    BY <1>1 DEF MailInv, OneMailerEach
  <1>4. \A j \in Inquiries : RowFacts(j)'
    BY DEF MailInv, RowFacts, Event
  <1>5. QED
    BY <1>2, <1>3, <1>4 DEF MailInv

(* What GoTo does to the requests.                                          *)
LEMMA GoToFields ==
  ASSUME TypeOK, NEW r \in Requests, request[r] # None, NEW step \in Step, GoTo(r, step)
  PROVE  /\ request'[r] # None
         /\ request'[r].step = step
         /\ request'[r].row = request[r].row
         /\ request'[r].error = request[r].error
         /\ request'[r].address = request[r].address
         /\ request'[r].content = request[r].content
         /\ \A q \in Requests : q # r => request'[q] = request[q]
  <1>1. request[r] \in Request
    BY DEF TypeOK
  <1> DEFINE req == [request[r] EXCEPT !.step = step]
  <1>2. req \in Request /\ req.step = step /\ req.row = request[r].row
        /\ req.error = request[r].error /\ req.address = request[r].address
        /\ req.content = request[r].content
    BY <1>1 DEF Request
  <1>3. request' = [request EXCEPT ![r] = req]
    BY DEF GoTo, TypeOK
  <1>4. req # None
    BY <1>2, RequestFields
  <1> HIDE DEF req
  <1>5. QED
    BY <1>2, <1>3, <1>4 DEF TypeOK

LEMMA InitMailInv == Init => MailInv
  BY InitTyped, NoneIsNothing
     DEF Init, MailInv, MailersProgress, OneMailerEach, Mails, RowFacts, Outcome

LEMMA NextMailInv == MailInv /\ [Next]_vars => MailInv'
  <1> SUFFICES ASSUME MailInv, [Next]_vars PROVE MailInv'
    OBVIOUS
  <1>a. TypeOK /\ TypeOK' /\ MailersProgress /\ OneMailerEach
    BY NextTyped DEF MailInv
  <1>b. \A i \in Inquiries : RowFacts(i)
    BY DEF MailInv
  <1>c. \A r \in Requests : request[r] # None => request[r] \in Request
    BY <1>a DEF TypeOK
  <1>d. \A r \in Requests : Mails(r) =>
           /\ request[r].row \in Inquiries
           /\ Progress(r)
           /\ \A q \in Requests : q # r /\ Mails(q) => request[q].row # request[r].row
    BY <1>a DEF MailersProgress, OneMailerEach, Progress
  <1>1. ASSUME NEW r \in Requests, NEW a \in Addresses, NEW c \in Contents,
               SubmitFirst(r, a, c) \/ SubmitAgain(r, a, c)
        PROVE  MailInv'
    <2>1. \A q \in Requests : Mails(q)' => request'[q] = request[q]
      BY <1>1, <1>a DEF SubmitFirst, SubmitAgain, Mails, MailStep, TypeOK
    <2>2. QED
      BY <1>1, <2>1, <1>a, QuietKeepsMailInv DEF SubmitFirst, SubmitAgain
  <1>2. ASSUME NEW r \in Requests,
               \/ Increment(r) \/ IncrementFails(r) \/ SetCount(r) \/ Check(r) \/ Suppress(r)
        PROVE  MailInv'
    <2>1. \A q \in Requests : Mails(q)' => request'[q] = request[q]
      BY <1>2, <1>a, <1>c DEF Increment, IncrementFails, SetCount, Check, Suppress, GoTo, Finish,
         At, Mails, MailStep, TypeOK, Request
    <2>2. UNCHANGED <<inquiry, notification, delivered, audit>>
      BY <1>2 DEF Increment, IncrementFails, SetCount, Check, Suppress
    <2>3. QED
      BY <2>1, <2>2, <1>a, QuietKeepsMailInv
  <1>3. ASSUME NEW r \in Requests, Fail(r)
        PROVE  MailInv'
    <2>1. \A q \in Requests : Mails(q)' => request'[q] = request[q]
      BY <1>3, <1>a DEF Fail, Finish, Mails, TypeOK
    <2>2. QED
      BY <1>3, <2>1, <1>a, QuietKeepsMailInv DEF Fail
  <1>4. ASSUME NEW a \in Addresses, EntryVanishes(a)
        PROVE  MailInv'
    BY <1>4, <1>a, QuietKeepsMailInv DEF EntryVanishes
  <1>5. ASSUME NEW i \in Inquiries, Age(i)
        PROVE  MailInv'
    <2>1. \A j \in Inquiries : inquiry'[j] = None <=> inquiry[j] = None
      <3>1. inquiry[i] \in Row
        BY <1>5, <1>a DEF Age, TypeOK
      <3>2. [inquiry[i] EXCEPT !.recent = FALSE] \in Row
        BY <3>1 DEF Row
      <3>3. [inquiry[i] EXCEPT !.recent = FALSE] # None
        BY <3>2, NoneIsNothing
      <3>4. QED
        BY <1>5, <1>a, <3>3 DEF Age, TypeOK
    <2>2. QED
      BY <1>5, <2>1, <1>a, QuietKeepsMailInv DEF Age, history
  <1>6. CASE Crash
    <2>1. \A r \in Requests : ~Mails(r)'
      BY <1>6 DEF Crash, Mails
    <2>2. QED
      BY <1>6, <2>1, <1>a, QuietKeepsMailInv DEF Crash
  <1>7. CASE UNCHANGED vars
    BY <1>7, <1>a, QuietKeepsMailInv DEF vars
  <1>8. ASSUME NEW r \in Requests, NEW i \in Inquiries, Save(r, i)
        PROVE  MailInv'
    <2>1. request[r] \in Request
      BY <1>8, <1>c DEF Save, At
    <2> DEFINE req == [[request[r] EXCEPT !.step = "audit"] EXCEPT !.row = i]
               row == [content |-> request[r].content, recent |-> TRUE]
    <2>2. req \in Request /\ req.step = "audit" /\ req.row = i
      BY <2>1 DEF Request, Step
    <2>3. req # None
      BY <2>2, RequestFields
    <2>4. row \in Row
      BY <2>1, RequestFields DEF Row
    <2>5. row # None
      BY <2>4, NoneIsNothing
    <2>6. /\ request' = [request EXCEPT ![r] = req]
          /\ inquiry' = [inquiry EXCEPT ![i] = row]
          /\ inquiry[i] = None /\ UNCHANGED <<notification, audit, delivered>>
      BY <1>8, <1>a DEF Save, TypeOK, history
    <2> HIDE DEF req, row
    <2>7. /\ request'[r] = req /\ \A q \in Requests : q # r => request'[q] = request[q]
          /\ inquiry'[i] = row /\ \A j \in Inquiries : j # i => inquiry'[j] = inquiry[j]
      BY <2>6, <1>a DEF TypeOK
    <2>8. \A q \in Requests : Mails(q) => request[q].row # i
      BY <2>6, <1>d DEF Progress
    <2>9. notification[i] = None
      BY <2>6, <1>b DEF RowFacts
    <2>10. Progress(r)'
      BY <2>2, <2>5, <2>6, <2>7, <2>9 DEF Progress
    <2>11. RowFacts(i)'
      BY <2>5, <2>6, <2>7, <2>9, <1>b DEF RowFacts
    <2>12. QED
      BY <2>2, <2>6, <2>7, <2>8, <2>10, <2>11, <1>a, MailerKeepsMailInv
  <1>9. ASSUME NEW r \in Requests, LogSubmission(r)
        PROVE  MailInv'
    <2>1. Mails(r) /\ request[r].step = "audit"
      BY <1>9 DEF LogSubmission, At, Mails, MailStep
    <2>i. PICK i \in Inquiries : i = request[r].row
      BY <2>1, <1>d
    <2>2. i \in Inquiries /\ Progress(r)
      BY <2>i, <2>1, <1>d
    <2>3. /\ request'[r].step = "notify" /\ request'[r].row = i
          /\ \A q \in Requests : q # r => request'[q] = request[q]
      BY <1>9, <2>i, <2>1, <1>a, GoToFields DEF LogSubmission, Mails, Step
    <2>4. /\ UNCHANGED <<inquiry, notification, delivered>>
          /\ audit' = audit \cup {<<"submitted", i>>}
      BY <1>9, <2>i DEF LogSubmission, Logged
    <2>5. Progress(r)'
      BY <2>i, <2>1, <2>2, <2>3, <2>4 DEF Progress
    <2>6. \A e \in Event, j \in Inquiries :
             <<e, j>> \in audit' <=> <<e, j>> \in audit \/ (e = "submitted" /\ j = i)
      <3>1. QED
        BY <2>4
    <2>7. RowFacts(i)'
      BY <2>i, <2>2, <2>4, <2>6, <1>b DEF RowFacts, Event
    <2>8. QED
      BY <2>i, <2>1, <2>2, <2>3, <2>4, <2>5, <2>6, <2>7, <1>a, <1>d, MailerKeepsMailInv
  <1>10. ASSUME NEW r \in Requests, Notify(r)
         PROVE  MailInv'
    <2>1. Mails(r) /\ request[r].step = "notify"
      BY <1>10 DEF Notify, At, Mails, MailStep
    <2>i. PICK i \in Inquiries : i = request[r].row
      BY <2>1, <1>d
    <2>2. i \in Inquiries /\ Progress(r) /\ notification[i] = None
      BY <2>i, <2>1, <1>d DEF Progress
    <2>3. CASE ~recipient
      <3>1. \A q \in Requests : Mails(q)' => request'[q] = request[q]
        BY <1>10, <2>3, <1>a DEF Notify, Finish, Mails, TypeOK
      <3>2. QED
        BY <1>10, <2>3, <3>1, <1>a, QuietKeepsMailInv DEF Notify
    <2>4. CASE recipient
      <3>1. /\ request'[r].step = "send" /\ request'[r].row = i
            /\ \A q \in Requests : q # r => request'[q] = request[q]
        BY <1>10, <2>i, <2>1, <2>2, <2>4, <1>a, GoToFields DEF Notify, Mails, Step
      <3>2. UNCHANGED <<inquiry, delivered, audit>>
        BY <1>10 DEF Notify
      <3>3. /\ notification'[i] = "PENDING"
            /\ \A j \in Inquiries : j # i => notification'[j] = notification[j]
        BY <1>10, <2>i, <2>2, <2>4, <1>a DEF Notify, TypeOK
      <3>4. delivered[i] = 0 /\ inquiry[i] # None
        BY <2>i, <2>2, <1>b DEF RowFacts, Progress
      <3>5. Progress(r)'
        BY <2>i, <2>2, <3>1, <3>2, <3>3, <3>4 DEF Progress
      <3>6. RowFacts(i)'
        BY <2>i, <2>2, <3>2, <3>3, <3>4, <1>b, NoneIsNothing DEF RowFacts, Outcome
      <3>7. QED
        BY <2>i, <2>1, <2>2, <3>1, <3>2, <3>3, <3>5, <3>6, <1>a, <1>d, MailerKeepsMailInv
    <2>5. QED
      BY <2>3, <2>4
  <1>11. ASSUME NEW r \in Requests, NEW arrives \in BOOLEAN, NEW error \in BOOLEAN,
                Send(r, arrives, error)
         PROVE  MailInv'
    <2> DEFINE req == [[request[r] EXCEPT !.step = "record"] EXCEPT !.error = error]
    <2>1. Mails(r) /\ request[r].step = "send" /\ request[r] \in Request
      BY <1>11, <1>c DEF Send, At, Mails, MailStep
    <2>i. PICK i \in Inquiries : i = request[r].row
      BY <2>1, <1>d
    <2>2. i \in Inquiries /\ Progress(r) /\ notification[i] = "PENDING" /\ delivered[i] = 0
          /\ inquiry[i] # None
      BY <2>i, <2>1, <1>d DEF Progress
    <2>3. req \in Request /\ req.step = "record" /\ req.row = i /\ req.error = error
      BY <2>i, <2>1 DEF Request, Step
    <2>4. /\ request' = [request EXCEPT ![r] = req]
          /\ UNCHANGED <<inquiry, notification, audit>>
          /\ arrives \/ error
      BY <1>11, <1>a DEF Send, TypeOK
    <2>5. /\ delivered'[i] = IF arrives THEN 1 ELSE 0
          /\ \A j \in Inquiries : j # i => delivered'[j] = delivered[j]
      BY <1>11, <1>a, <2>i, <2>2 DEF Send, TypeOK
    <2> HIDE DEF req
    <2>6. request'[r] = req /\ \A q \in Requests : q # r => request'[q] = request[q]
      BY <2>4, <1>a DEF TypeOK
    <2>7. Progress(r)'
      BY <2>i, <2>2, <2>3, <2>4, <2>5, <2>6 DEF Progress
    <2>8. RowFacts(i)'
      BY <2>i, <2>2, <2>4, <2>5, <1>b, NoneIsNothing DEF RowFacts
    <2>9. QED
      BY <2>i, <2>1, <2>2, <2>3, <2>4, <2>5, <2>6, <2>7, <2>8, <1>a, <1>d, MailerKeepsMailInv
  <1>12. ASSUME NEW r \in Requests, Record(r)
         PROVE  MailInv'
    <2> DEFINE outcome == IF request[r].error THEN "FAILED" ELSE "SENT"
    <2>1. Mails(r) /\ request[r].step = "record"
      BY <1>12 DEF Record, At, Mails, MailStep
    <2>i. PICK i \in Inquiries : i = request[r].row
      BY <2>1, <1>d
    <2>2. i \in Inquiries /\ Progress(r) /\ notification[i] = "PENDING" /\ inquiry[i] # None
      BY <2>i, <2>1, <1>d DEF Progress
    <2>3. /\ request'[r].step = "report" /\ request'[r].row = i
          /\ request'[r].error = request[r].error
          /\ \A q \in Requests : q # r => request'[q] = request[q]
      BY <1>12, <2>i, <2>1, <1>a, GoToFields DEF Record, Mails, Step
    <2>4. UNCHANGED <<inquiry, delivered, audit>>
      BY <1>12 DEF Record
    <2>5. /\ notification'[i] = outcome
          /\ \A j \in Inquiries : j # i => notification'[j] = notification[j]
      BY <1>12, <2>i, <2>2, <1>a DEF Record, TypeOK
    <2>6. Progress(r)'
      BY <2>i, <2>2, <2>3, <2>4, <2>5 DEF Progress
    <2>7. RowFacts(i)'
      <3>1. ~request[r].error => delivered[i] = 1
        BY <2>i, <2>1, <2>2 DEF Progress
      <3>2. outcome # None
        BY NoneIsNothing DEF Outcome
      <3>3. /\ <<"notification_sent", i>> \notin audit
            /\ <<"notification_failed", i>> \notin audit
        BY <2>i, <2>2, <1>b DEF RowFacts
      <3>4. delivered[i] <= 1
        BY <2>i, <2>2, <1>b DEF RowFacts
      <3>5. QED
        BY <2>i, <2>2, <2>4, <2>5, <3>1, <3>2, <3>3, <3>4 DEF RowFacts
    <2> HIDE DEF outcome
    <2>8. QED
      BY <2>i, <2>1, <2>2, <2>3, <2>4, <2>5, <2>6, <2>7, <1>a, <1>d, MailerKeepsMailInv
  <1>13. ASSUME NEW r \in Requests, Report(r)
         PROVE  MailInv'
    <2> DEFINE event == IF request[r].error THEN "notification_failed" ELSE "notification_sent"
    <2>1. Mails(r) /\ request[r].step = "report"
      BY <1>13 DEF Report, At, Mails, MailStep
    <2>i. PICK i \in Inquiries : i = request[r].row
      BY <2>1, <1>d
    <2>2. /\ i \in Inquiries
          /\ notification[i] = IF request[r].error THEN "FAILED" ELSE "SENT"
      BY <2>i, <2>1, <1>d DEF Progress
    <2>3. ~Mails(r)' /\ \A q \in Requests : q # r => request'[q] = request[q]
      BY <1>13, <1>a DEF Report, Finish, Mails, TypeOK
    <2>4. /\ UNCHANGED <<inquiry, notification, delivered>>
          /\ audit' = audit \cup {<<event, i>>}
      BY <1>13, <2>i DEF Report, Logged
    <2>5. \A e \in Event, j \in Inquiries :
             <<e, j>> \in audit' <=> <<e, j>> \in audit \/ (e = event /\ j = i)
      <3> HIDE DEF event
      <3>1. QED
        BY <2>4
    <2>6. RowFacts(i)'
      <3>1. <<"notification_sent", i>> \in audit' =>
               <<"notification_sent", i>> \in audit \/ ~request[r].error
        BY <2>i, <2>2, <2>5 DEF Event
      <3>2. <<"notification_failed", i>> \in audit' =>
               <<"notification_failed", i>> \in audit \/ request[r].error
        BY <2>i, <2>2, <2>5 DEF Event
      <3>3. QED
        BY <2>i, <2>2, <2>4, <3>1, <3>2, <1>b DEF RowFacts
    <2> HIDE DEF event
    <2>7. QED
      BY <2>i, <2>1, <2>2, <2>3, <2>4, <2>5, <2>6, <1>a, <1>d, MailerKeepsMailInv
  <1>14. QED
    BY <1>1, <1>2, <1>3, <1>4, <1>5, <1>6, <1>7, <1>8, <1>9, <1>10, <1>11, <1>12, <1>13
       DEF Next

LEMMA MailInvariance == Spec => []MailInv
  BY InitMailInv, NextMailInv, PTL DEF Spec

(* The tables, the cache, the log and the requests keep their types.        *)
THEOREM TypeCorrect == Spec => []TypeOK
  <1>1. MailInv => TypeOK
    BY DEF MailInv
  <1>2. QED
    BY <1>1, MailInvariance, PTL

(* One mail at most is sent about an inquiry, however many requests submit  *)
(* it, and wherever they fail (notify_new_inquiry).                         *)
THEOREM AlertsAlwaysSentOnce == Spec => []AlertsAreSentOnce
  <1>1. MailInv => AlertsAreSentOnce
    BY DEF MailInv, RowFacts, AlertsAreSentOnce
  <1>2. QED
    BY <1>1, MailInvariance, PTL

(* A notification that says SENT has arrived, and the audit log agrees with *)
(* the notifications (notify_new_inquiry).                                  *)
THEOREM OutcomeAlwaysTrue == Spec => []OutcomeIsTrue
  <1>1. MailInv => OutcomeIsTrue
    BY DEF MailInv, RowFacts, OutcomeIsTrue
  <1>2. QED
    BY <1>1, MailInvariance, PTL
-----------------------------------------------------------------------------
(* The copies of one content.                                               *)

(* The requests that have found no duplicate of c and will store it.        *)
Savers(c) == {r \in Requests : At(r, "save") /\ request[r].content = c}

(* The recent copies there are and will be are no more than the requests.   *)
FewCopies(c) ==
    /\ IsFiniteSet(RecentOf(c))
    /\ Cardinality(RecentOf(c)) + Cardinality(Savers(c)) <= Cardinality(Requests)
CopiesInv == \A c \in Contents : FewCopies(c)

LEMMA RequestsAreFinite ==
  ASSUME NEW T \in SUBSET Requests
  PROVE  /\ IsFiniteSet(T)
         /\ Cardinality(T) \in Nat /\ Cardinality(Requests) \in Nat
         /\ Cardinality(T) <= Cardinality(Requests)
  BY RequestsAssumption, FS_Subset, FS_CardinalityType

(* Copies that grow old and requests that give up only make room.           *)
LEMMA LessCopies ==
  ASSUME NEW c \in Contents, FewCopies(c),
         RecentOf(c)' \subseteq RecentOf(c), Savers(c)' \subseteq Savers(c)
  PROVE  FewCopies(c)'
  <1>1. Savers(c) \subseteq Requests
    BY DEF Savers
  <1> DEFINE recent == RecentOf(c)
             recentNext == RecentOf(c)'
             savers == Savers(c)
             saversNext == Savers(c)'
  <1>2. /\ IsFiniteSet(recent) /\ recentNext \subseteq recent
        /\ savers \subseteq Requests /\ saversNext \subseteq savers
        /\ Cardinality(recent) + Cardinality(savers) <= Cardinality(Requests)
    BY <1>1 DEF FewCopies
  <1> HIDE DEF recent, recentNext, savers, saversNext
  <1>3. /\ IsFiniteSet(recentNext) /\ Cardinality(recentNext) <= Cardinality(recent)
        /\ Cardinality(recentNext) \in Nat /\ Cardinality(recent) \in Nat
    BY <1>2, FS_Subset, FS_CardinalityType
  <1>4. /\ IsFiniteSet(savers) /\ Cardinality(saversNext) <= Cardinality(savers)
        /\ Cardinality(saversNext) \in Nat /\ Cardinality(savers) \in Nat
        /\ Cardinality(Requests) \in Nat
    BY <1>2, RequestsAreFinite, FS_Subset, FS_CardinalityType
  <1>5. /\ IsFiniteSet(recentNext)
        /\ Cardinality(recentNext) + Cardinality(saversNext) <= Cardinality(Requests)
    BY <1>2, <1>3, <1>4
  <1>6. QED
    BY <1>5 DEF FewCopies, recentNext, saversNext

(* A request that goes to another step than "save" or ends.                 *)
LEMMA NoSaver ==
  ASSUME CopiesInv, NEW r \in Requests,
         \A q \in Requests : q # r => request'[q] = request[q],
         ~At(r, "save")',
         \A c \in Contents : RecentOf(c)' \subseteq RecentOf(c)
  PROVE  CopiesInv'
  <1>1. \A c \in Contents : Savers(c)' \subseteq Savers(c)
    BY DEF Savers, At
  <1>2. QED
    BY <1>1, LessCopies DEF CopiesInv

LEMMA CheckCopies ==
  ASSUME TypeOK, CopiesInv, NEW r \in Requests, Check(r)
  PROVE  CopiesInv'
  <1> DEFINE c == request[r].content
  <1>1. UNCHANGED inquiry /\ At(r, "check") /\ request[r] \in Request
    BY DEF Check, At, TypeOK
  <1>2. \A d \in Contents : RecentOf(d)' = RecentOf(d)
    BY <1>1 DEF RecentOf
  <1>3. CASE RecentOf(c) = {} /\ GoTo(r, "save")
    <2>1. /\ request'[r].content = c /\ c \in Contents
          /\ \A q \in Requests : q # r => request'[q] = request[q]
      BY <1>1, <1>3, GoToFields, RequestFields DEF At, Step
    <2>2. ASSUME NEW d \in Contents, d = c PROVE FewCopies(d)'
      <3>1. RecentOf(d)' = {} /\ Savers(d)' \in SUBSET Requests
        BY <1>2, <1>3, <2>2 DEF Savers
      <3>2. Cardinality(Savers(d)') <= Cardinality(Requests) /\ Cardinality(Savers(d)') \in Nat
        BY <3>1, RequestsAreFinite
      <3>3. Cardinality(RecentOf(d)') = 0 /\ IsFiniteSet(RecentOf(d)')
        BY <3>1, FS_EmptySet
      <3>4. QED
        BY <3>2, <3>3 DEF FewCopies
    <2>3. ASSUME NEW d \in Contents, d # c PROVE FewCopies(d)'
      <3>1. Savers(d)' \subseteq Savers(d)
        BY <2>1, <2>3 DEF Savers, At
      <3>2. QED
        BY <3>1, <1>2, LessCopies DEF CopiesInv
    <2>4. QED
      BY <2>2, <2>3 DEF CopiesInv
  <1>4. CASE \E i \in RecentOf(c) :
                request' = [request EXCEPT ![r].step = "suppress", ![r].row = i]
    <2>1. request'[r].step = "suppress" /\ \A q \in Requests : q # r => request'[q] = request[q]
      BY <1>1, <1>4 DEF TypeOK, Request
    <2>2. QED
      BY <2>1, <1>2, NoSaver DEF At
  <1>5. QED
    BY <1>3, <1>4 DEF Check

LEMMA SaveCopies ==
  ASSUME TypeOK, CopiesInv, NEW r \in Requests, NEW i \in Inquiries, Save(r, i)
  PROVE  CopiesInv'
  <1>1. request[r] \in Request /\ At(r, "save") /\ inquiry[i] = None
    BY DEF Save, At, TypeOK
  <1>p. PICK c \in Contents : c = request[r].content
    BY <1>1, RequestFields
  <1>2. /\ request'[r].step = "audit"
        /\ \A q \in Requests : q # r => request'[q] = request[q]
    BY <1>1 DEF Save, TypeOK, Request
  <1>3. inquiry' = [inquiry EXCEPT ![i] = [content |-> c, recent |-> TRUE]]
    BY <1>p DEF Save
  <1>4. ASSUME NEW d \in Contents, d # c PROVE FewCopies(d)'
    <2>1. RecentOf(d)' \subseteq RecentOf(d)
      BY <1>3, <1>4 DEF RecentOf, TypeOK
    <2>2. Savers(d)' \subseteq Savers(d)
      BY <1>2 DEF Savers, At
    <2>3. QED
      BY <2>1, <2>2, LessCopies DEF CopiesInv
  <1>5. FewCopies(c)'
    <2> DEFINE recent == RecentOf(c)
               savers == Savers(c)
               recentNext == RecentOf(c)'
               saversNext == Savers(c)'
    <2>1. recentNext \subseteq recent \cup {i}
      BY <1>3 DEF RecentOf, TypeOK
    <2>2. r \in savers /\ savers \subseteq Requests
      BY <1>p, <1>1 DEF Savers
    <2>3. saversNext \subseteq savers \ {r}
      BY <1>2 DEF Savers, At
    <2>4. /\ IsFiniteSet(recent)
          /\ Cardinality(recent) + Cardinality(savers) <= Cardinality(Requests)
      BY DEF CopiesInv, FewCopies
    <2> HIDE DEF recent, savers, recentNext, saversNext
    <2>5. /\ IsFiniteSet(recentNext)
          /\ Cardinality(recentNext) <= Cardinality(recent) + 1
          /\ Cardinality(recentNext) \in Nat /\ Cardinality(recent) \in Nat
      <3>1. /\ IsFiniteSet(recent \cup {i})
            /\ Cardinality(recent \cup {i}) =
                  IF i \in recent THEN Cardinality(recent) ELSE Cardinality(recent) + 1
        BY <2>4, FS_AddElement
      <3>2. IsFiniteSet(recentNext) /\ Cardinality(recentNext) <= Cardinality(recent \cup {i})
        BY <2>1, <3>1, FS_Subset
      <3>3. Cardinality(recentNext) \in Nat /\ Cardinality(recent) \in Nat
        BY <2>4, <3>2, FS_CardinalityType
      <3>4. QED
        BY <3>1, <3>2, <3>3
    <2>6. /\ Cardinality(saversNext) <= Cardinality(savers) - 1
          /\ Cardinality(saversNext) \in Nat /\ Cardinality(savers) \in Nat
          /\ Cardinality(Requests) \in Nat
      <3>1. IsFiniteSet(savers) /\ Cardinality(savers) \in Nat /\ Cardinality(Requests) \in Nat
        BY <2>2, RequestsAreFinite
      <3>2. IsFiniteSet(savers \ {r}) /\ Cardinality(savers \ {r}) = Cardinality(savers) - 1
        BY <2>2, <3>1, FS_RemoveElement
      <3>3. IsFiniteSet(saversNext) /\ Cardinality(saversNext) <= Cardinality(savers \ {r})
        BY <2>3, <3>2, FS_Subset
      <3>4. QED
        BY <3>1, <3>2, <3>3, FS_CardinalityType
    <2>7. /\ IsFiniteSet(recentNext)
          /\ Cardinality(recentNext) + Cardinality(saversNext) <= Cardinality(Requests)
      BY <2>4, <2>5, <2>6
    <2>8. QED
      BY <2>7 DEF FewCopies, recentNext, saversNext
  <1>6. QED
    BY <1>4, <1>5 DEF CopiesInv

LEMMA CopiesStep ==
  ASSUME TypeOK, CopiesInv, [Next]_vars
  PROVE  CopiesInv'
  <1>a. \A r \in Requests : request[r] # None => request[r] \in Request
    BY DEF TypeOK
  <1>s. UNCHANGED inquiry => \A c \in Contents : RecentOf(c)' = RecentOf(c)
    BY DEF RecentOf
  <1>1. ASSUME NEW r \in Requests,
               \/ \E a \in Addresses, c \in Contents : SubmitFirst(r, a, c) \/ SubmitAgain(r, a, c)
               \/ Suppress(r)
               \/ Report(r)
               \/ Fail(r)
        PROVE  CopiesInv'
    <2>1. /\ ~At(r, "save")' /\ UNCHANGED inquiry
          /\ \A q \in Requests : q # r => request'[q] = request[q]
      BY <1>1 DEF SubmitFirst, SubmitAgain, Suppress, Report, Fail, Finish, At, TypeOK
    <2>2. QED
      BY <2>1, <1>s, NoSaver
  <1>2. ASSUME NEW r \in Requests,
               \/ Increment(r) \/ IncrementFails(r) \/ SetCount(r) \/ LogSubmission(r)
               \/ Notify(r) \/ Record(r)
        PROVE  CopiesInv'
    <2>1. /\ request[r] # None /\ UNCHANGED inquiry
          /\ Finish(r) \/ \E step \in Step \ {"save"} : GoTo(r, step)
      BY <1>2 DEF Increment, IncrementFails, SetCount, LogSubmission, Notify, Record, At, Step
    <2>2. /\ ~At(r, "save")'
          /\ \A q \in Requests : q # r => request'[q] = request[q]
      BY <2>1, GoToFields DEF Finish, At, TypeOK
    <2>3. QED
      BY <2>1, <2>2, <1>s, NoSaver
  <1>3. ASSUME NEW r \in Requests, NEW arrives \in BOOLEAN, NEW error \in BOOLEAN,
               Send(r, arrives, error)
        PROVE  CopiesInv'
    <2>1. /\ request'[r].step = "record" /\ UNCHANGED inquiry
          /\ \A q \in Requests : q # r => request'[q] = request[q]
      BY <1>3, <1>a DEF Send, At, TypeOK, Request
    <2>2. QED
      BY <2>1, <1>s, NoSaver DEF At
  <1>4. ASSUME NEW r \in Requests, Check(r)
        PROVE  CopiesInv'
    BY <1>4, CheckCopies
  <1>5. ASSUME NEW r \in Requests, NEW i \in Inquiries, Save(r, i)
        PROVE  CopiesInv'
    BY <1>5, SaveCopies
  <1>6. ASSUME NEW i \in Inquiries, Age(i)
        PROVE  CopiesInv'
    <2>1. /\ inquiry[i] \in Row
          /\ inquiry' = [inquiry EXCEPT ![i] = [inquiry[i] EXCEPT !.recent = FALSE]]
      BY <1>6 DEF Age, TypeOK
    <2>2. ~inquiry'[i].recent /\ \A j \in Inquiries : j # i => inquiry'[j] = inquiry[j]
      BY <2>1 DEF TypeOK, Row
    <2>3. \A c \in Contents : RecentOf(c)' \subseteq RecentOf(c)
      BY <2>2 DEF RecentOf
    <2>4. \A c \in Contents : Savers(c)' \subseteq Savers(c)
      BY <1>6 DEF Age, Savers, At
    <2>5. QED
      BY <2>3, <2>4, LessCopies DEF CopiesInv
  <1>7. ASSUME \/ \E a \in Addresses : EntryVanishes(a)
               \/ Crash
               \/ UNCHANGED vars
        PROVE  CopiesInv'
    <2>1. UNCHANGED inquiry /\ \A r \in Requests : request'[r] = None \/ request'[r] = request[r]
      BY <1>7 DEF EntryVanishes, Crash, vars
    <2>2. \A c \in Contents : Savers(c)' \subseteq Savers(c)
      BY <2>1 DEF Savers, At
    <2>3. QED
      BY <2>1, <2>2, <1>s, LessCopies DEF CopiesInv
  <1>8. QED
    BY <1>1, <1>2, <1>3, <1>4, <1>5, <1>6, <1>7 DEF Next

LEMMA CopiesInit == Init => CopiesInv
  <1> SUFFICES ASSUME Init, NEW c \in Contents PROVE FewCopies(c)
    BY DEF CopiesInv
  <1>1. RecentOf(c) = {} /\ Savers(c) = {}
    BY DEF Init, RecentOf, Savers, At
  <1>2. Cardinality(Requests) \in Nat
    BY RequestsAreFinite
  <1>3. QED
    BY <1>1, <1>2, FS_EmptySet DEF FewCopies

(* Requests that look for a duplicate at the same time may each store the   *)
(* content, and that is all the copies there can be (_recent_duplicate).    *)
THEOREM CopiesAlwaysBounded == Spec => []CopiesAreBounded
  <1>1. MailInv => TypeOK
    BY DEF MailInv
  <1>2. TypeOK /\ CopiesInv /\ [Next]_vars => CopiesInv'
    BY CopiesStep
  <1>3. CopiesInv => CopiesAreBounded
    <2> SUFFICES ASSUME CopiesInv, NEW c \in Contents
                 PROVE  Cardinality(RecentOf(c)) <= Cardinality(Requests)
      BY DEF CopiesAreBounded
    <2>1. FewCopies(c) /\ Savers(c) \in SUBSET Requests
      BY DEF CopiesInv, Savers
    <2>2. Cardinality(Savers(c)) \in Nat /\ Cardinality(RecentOf(c)) \in Nat
          /\ Cardinality(Requests) \in Nat
      BY <2>1, RequestsAreFinite, FS_CardinalityType DEF FewCopies
    <2>3. QED
      BY <2>1, <2>2 DEF FewCopies
  <1>4. QED
    BY <1>1, <1>2, <1>3, CopiesInit, MailInvariance, PTL DEF Spec

-----------------------------------------------------------------------------
(* The rate limit.                                                          *)

(* The requests that will write 1 over the entry of a.                      *)
Setters(a) == {r \in Requests : At(r, "set") /\ request[r].address = a}

(* The submissions the entry of a still lets through.                       *)
Remaining(a) == IF count[a] < RateLimit THEN RateLimit - count[a] ELSE 0

(* What has passed, what the entry still lets through and what each late    *)
(* cache.set will add to it.                                                *)
WithinLimit(a) ==
    IF count[a] = None
    THEN passed[a] = 0
    ELSE passed[a] + Remaining(a) + RateLimit * Cardinality(Setters(a))
            <= RateLimit * Cardinality(Requests)
LimitInv == \A a \in Addresses : WithinLimit(a)

LEMMA SettersAreFew ==
  ASSUME NEW a \in Addresses
  PROVE  /\ IsFiniteSet(Setters(a)) /\ Cardinality(Setters(a)) \in Nat
         /\ Cardinality(Requests) \in Nat
         /\ Cardinality(Setters(a)) <= Cardinality(Requests)
  <1>1. Setters(a) \in SUBSET Requests
    BY DEF Setters
  <1>2. QED
    BY <1>1, RequestsAreFinite

LEMMA Times ==
  ASSUME NEW x \in Nat, NEW y \in Nat, x <= y
  PROVE  /\ RateLimit * x \in Nat /\ RateLimit * y \in Nat
         /\ RateLimit * x <= RateLimit * y
  <1>1. RateLimit \in Nat
    BY RateLimitAssumption
  <1>2. PICK d \in Nat : y = x + d
    <2>1. y - x \in Nat /\ y = x + (y - x)
      OBVIOUS
    <2>2. QED
      BY <2>1
  <1>3. RateLimit * y = RateLimit * x + RateLimit * d
    BY <1>1, <1>2
  <1>4. RateLimit * x \in Nat /\ RateLimit * d \in Nat
    BY <1>1
  <1>5. QED
    BY <1>3, <1>4

(* One request less to write over the entry is RateLimit less to come.      *)
LEMMA OneLess ==
  ASSUME NEW x \in Nat, NEW y \in Nat, x < y
  PROVE  /\ RateLimit * x \in Nat /\ RateLimit * y \in Nat
         /\ RateLimit * x + RateLimit <= RateLimit * y
  <1>1. RateLimit \in Nat /\ x + 1 \in Nat /\ x + 1 <= y
    BY RateLimitAssumption
  <1>2. RateLimit * (x + 1) = RateLimit * x + RateLimit
    BY <1>1
  <1>3. QED
    BY <1>1, <1>2, Times

(* The entry stays and no request is added to those that will write over it. *)
LEMMA LimitStays ==
  ASSUME TypeOK, NEW a \in Addresses, WithinLimit(a),
         count'[a] = count[a], passed'[a] = passed[a], Setters(a)' \subseteq Setters(a)
  PROVE  WithinLimit(a)'
  <1> DEFINE setters == Setters(a)
             settersNext == Setters(a)'
  <1>1. /\ IsFiniteSet(setters) /\ Cardinality(setters) \in Nat
        /\ Cardinality(Requests) \in Nat
    BY SettersAreFew
  <1>2. settersNext \subseteq setters
    OBVIOUS
  <1>3. Cardinality(settersNext) <= Cardinality(setters) /\ Cardinality(settersNext) \in Nat
    <2> HIDE DEF setters, settersNext
    <2>1. QED
      BY <1>1, <1>2, FS_Subset, FS_CardinalityType
  <1>4. /\ RateLimit * Cardinality(settersNext) \in Nat
        /\ RateLimit * Cardinality(setters) \in Nat
        /\ RateLimit * Cardinality(Requests) \in Nat
        /\ RateLimit * Cardinality(settersNext) <= RateLimit * Cardinality(setters)
    <2> HIDE DEF setters, settersNext
    <2>1. QED
      BY <1>1, <1>3, Times
  <1>5. Remaining(a)' = Remaining(a)
    BY DEF Remaining
  <1>6. passed[a] \in Nat /\ (count[a] # None => Remaining(a) \in Nat)
    BY RateLimitAssumption DEF TypeOK, Remaining
  <1>7. QED
    BY <1>4, <1>5, <1>6 DEF WithinLimit

(* The request is at another step than "set" afterwards, if it is at all.   *)
LEMMA NoSetter ==
  ASSUME TypeOK, LimitInv, NEW r \in Requests,
         \A q \in Requests : q # r => request'[q] = request[q],
         ~At(r, "set")', UNCHANGED <<count, passed>>
  PROVE  LimitInv'
  <1>1. \A a \in Addresses : Setters(a)' \subseteq Setters(a)
    BY DEF Setters, At
  <1>2. QED
    BY <1>1, LimitStays DEF LimitInv

LEMMA SubmitFirstLimit ==
  ASSUME TypeOK, LimitInv, NEW r \in Requests, NEW a \in Addresses, NEW c \in Contents,
         SubmitFirst(r, a, c)
  PROVE  LimitInv'
  <1>1. /\ request[r] = None /\ request'[r].step = "check"
        /\ \A q \in Requests : q # r => request'[q] = request[q]
        /\ count'[a] = 1 /\ passed'[a] = 1
        /\ \A b \in Addresses : b # a => count'[b] = count[b] /\ passed'[b] = passed[b]
    BY DEF SubmitFirst, TypeOK
  <1>2. \A b \in Addresses : Setters(b)' \subseteq Setters(b)
    BY <1>1 DEF Setters, At
  <1>3. \A b \in Addresses : b # a => WithinLimit(b)'
    BY <1>1, <1>2, LimitStays DEF LimitInv
  <1>4. WithinLimit(a)'
    <2> DEFINE setters == Setters(a)'
    <2>1. setters \subseteq Requests \ {r}
      BY <1>1 DEF Setters, At
    <2> HIDE DEF setters
    <2>2. Cardinality(setters) < Cardinality(Requests)
          /\ Cardinality(setters) \in Nat /\ Cardinality(Requests) \in Nat
      <3>1. IsFiniteSet(Requests \ {r}) /\ Cardinality(Requests \ {r}) = Cardinality(Requests) - 1
        BY RequestsAssumption, FS_RemoveElement
      <3>2. Cardinality(Requests) \in Nat
        BY RequestsAssumption, FS_CardinalityType
      <3>3. IsFiniteSet(setters) /\ Cardinality(setters) <= Cardinality(Requests \ {r})
        BY <2>1, <3>1, FS_Subset
      <3>4. QED
        BY <3>1, <3>2, <3>3, FS_CardinalityType
    <2>3. RateLimit * Cardinality(setters) + RateLimit <= RateLimit * Cardinality(Requests)
          /\ RateLimit * Cardinality(setters) \in Nat /\ RateLimit * Cardinality(Requests) \in Nat
      BY <2>2, OneLess
    <2>4. 1 + Remaining(a)' = RateLimit
      BY <1>1, RateLimitAssumption DEF Remaining
    <2>5. count'[a] # None
      BY <1>1, NoneIsNothing
    <2>6. Remaining(a)' \in Nat /\ RateLimit \in Nat
      BY <1>1, RateLimitAssumption DEF Remaining
    <2>7. 1 + Remaining(a)' + RateLimit * Cardinality(setters) <= RateLimit * Cardinality(Requests)
      BY <2>3, <2>4, <2>6
    <2>8. QED
      BY <1>1, <2>5, <2>7 DEF WithinLimit, setters
  <1>5. QED
    BY <1>3, <1>4 DEF LimitInv

LEMMA IncrementLimit ==
  ASSUME TypeOK, LimitInv, NEW r \in Requests, Increment(r)
  PROVE  LimitInv'
  <1>1. request[r] \in Request /\ request[r] # None
    BY DEF Increment, At, TypeOK
  <1>p. PICK a \in Addresses : a = request[r].address
    BY <1>1, RequestFields
  <1>2. GoTo(r, "check") \/ Finish(r)
    BY DEF Increment
  <1>3. ~At(r, "set")' /\ \A q \in Requests : q # r => request'[q] = request[q]
    BY <1>1, <1>2, GoToFields DEF Finish, At, Step, TypeOK
  <1>4. \A b \in Addresses : Setters(b)' \subseteq Setters(b)
    BY <1>3 DEF Setters, At
  <1>5. /\ count[a] # None /\ count[a] \in 1 .. RateLimit + 1
        /\ count'[a] = Counted(count[a])
        /\ passed'[a] = IF Counted(count[a]) <= RateLimit THEN passed[a] + 1 ELSE passed[a]
        /\ \A b \in Addresses : b # a => count'[b] = count[b] /\ passed'[b] = passed[b]
    BY <1>p DEF Increment, TypeOK
  <1>6. \A b \in Addresses : b # a => WithinLimit(b)'
    BY <1>4, <1>5, LimitStays DEF LimitInv
  <1>7. passed'[a] + Remaining(a)' = passed[a] + Remaining(a)
        /\ count'[a] # None
    <2>1. RateLimit \in Nat /\ passed[a] \in Nat /\ count[a] \in Nat
      BY <1>5, RateLimitAssumption DEF TypeOK
    <2>2. count'[a] \in Nat
      BY <1>5, <2>1 DEF Counted
    <2>3. QED
      BY <1>5, <2>1, <2>2, NoneIsNothing DEF Counted, Remaining
  <1>8. WithinLimit(a)'
    <2> DEFINE setters == Setters(a)
               settersNext == Setters(a)'
               now == passed[a] + Remaining(a)
    <2>1. settersNext \subseteq setters
      BY <1>4
    <2>2. IsFiniteSet(setters) /\ Cardinality(Requests) \in Nat
      BY SettersAreFew
    <2>3. now + RateLimit * Cardinality(setters) <= RateLimit * Cardinality(Requests)
      BY <1>5 DEF LimitInv, WithinLimit
    <2>4. now \in Nat
      BY <1>5, RateLimitAssumption DEF TypeOK, Remaining
    <2>5. passed'[a] + Remaining(a)' = now
      BY <1>7
    <2> HIDE DEF setters, settersNext, now
    <2>6. Cardinality(settersNext) <= Cardinality(setters)
          /\ Cardinality(settersNext) \in Nat /\ Cardinality(setters) \in Nat
      BY <2>1, <2>2, FS_Subset, FS_CardinalityType
    <2>7. now + RateLimit * Cardinality(settersNext) <= RateLimit * Cardinality(Requests)
      BY <2>2, <2>3, <2>4, <2>6, Times
    <2>8. QED
      BY <1>7, <2>5, <2>7 DEF WithinLimit, settersNext
  <1>9. QED
    BY <1>6, <1>8 DEF LimitInv

LEMMA SetCountLimit ==
  ASSUME TypeOK, LimitInv, NEW r \in Requests, SetCount(r)
  PROVE  LimitInv'
  <1>1. request[r] \in Request /\ request[r] # None /\ At(r, "set")
    BY DEF SetCount, At, TypeOK
  <1>p. PICK a \in Addresses : a = request[r].address
    BY <1>1, RequestFields
  <1>2. ~At(r, "set")' /\ \A q \in Requests : q # r => request'[q] = request[q]
    BY <1>1, GoToFields DEF SetCount, At, Step
  <1>3. /\ count'[a] = 1 /\ passed'[a] = passed[a] + 1
        /\ \A b \in Addresses : b # a => count'[b] = count[b] /\ passed'[b] = passed[b]
    BY <1>p DEF SetCount, TypeOK
  <1>4. \A b \in Addresses : Setters(b)' \subseteq Setters(b)
    BY <1>2 DEF Setters, At
  <1>5. \A b \in Addresses : b # a => WithinLimit(b)'
    BY <1>3, <1>4, LimitStays DEF LimitInv
  <1>6. WithinLimit(a)'
    <2> DEFINE setters == Setters(a)
               settersNext == Setters(a)'
    <2>1. settersNext \subseteq setters \ {r} /\ r \in setters
      BY <1>p, <1>1, <1>2 DEF Setters, At
    <2>2. IsFiniteSet(setters) /\ Cardinality(Requests) \in Nat
          /\ Cardinality(setters) <= Cardinality(Requests)
      BY SettersAreFew
    <2>3. passed[a] + RateLimit * Cardinality(setters) <= RateLimit * Cardinality(Requests)
      <3>1. CASE count[a] = None
        <4>1. passed[a] = 0
          BY <3>1 DEF LimitInv, WithinLimit
        <4>2. Cardinality(setters) \in Nat
          BY SettersAreFew
        <4> HIDE DEF setters
        <4>3. QED
          BY <2>2, <4>1, <4>2, Times
      <3>2. CASE count[a] # None
        <4>1. passed[a] + Remaining(a) + RateLimit * Cardinality(setters)
                 <= RateLimit * Cardinality(Requests)
          BY <3>2 DEF LimitInv, WithinLimit
        <4>2. Remaining(a) \in Nat /\ passed[a] \in Nat
          BY <3>2, RateLimitAssumption DEF TypeOK, Remaining
        <4>3. Cardinality(setters) \in Nat
          BY SettersAreFew
        <4> HIDE DEF setters
        <4>4. RateLimit * Cardinality(setters) \in Nat /\ RateLimit * Cardinality(Requests) \in Nat
          BY <2>2, <4>3, Times
        <4>5. QED
          BY <4>1, <4>2, <4>4
      <3>3. QED
        BY <3>1, <3>2
    <2>4. passed[a] \in Nat
      BY DEF TypeOK
    <2>5. 1 + Remaining(a)' = RateLimit /\ Remaining(a)' \in Nat /\ count'[a] # None
      BY <1>3, RateLimitAssumption, NoneIsNothing DEF Remaining
    <2> HIDE DEF setters, settersNext
    <2>6. Cardinality(settersNext) < Cardinality(setters)
          /\ Cardinality(settersNext) \in Nat /\ Cardinality(setters) \in Nat
      <3>1. Cardinality(setters) \in Nat
        BY <2>2, FS_CardinalityType
      <3>2. IsFiniteSet(setters \ {r}) /\ Cardinality(setters \ {r}) = Cardinality(setters) - 1
        BY <2>1, <2>2, FS_RemoveElement
      <3>3. IsFiniteSet(settersNext) /\ Cardinality(settersNext) <= Cardinality(setters \ {r})
        BY <2>1, <3>2, FS_Subset
      <3>4. QED
        BY <3>1, <3>2, <3>3, FS_CardinalityType
    <2>7. RateLimit * Cardinality(settersNext) + RateLimit <= RateLimit * Cardinality(setters)
          /\ RateLimit * Cardinality(settersNext) \in Nat
          /\ RateLimit * Cardinality(setters) \in Nat
      BY <2>6, OneLess
    <2>8. RateLimit * Cardinality(Requests) \in Nat /\ RateLimit \in Nat
      BY <2>2, Times, RateLimitAssumption
    <2>9. passed'[a] + Remaining(a)' + RateLimit * Cardinality(settersNext)
             <= RateLimit * Cardinality(Requests)
      BY <1>3, <2>3, <2>4, <2>5, <2>7, <2>8
    <2>10. QED
      BY <2>5, <2>9 DEF WithinLimit, settersNext
  <1>7. QED
    BY <1>5, <1>6 DEF LimitInv

LEMMA LimitStep ==
  ASSUME TypeOK, LimitInv, [Next]_vars
  PROVE  LimitInv'
  <1>a. \A r \in Requests : request[r] # None => request[r] \in Request
    BY DEF TypeOK
  <1>1. ASSUME NEW r \in Requests, NEW a \in Addresses, NEW c \in Contents,
               SubmitFirst(r, a, c)
        PROVE  LimitInv'
    BY <1>1, SubmitFirstLimit
  <1>2. ASSUME NEW r \in Requests, Increment(r) \/ SetCount(r)
        PROVE  LimitInv'
    BY <1>2, IncrementLimit, SetCountLimit
  <1>3. ASSUME NEW r \in Requests, IncrementFails(r)
        PROVE  LimitInv'
    <2>1. request[r] # None /\ UNCHANGED <<count, passed>> /\ count[request[r].address] = None
      BY <1>3 DEF IncrementFails, At, history
    <2>2. /\ request'[r].address = request[r].address
          /\ \A q \in Requests : q # r => request'[q] = request[q]
      BY <1>3, <2>1, GoToFields DEF IncrementFails, Step
    <2>3. \A a \in Addresses : count[a] = None => WithinLimit(a)'
      BY <2>1 DEF LimitInv, WithinLimit
    <2>4. \A a \in Addresses : count[a] # None => Setters(a)' \subseteq Setters(a)
      BY <2>1, <2>2 DEF Setters, At
    <2>5. QED
      BY <2>1, <2>3, <2>4, LimitStays DEF LimitInv
  <1>4. ASSUME NEW r \in Requests,
               \/ \E a \in Addresses, c \in Contents : SubmitAgain(r, a, c)
               \/ Suppress(r)
               \/ Report(r)
               \/ Fail(r)
        PROVE  LimitInv'
    <2>1. /\ ~At(r, "set")' /\ UNCHANGED <<count, passed>>
          /\ \A q \in Requests : q # r => request'[q] = request[q]
      BY <1>4 DEF SubmitAgain, Suppress, Report, Fail, Finish, At, TypeOK, history
    <2>2. QED
      BY <2>1, NoSetter
  <1>5. ASSUME NEW r \in Requests, LogSubmission(r) \/ Notify(r) \/ Record(r)
        PROVE  LimitInv'
    <2>1. /\ request[r] # None /\ UNCHANGED <<count, passed>>
          /\ Finish(r) \/ \E step \in Step \ {"set"} : GoTo(r, step)
      BY <1>5 DEF LogSubmission, Notify, Record, At, Step, history
    <2>2. ~At(r, "set")' /\ \A q \in Requests : q # r => request'[q] = request[q]
      BY <2>1, GoToFields DEF Finish, At, TypeOK
    <2>3. QED
      BY <2>1, <2>2, NoSetter
  <1>6. ASSUME NEW r \in Requests,
               \/ Check(r)
               \/ \E i \in Inquiries : Save(r, i)
               \/ \E arrives, error \in BOOLEAN : Send(r, arrives, error)
        PROVE  LimitInv'
    <2>1. request[r] \in Request /\ UNCHANGED <<count, passed>>
      BY <1>6, <1>a DEF Check, Save, Send, At, history
    <2>2. /\ request'[r].step \in {"save", "suppress", "audit", "record"}
          /\ \A q \in Requests : q # r => request'[q] = request[q]
      BY <1>6, <2>1 DEF Check, Save, Send, GoTo, TypeOK, Request
    <2>3. QED
      BY <2>1, <2>2, NoSetter DEF At
  <1>7. ASSUME NEW a \in Addresses, EntryVanishes(a)
        PROVE  LimitInv'
    <2>1. /\ count'[a] = None /\ passed'[a] = 0 /\ UNCHANGED request
          /\ \A b \in Addresses : b # a => count'[b] = count[b] /\ passed'[b] = passed[b]
      BY <1>7 DEF EntryVanishes, TypeOK
    <2>2. \A b \in Addresses : Setters(b)' \subseteq Setters(b)
      BY <2>1 DEF Setters, At
    <2>3. WithinLimit(a)'
      BY <2>1 DEF WithinLimit
    <2>4. QED
      BY <2>1, <2>2, <2>3, LimitStays DEF LimitInv
  <1>8. CASE Crash
    BY <1>8 DEF Crash, LimitInv, WithinLimit
  <1>9. ASSUME \/ \E i \in Inquiries : Age(i)
               \/ UNCHANGED vars
        PROVE  LimitInv'
    <2>1. UNCHANGED <<count, passed, request>>
      BY <1>9 DEF Age, vars, history
    <2>2. \A b \in Addresses : Setters(b)' \subseteq Setters(b)
      BY <2>1 DEF Setters, At
    <2>3. QED
      BY <2>1, <2>2, LimitStays DEF LimitInv
  <1>10. QED
    BY <1>1, <1>2, <1>3, <1>4, <1>5, <1>6, <1>7, <1>8, <1>9 DEF Next

(* While its entry lasts, an address gets no more submissions through than  *)
(* RateLimit for each request that can run at a time (_consume_rate_limit). *)
THEOREM LimitAlwaysBounded == Spec => []LimitIsBounded
  <1>1. MailInv => TypeOK
    BY DEF MailInv
  <1>2. Init => LimitInv
    BY DEF Init, LimitInv, WithinLimit
  <1>3. TypeOK /\ LimitInv /\ [Next]_vars => LimitInv'
    BY LimitStep
  <1>4. TypeOK /\ LimitInv => LimitIsBounded
    <2> SUFFICES ASSUME TypeOK, LimitInv, NEW a \in Addresses
                 PROVE  passed[a] <= RateLimit * Cardinality(Requests)
      BY DEF LimitIsBounded
    <2>1. /\ Cardinality(Setters(a)) \in Nat
          /\ Cardinality(Setters(a)) <= Cardinality(Requests)
          /\ Cardinality(Requests) \in Nat
      BY SettersAreFew
    <2>2. /\ RateLimit * Cardinality(Setters(a)) \in Nat
          /\ RateLimit * Cardinality(Requests) \in Nat
      BY <2>1, Times
    <2>3. passed[a] \in Nat /\ (count[a] # None => Remaining(a) \in Nat)
      BY RateLimitAssumption DEF TypeOK, Remaining
    <2>4. QED
      BY <2>2, <2>3 DEF LimitInv, WithinLimit
  <1>5. QED
    BY <1>1, <1>2, <1>3, <1>4, MailInvariance, PTL DEF Spec

-----------------------------------------------------------------------------
(* What becomes of an inquiry that is stored.                               *)

(* The events and the outcome of inquiry i are there.                       *)
Told(i) ==
    /\ <<"submitted", i>> \in audit
    /\ recipient => /\ notification[i] \in Outcome
                    /\ \/ <<"notification_sent", i>> \in audit
                       \/ <<"notification_failed", i>> \in audit

MailersHaveLogged ==
    \A r \in Requests :
        Mails(r) /\ request[r].step # "audit" => <<"submitted", request[r].row>> \in audit
HeldOrTold ==
    lossless =>
        \A i \in Inquiries :
            inquiry[i] # None =>
                Told(i) \/ \E r \in Requests : Mails(r) /\ request[r].row = i
TellInv == MailersHaveLogged /\ HeldOrTold

(* What a step must do for each mailer that was there or is there now.      *)
LEMMA TellStays ==
  ASSUME TellInv, audit \subseteq audit', UNCHANGED recipient, lossless' => lossless,
         \A i \in Inquiries : inquiry'[i] # None =>
            inquiry[i] # None \/ \E r \in Requests : Mails(r)' /\ request'[r].row = i,
         \A i \in Inquiries : notification[i] \in Outcome => notification'[i] \in Outcome,
         \A r \in Requests : Mails(r)' /\ request'[r].step # "audit" =>
            \/ Mails(r) /\ request[r].step # "audit" /\ request'[r].row = request[r].row
            \/ <<"submitted", request'[r].row>> \in audit',
         \A r \in Requests : lossless' /\ Mails(r) =>
            \/ Mails(r)' /\ request'[r].row = request[r].row
            \/ \A i \in Inquiries : i = request[r].row => Told(i)'
  PROVE  TellInv'
  <1>1. MailersHaveLogged'
    BY DEF TellInv, MailersHaveLogged
  <1>2. \A i \in Inquiries : Told(i) => Told(i)'
    BY DEF Told
  <1>3. HeldOrTold'
    <2> SUFFICES ASSUME lossless', NEW i \in Inquiries, inquiry'[i] # None,
                        ~ \E r \in Requests : Mails(r)' /\ request'[r].row = i
                 PROVE  Told(i)'
      BY DEF HeldOrTold
    <2>1. Told(i) \/ \E r \in Requests : Mails(r) /\ request[r].row = i
      BY DEF TellInv, HeldOrTold
    <2>2. QED
      BY <1>2, <2>1
  <1>4. QED
    BY <1>1, <1>3 DEF TellInv

(* Steps of requests that mail nothing.                                     *)
LEMMA TellQuiet ==
  ASSUME TellInv, UNCHANGED <<audit, recipient, notification>>, lossless' => lossless,
         \A i \in Inquiries : inquiry'[i] # None => inquiry[i] # None,
         \A r \in Requests : Mails(r)' => request'[r] = request[r],
         \A r \in Requests : lossless' /\ Mails(r) => request'[r] = request[r]
  PROVE  TellInv'
  <1>1. \A r \in Requests : Mails(r)' => Mails(r) /\ request'[r] = request[r]
    BY DEF Mails
  <1>2. \A r \in Requests : lossless' /\ Mails(r) => Mails(r)' /\ request'[r] = request[r]
    BY DEF Mails
  <1>3. QED
    BY <1>1, <1>2, TellStays

(* Steps of the one request r that mails about inquiry i.                   *)
LEMMA TellMailer ==
  ASSUME TellInv, NEW r \in Requests, Mails(r), NEW i \in Inquiries, i = request[r].row,
         UNCHANGED <<inquiry, recipient, lossless>>, audit \subseteq audit',
         \A q \in Requests : q # r => request'[q] = request[q],
         \A j \in Inquiries : notification[j] \in Outcome => notification'[j] \in Outcome,
         \/ Mails(r)' /\ request'[r].row = i /\ request[r].step # "audit"
         \/ Mails(r)' /\ request'[r].row = i /\ <<"submitted", i>> \in audit'
         \/ request'[r] = None /\ Told(i)'
  PROVE  TellInv'
  <1>1. \A q \in Requests : q # r => request'[q] = request[q] /\ Mails(q)' = Mails(q)
    BY DEF Mails
  <1>2. \A q \in Requests : Mails(q)' /\ request'[q].step # "audit" =>
            \/ Mails(q) /\ request[q].step # "audit" /\ request'[q].row = request[q].row
            \/ <<"submitted", request'[q].row>> \in audit'
    <2> SUFFICES ASSUME Mails(r)', request'[r].step # "audit"
                 PROVE  \/ request[r].step # "audit" /\ request'[r].row = request[r].row
                        \/ <<"submitted", request'[r].row>> \in audit'
      BY <1>1
    <2>1. QED
      BY DEF Mails
  <1>3. \A q \in Requests : Mails(q) =>
            \/ Mails(q)' /\ request'[q].row = request[q].row
            \/ \A j \in Inquiries : j = request[q].row => Told(j)'
    BY <1>1
  <1>4. QED
    BY <1>2, <1>3, TellStays

LEMMA TellStep ==
  ASSUME MailInv, TellInv, [Next]_vars
  PROVE  TellInv'
  <1>a. TypeOK /\ \A r \in Requests : request[r] # None => request[r] \in Request
    BY DEF MailInv, TypeOK
  <1>b. \A r \in Requests : Mails(r) => request[r].row \in Inquiries /\ Progress(r)
    BY DEF MailInv, MailersProgress, Progress
  <1>c. \A r \in Requests : Mails(r) /\ request[r].step # "audit" =>
           <<"submitted", request[r].row>> \in audit
    BY DEF TellInv, MailersHaveLogged
  <1>1. ASSUME NEW r \in Requests, NEW a \in Addresses, NEW c \in Contents,
               SubmitFirst(r, a, c) \/ SubmitAgain(r, a, c)
        PROVE  TellInv'
    <2>1. \A q \in Requests : Mails(q) \/ Mails(q)' => request'[q] = request[q]
      BY <1>1, <1>a DEF SubmitFirst, SubmitAgain, Mails, MailStep, TypeOK
    <2>2. QED
      BY <1>1, <2>1, TellQuiet DEF SubmitFirst, SubmitAgain, history
  <1>2. ASSUME NEW r \in Requests,
               \/ Increment(r) \/ IncrementFails(r) \/ SetCount(r) \/ Check(r) \/ Suppress(r)
        PROVE  TellInv'
    <2>1. \A q \in Requests : Mails(q) \/ Mails(q)' => request'[q] = request[q]
      BY <1>2, <1>a DEF Increment, IncrementFails, SetCount, Check, Suppress, GoTo, Finish,
         At, Mails, MailStep, TypeOK, Request
    <2>2. UNCHANGED <<inquiry, notification, recipient, audit, lossless>>
      BY <1>2 DEF Increment, IncrementFails, SetCount, Check, Suppress, history
    <2>3. QED
      BY <2>1, <2>2, TellQuiet
  <1>3. ASSUME (\E r \in Requests : Fail(r)) \/ Crash
        PROVE  TellInv'
    <2>1. /\ ~lossless' /\ UNCHANGED <<inquiry, notification, recipient, audit>>
          /\ \A r \in Requests : Mails(r)' => request'[r] = request[r]
      BY <1>3, <1>a DEF Fail, Crash, Finish, Mails, TypeOK
    <2>2. QED
      BY <2>1, TellQuiet
  <1>4. ASSUME \/ \E a \in Addresses : EntryVanishes(a)
               \/ \E i \in Inquiries : Age(i)
               \/ UNCHANGED vars
        PROVE  TellInv'
    <2>1. /\ UNCHANGED <<notification, recipient, audit, request, lossless>>
          /\ \A i \in Inquiries : inquiry'[i] # None => inquiry[i] # None
      BY <1>4, <1>a DEF EntryVanishes, Age, vars, history, TypeOK
    <2>2. QED
      BY <2>1, TellQuiet
  <1>5. ASSUME NEW r \in Requests, NEW i \in Inquiries, Save(r, i)
        PROVE  TellInv'
    <2>1. request[r] \in Request /\ request[r].step = "save"
      BY <1>5, <1>a DEF Save, At
    <2> DEFINE req == [[request[r] EXCEPT !.step = "audit"] EXCEPT !.row = i]
    <2>2. req \in Request /\ req.step = "audit" /\ req.row = i
      BY <2>1 DEF Request, Step
    <2>3. request' = [request EXCEPT ![r] = req]
      BY <1>5, <1>a DEF Save, TypeOK
    <2>4. req # None
      BY <2>2, RequestFields
    <2> HIDE DEF req
    <2>5. /\ Mails(r)' /\ request'[r].step = "audit" /\ request'[r].row = i /\ ~Mails(r)
          /\ \A q \in Requests : q # r => request'[q] = request[q] /\ Mails(q)' = Mails(q)
      BY <1>a, <2>1, <2>2, <2>3, <2>4 DEF Mails, MailStep, TypeOK
    <2>6. \A j \in Inquiries : inquiry'[j] # None => inquiry[j] # None \/ j = i
      BY <1>5, <1>a DEF Save, TypeOK
    <2>7. UNCHANGED <<audit, recipient, notification, lossless>>
      BY <1>5 DEF Save, history
    <2>8. /\ \A j \in Inquiries : inquiry'[j] # None =>
                inquiry[j] # None \/ \E q \in Requests : Mails(q)' /\ request'[q].row = j
          /\ \A q \in Requests : Mails(q)' /\ request'[q].step # "audit" =>
                Mails(q) /\ request[q].step # "audit" /\ request'[q].row = request[q].row
          /\ \A q \in Requests : Mails(q) => Mails(q)' /\ request'[q].row = request[q].row
      BY <2>5, <2>6
    <2>9. QED
      BY <2>7, <2>8, TellStays
  <1>6. ASSUME NEW r \in Requests, LogSubmission(r)
        PROVE  TellInv'
    <2>1. Mails(r)
      BY <1>6 DEF LogSubmission, At, Mails, MailStep
    <2>i. PICK i \in Inquiries : i = request[r].row
      BY <1>b, <2>1
    <2>2. /\ UNCHANGED <<inquiry, recipient, lossless, notification>>
          /\ audit' = audit \cup {<<"submitted", i>>}
      BY <1>6, <2>i DEF LogSubmission, Logged, history
    <2>3. /\ Mails(r)' /\ request'[r].row = i
          /\ \A q \in Requests : q # r => request'[q] = request[q]
      BY <1>6, <1>a, <2>1, <2>i, GoToFields DEF LogSubmission, Mails, MailStep, Step
    <2>4. QED
      BY <2>1, <2>i, <2>2, <2>3, TellMailer
  <1>7. ASSUME NEW r \in Requests, Notify(r)
        PROVE  TellInv'
    <2>1. Mails(r) /\ request[r].step = "notify"
      BY <1>7 DEF Notify, At, Mails, MailStep
    <2>i. PICK i \in Inquiries : i = request[r].row
      BY <1>b, <2>1
    <2>2. notification[i] = None /\ <<"submitted", i>> \in audit
      BY <1>b, <1>c, <2>1, <2>i DEF Progress
    <2>3. UNCHANGED <<inquiry, recipient, lossless, audit>>
      BY <1>7 DEF Notify, history
    <2>4. CASE recipient
      <3>1. /\ Mails(r)' /\ request'[r].row = i
            /\ \A q \in Requests : q # r => request'[q] = request[q]
        BY <1>7, <1>a, <2>1, <2>i, <2>2, <2>4, GoToFields DEF Notify, Mails, MailStep, Step
      <3>2. \A j \in Inquiries : notification[j] \in Outcome => notification'[j] \in Outcome
        BY <1>7, <1>a, <2>i, <2>2, <2>4, NoneIsNothing DEF Notify, TypeOK
      <3>3. QED
        BY <2>1, <2>i, <2>3, <3>1, <3>2, TellMailer
    <2>5. CASE ~recipient
      <3>1. /\ request'[r] = None /\ notification' = notification
            /\ \A q \in Requests : q # r => request'[q] = request[q]
        BY <1>7, <1>a, <2>5 DEF Notify, Finish, TypeOK
      <3>2. Told(i)'
        BY <2>2, <2>3, <2>5 DEF Told
      <3>3. QED
        BY <2>1, <2>i, <2>3, <3>1, <3>2, TellMailer
    <2>6. QED
      BY <2>4, <2>5
  <1>8. ASSUME NEW r \in Requests, NEW arrives \in BOOLEAN, NEW error \in BOOLEAN,
               Send(r, arrives, error)
        PROVE  TellInv'
    <2>1. Mails(r) /\ request[r].step = "send" /\ request[r] \in Request
      BY <1>8, <1>a DEF Send, At, Mails, MailStep
    <2>i. PICK i \in Inquiries : i = request[r].row
      BY <1>b, <2>1
    <2> DEFINE req == [[request[r] EXCEPT !.step = "record"] EXCEPT !.error = error]
    <2>2. req \in Request /\ req.step = "record" /\ req.row = i
      BY <2>i, <2>1 DEF Request, Step
    <2>3. request' = [request EXCEPT ![r] = req]
      BY <1>8, <1>a DEF Send, TypeOK
    <2>4. req # None
      BY <2>2, RequestFields
    <2> HIDE DEF req
    <2>5. /\ Mails(r)' /\ request'[r].row = i
          /\ \A q \in Requests : q # r => request'[q] = request[q]
      BY <1>a, <2>2, <2>3, <2>4 DEF Mails, MailStep, TypeOK
    <2>6. UNCHANGED <<inquiry, recipient, lossless, notification, audit>>
      BY <1>8 DEF Send, history
    <2>7. QED
      BY <2>1, <2>i, <2>5, <2>6, TellMailer
  <1>9. ASSUME NEW r \in Requests, Record(r)
        PROVE  TellInv'
    <2>1. Mails(r) /\ request[r].step = "record"
      BY <1>9 DEF Record, At, Mails, MailStep
    <2>i. PICK i \in Inquiries : i = request[r].row
      BY <1>b, <2>1
    <2>2. \A j \in Inquiries : notification[j] \in Outcome => notification'[j] \in Outcome
      BY <1>9, <1>a DEF Record, TypeOK, Outcome
    <2>3. /\ Mails(r)' /\ request'[r].row = i
          /\ \A q \in Requests : q # r => request'[q] = request[q]
      BY <1>9, <1>a, <2>1, <2>i, GoToFields DEF Record, Mails, MailStep, Step
    <2>4. UNCHANGED <<inquiry, recipient, lossless, audit>>
      BY <1>9 DEF Record, history
    <2>5. QED
      BY <2>1, <2>i, <2>2, <2>3, <2>4, TellMailer
  <1>10. ASSUME NEW r \in Requests, Report(r)
         PROVE  TellInv'
    <2>1. Mails(r) /\ request[r].step = "report"
      BY <1>10 DEF Report, At, Mails, MailStep
    <2>i. PICK i \in Inquiries : i = request[r].row
      BY <1>b, <2>1
    <2>2. notification[i] \in Outcome /\ <<"submitted", i>> \in audit
      BY <1>b, <1>c, <2>1, <2>i DEF Progress, Outcome
    <2>3. /\ UNCHANGED <<inquiry, recipient, lossless, notification>>
          /\ audit' = audit \cup {<<IF request[r].error THEN "notification_failed"
                                    ELSE "notification_sent", i>>}
      BY <1>10, <2>i DEF Report, Logged, history
    <2>4. Told(i)'
      BY <2>2, <2>3 DEF Told
    <2>5. /\ request'[r] = None
          /\ \A q \in Requests : q # r => request'[q] = request[q]
      BY <1>10, <1>a DEF Report, Finish, TypeOK
    <2>6. QED
      BY <2>1, <2>i, <2>3, <2>4, <2>5, TellMailer
  <1>11. QED
    BY <1>1, <1>2, <1>3, <1>4, <1>5, <1>6, <1>7, <1>8, <1>9, <1>10 DEF Next

(* Without an error of the database or a lost worker, every inquiry stored  *)
(* ends with its events and the outcome of its alert (contact,              *)
(* notify_new_inquiry).                                                     *)
THEOREM NothingEverForgotten == Spec => []NothingIsForgotten
  <1>1. Init => TellInv
    BY DEF Init, TellInv, MailersHaveLogged, HeldOrTold, Mails
  <1>2. MailInv /\ TellInv /\ [Next]_vars => TellInv'
    BY TellStep
  <1>3. TellInv => NothingIsForgotten
    <2>1. \A i \in Inquiries :
             (\E r \in Requests : Mails(r) /\ request[r].row = i) => InHand(i)
      BY DEF Mails, MailStep, InHand
    <2>2. QED
      BY <2>1 DEF TellInv, HeldOrTold, Told, NothingIsForgotten
  <1>4. QED
    BY <1>1, <1>2, <1>3, MailInvariance, PTL DEF Spec

=============================================================================
