--------------------------- MODULE AuditTrailProofs ---------------------------
(***************************************************************************)
(* Proofs about AuditTrail, for any rows, values, history and number of     *)
(* requests in progress; the last of them while requests about one row do   *)
(* not overlap (OneForEach).                                                *)
(***************************************************************************)
EXTENDS MCRecords, TLAPS

(* What a request has in hand: a value to save, and a number that was free  *)
(* when it was read, so it is at most one above those that are taken.       *)
JobsAreSound ==
    \A w \in Workers : job[w] # None =>
        /\ job[w].step \in {"save", "write"} => job[w].value \in Values
        /\ job[w].record \in Catalogue => job[w].number <= Len(history[job[w].record]) + 1

IInv == TypeOK /\ RevisionsAreNumbered /\ JobsAreSound

-----------------------------------------------------------------------------
(* A row that gets a new value, or none.                                    *)
LEMMA PutType ==
    ASSUME TypeOK, NEW e \in Records, NEW v \in Values \cup {None}, Put(e, v)
    PROVE  /\ record' \in [Records -> Values \cup {None}]
           /\ past' \in [Records -> SUBSET Values]
BY NoneAssumption DEF TypeOK, Put

(* A request that takes up a job that reads or saves; the history stays.    *)
LEMMA BeginKeeps ==
    ASSUME IInv, NEW w \in Workers, NEW j \in Job, Begin(w, j),
           j.step \in {"save", "write"} => j.value \in Values, j.number = 0
    PROVE  IInv'
<1>1. TypeOK' BY DEF IInv, TypeOK, Begin
<1>2. RevisionsAreNumbered' BY DEF IInv, RevisionsAreNumbered, Begin
<1>3. JobsAreSound'
  <2> SUFFICES ASSUME NEW v \in Workers, job'[v] # None
               PROVE  /\ job'[v].step \in {"save", "write"} => job'[v].value \in Values
                      /\ job'[v].record \in Catalogue
                            => job'[v].number <= Len(history'[job'[v].record]) + 1
    BY DEF JobsAreSound
  <2>1. CASE v = w
    <3>1. job'[v] = j /\ history' = history BY <2>1 DEF Begin, IInv, TypeOK
    <3>2. history[j.record] \in Seq(Entry) BY DEF IInv, TypeOK, Job
    <3>3. Len(history[j.record]) \in Nat BY <3>2
    <3> QED BY <3>1, <3>3
  <2>2. CASE v # w
    BY <2>2 DEF Begin, IInv, TypeOK, JobsAreSound
  <2> QED BY <2>1, <2>2
<1> QED BY <1>1, <1>2, <1>3 DEF IInv

(* A step after which a request goes on with the same value and number, or  *)
(* is done, and that leaves the history alone.                              *)
LEMMA GoOnKeeps ==
    ASSUME IInv, NEW w \in Workers, job[w] # None,
           NEW j \in Job \cup {None}, job' = [job EXCEPT ![w] = j],
           j # None => /\ j.step \in {"save", "write"} => j.value \in Values
                       /\ j.record \in Catalogue => j.number <= Len(history[j.record]) + 1,
           record' \in [Records -> Values \cup {None}],
           past' \in [Records -> SUBSET Values],
           deletion' \subseteq Records,
           lost' \subseteq Records,
           UNCHANGED history
    PROVE  IInv'
<1>1. TypeOK' BY DEF IInv, TypeOK
<1>2. RevisionsAreNumbered' BY DEF IInv, RevisionsAreNumbered
<1>3. JobsAreSound' BY DEF IInv, TypeOK, JobsAreSound
<1> QED BY <1>1, <1>2, <1>3 DEF IInv

(* A commit appends the entry of its request: its number is free and at     *)
(* most one above the others, so it is the next.                            *)
LEMMA WriteKeeps ==
    ASSUME IInv, NEW w \in Workers, WriteRevision(w) \/ WriteEvent(w)
    PROVE  IInv'
<1> DEFINE e == job[w].record
           h == history[e]
<1>0. Commit(w)
  BY DEF WriteRevision, WriteEvent
<1>1. job[w] # None /\ job[w] \in Job /\ job[w].step = "write"
  BY <1>0 DEF Commit, At, IInv, TypeOK
<1>2. e \in Records /\ h \in Seq(Entry) /\ Len(h) \in Nat
  BY <1>1 DEF Job, IInv, TypeOK
<1>3. job[w].value \in Values
  BY <1>1 DEF IInv, JobsAreSound
<1>4. Written(w) \in Entry
  BY <1>1, <1>3 DEF Written, Entry, Job
<1>5. history' = [history EXCEPT ![e] = Append(h, Written(w))]
  BY <1>0 DEF Commit
<1>6. history'[e] = Append(h, Written(w)) /\ Append(h, Written(w)) \in Seq(Entry)
  BY <1>2, <1>4, <1>5 DEF IInv, TypeOK
<1>7. \A r \in Records : r # e => history'[r] = history[r]
  BY <1>5 DEF IInv, TypeOK
<1>8. job' = [job EXCEPT ![w] = None]
  BY <1>0 DEF Commit
<1>9. TypeOK'
  <2>1. history' \in [Records -> Seq(Entry)] BY <1>2, <1>5, <1>6 DEF IInv, TypeOK
  <2>2. job' \in [Workers -> Job \cup {None}] BY <1>8 DEF IInv, TypeOK
  <2>3. /\ record' \in [Records -> Values \cup {None}]
        /\ past' \in [Records -> SUBSET Values]
    <3>1. CASE job[w].hook BY <1>0, <3>1 DEF Commit, IInv, TypeOK
    <3>2. CASE ~job[w].hook
      <4>1. Put(e, job[w].value) BY <1>0, <3>2 DEF Commit
      <4> QED BY <4>1, <1>2, <1>3, PutType DEF IInv
    <3> QED BY <3>1, <3>2
  <2>4. deletion' = deletion /\ lost' = lost BY <1>0 DEF Commit
  <2> QED BY <2>1, <2>2, <2>3, <2>4 DEF IInv, TypeOK
<1>10. RevisionsAreNumbered'
  <2> SUFFICES ASSUME NEW r \in Catalogue, NEW i \in DOMAIN history'[r]
               PROVE  history'[r][i].number = i
    BY DEF RevisionsAreNumbered
  <2>1. CASE r # e
    BY <2>1, <1>7 DEF IInv, RevisionsAreNumbered, Records
  <2>2. CASE r = e
    <3>1. job[w].number \notin {0} \cup Numbers(e)
      BY <2>2 DEF WriteRevision, WriteEvent
    <3>2. job[w].number \in Nat /\ job[w].number <= Len(h) + 1
      BY <2>2, <1>1 DEF IInv, JobsAreSound, Job
    <3>3. \A k \in 1..Len(h) : k \in Numbers(e)
      <4>1. \A k \in 1..Len(h) : h[k].number = k
        BY <2>2, <1>2 DEF IInv, RevisionsAreNumbered
      <4> QED BY <4>1, <1>2 DEF Numbers
    <3>4. job[w].number = Len(h) + 1
      BY <3>1, <3>2, <3>3, <1>2
    <3>5. Written(w).number = Len(h) + 1
      BY <3>4 DEF Written
    <3>6. i \in 1..(Len(h) + 1)
      BY <1>2, <1>4, <1>6, <2>2
    <3>7. CASE i = Len(h) + 1
      BY <3>5, <3>7, <1>2, <1>4, <1>6, <2>2
    <3>8. CASE i \in 1..Len(h)
      <4>1. history'[e][i] = h[i] BY <3>8, <1>2, <1>4, <1>6
      <4>2. h[i].number = i BY <3>8, <2>2, <1>2 DEF IInv, RevisionsAreNumbered
      <4> QED BY <4>1, <4>2, <2>2
    <3> QED BY <3>6, <3>7, <3>8, <1>2
  <2> QED BY <2>1, <2>2
<1>11. JobsAreSound'
  <2> SUFFICES ASSUME NEW v \in Workers, job'[v] # None
               PROVE  /\ job'[v].step \in {"save", "write"} => job'[v].value \in Values
                      /\ job'[v].record \in Catalogue
                            => job'[v].number <= Len(history'[job'[v].record]) + 1
    BY DEF JobsAreSound
  <2>1. v # w /\ job'[v] = job[v] /\ job[v] \in Job
    BY <1>8 DEF IInv, TypeOK
  <2>2. /\ job[v].step \in {"save", "write"} => job[v].value \in Values
        /\ job[v].record \in Catalogue => job[v].number <= Len(history[job[v].record]) + 1
    BY <2>1 DEF IInv, JobsAreSound
  <2>3. CASE job[v].record = e
    <3>1. Len(history'[e]) = Len(h) + 1 BY <1>2, <1>4, <1>6
    <3>2. job[v].number \in Nat BY <2>1 DEF Job
    <3> QED BY <2>1, <2>2, <2>3, <3>1, <3>2, <1>2
  <2>4. CASE job[v].record # e
    BY <2>1, <2>2, <2>4, <1>7 DEF Job
  <2> QED BY <2>3, <2>4
<1> QED BY <1>9, <1>10, <1>11 DEF IInv

(* The number that record_revision computes is one above one that is taken. *)
LEMMA ReadNumberKeeps ==
    ASSUME IInv, NEW w \in Workers, ReadNumber(w)
    PROVE  IInv'
<1> DEFINE e == job[w].record
<1>1. job[w] # None /\ job[w] \in Job /\ job[w].step = "write" /\ e \in Catalogue
  BY DEF ReadNumber, At, IInv, TypeOK
<1>2. history[e] \in Seq(Entry) /\ Len(history[e]) \in Nat
  BY <1>1 DEF IInv, TypeOK, Records
<1>3. PICK n \in {0} \cup Numbers(e) : job' = [job EXCEPT ![w].number = n + 1]
  BY DEF ReadNumber
<1>4. n \in Nat /\ n <= Len(history[e])
  <2>1. \A i \in DOMAIN history[e] : history[e][i].number = i
    BY <1>1 DEF IInv, RevisionsAreNumbered
  <2>2. \A i \in DOMAIN history[e] : i \in 1..Len(history[e])
    BY <1>2
  <2> QED BY <2>1, <2>2, <1>2 DEF Numbers
<1>5. job' = [job EXCEPT ![w] = [job[w] EXCEPT !.number = n + 1]]
  BY <1>3, <1>1 DEF IInv, TypeOK
<1>6. [job[w] EXCEPT !.number = n + 1] \in Job
  BY <1>1, <1>4 DEF Job
<1>7. job[w].value \in Values
  BY <1>1 DEF IInv, JobsAreSound
<1>8. /\ [job[w] EXCEPT !.number = n + 1].value = job[w].value
      /\ [job[w] EXCEPT !.number = n + 1].record = e
      /\ [job[w] EXCEPT !.number = n + 1].number = n + 1
  BY <1>1 DEF Job
<1>9. UNCHANGED <<record, history, deletion, past, lost>>
  BY DEF ReadNumber
<1>10. /\ record' \in [Records -> Values \cup {None}]
       /\ past' \in [Records -> SUBSET Values]
       /\ deletion' \subseteq Records
       /\ lost' \subseteq Records
  BY <1>9 DEF IInv, TypeOK
<1>11. n + 1 <= Len(history[e]) + 1
  BY <1>2, <1>4
<1> HIDE DEF e
<1> QED BY <1>1, <1>5, <1>6, <1>7, <1>8, <1>9, <1>10, <1>11, GoOnKeeps

-----------------------------------------------------------------------------
LEMMA Initially == Init => IInv
<1> SUFFICES ASSUME Init PROVE IInv OBVIOUS
<1>1. \A e \in Records : history[e] = <<>> BY DEF Init
<1>2. <<>> \in Seq(Entry) /\ DOMAIN <<>> = {} OBVIOUS
<1>3. history \in [Records -> Seq(Entry)] BY <1>2 DEF Init
<1>4. TypeOK BY <1>3 DEF Init, TypeOK
<1>5. RevisionsAreNumbered BY <1>1, <1>2 DEF RevisionsAreNumbered, Records
<1>6. JobsAreSound BY DEF Init, JobsAreSound
<1> QED BY <1>4, <1>5, <1>6 DEF IInv

(* What a form works with: the row as its hook has serialised it.           *)
LEMMA EditJob ==
    ASSUME TypeOK, NEW w \in Workers, NEW e \in Records, NEW v \in Values, StartEdit(w, e, v)
    PROVE  \E j \in Job :
              /\ Begin(w, j) /\ j.value \in Values /\ j.number = 0
              /\ j.record = e /\ j.step = "save" /\ j.hook
              /\ StartsFrom(e, record[e], j.before, j.value)
<1> DEFINE before == IF Restores(e, record[e], v) THEN Undated(record[e]) ELSE record[e]
           j == Form("save", e, before, v)
<1>1. record[e] # None /\ record[e] \in Values /\ Begin(w, j)
  BY DEF StartEdit, TypeOK
<1>2. before \in Snapshot
  BY <1>1 DEF Snapshot, Restores
<1>3. StartsFrom(e, record[e], before, v)
  BY DEF StartsFrom
<1> HIDE DEF before
<1>4. j \in Job
  BY <1>2 DEF Form, Job
<1>5. /\ j.value = v /\ j.number = 0 /\ j.record = e /\ j.step = "save" /\ j.hook
      /\ j.before = before
  BY DEF Form
<1> HIDE DEF j
<1> QED BY <1>1, <1>3, <1>4, <1>5

LEMMA StepKeeps == IInv /\ [Next]_vars => IInv'
<1> SUFFICES ASSUME IInv, [Next]_vars PROVE IInv' OBVIOUS
<1>1. CASE UNCHANGED vars
  BY <1>1 DEF vars, IInv, TypeOK, RevisionsAreNumbered, JobsAreSound
<1>2. ASSUME NEW w \in Workers, NEW e \in Records, NEW v \in Values, Create(w, e, v)
      PROVE  IInv'
  <2> DEFINE j == Form("write", e, None, v)
  <2>1. /\ j \in Job /\ job' = [job EXCEPT ![w] = j] /\ Put(e, v)
        /\ UNCHANGED <<history, deletion, lost>>
    BY <1>2 DEF Create, Form, Job
  <2>2. record' \in [Records -> Values \cup {None}] /\ past' \in [Records -> SUBSET Values]
    BY <2>1, PutType DEF IInv
  <2>3. TypeOK' BY <2>1, <2>2 DEF IInv, TypeOK
  <2>4. RevisionsAreNumbered' BY <2>1 DEF IInv, RevisionsAreNumbered
  <2>5. JobsAreSound'
    <3>1. Len(history[e]) \in Nat BY DEF IInv, TypeOK
    <3>2. j.value = v /\ j.record = e /\ j.number = 0 BY DEF Form
    <3>3. \A u \in Workers : u # w => job'[u] = job[u] BY <2>1 DEF IInv, TypeOK
    <3>4. job'[w] = j /\ history' = history BY <2>1 DEF IInv, TypeOK
    <3> HIDE DEF j
    <3> QED BY <3>1, <3>2, <3>3, <3>4 DEF IInv, JobsAreSound
  <2> QED BY <2>3, <2>4, <2>5 DEF IInv
<1>3. ASSUME NEW w \in Workers, NEW e \in Records, NEW v \in Values, StartEdit(w, e, v)
      PROVE  IInv'
  <2>1. PICK j \in Job :
              /\ Begin(w, j) /\ j.value \in Values /\ j.number = 0
              /\ j.record = e /\ j.step = "save" /\ j.hook
              /\ StartsFrom(e, record[e], j.before, j.value)
    BY <1>3, EditJob DEF IInv
  <2> QED BY <2>1, BeginKeeps
<1>4. ASSUME NEW w \in Workers, NEW e \in Records, NEW v \in Values, StartService(w, e, v)
      PROVE  IInv'
  <2> DEFINE j == Service("save", e, record[e], v, FALSE)
  <2>1. j \in Job /\ Begin(w, j) /\ j.value \in Values /\ j.number = 0
    BY <1>4 DEF StartService, Service, Job, Snapshot, IInv, TypeOK
  <2> HIDE DEF j
  <2> QED BY <2>1, BeginKeeps
<1>5. ASSUME NEW w \in Workers, NEW e \in Records, RestoreRevision(w, e)
      PROVE  IInv'
  <2>1. PICK i \in DOMAIN history[e] :
              Begin(w, Service("save", e, record[e], history[e][i].after, FALSE))
    BY <1>5 DEF RestoreRevision
  <2>2. history[e] \in Seq(Entry) BY DEF IInv, TypeOK
  <2>3. history[e][i] \in Entry BY <2>1, <2>2
  <2>4. history[e][i].after \in Values BY <2>3 DEF Entry
  <2> DEFINE j == Service("save", e, record[e], history[e][i].after, FALSE)
  <2>5. j \in Job /\ Begin(w, j) /\ j.value \in Values /\ j.number = 0
    BY <1>5, <2>1, <2>4 DEF RestoreRevision, Service, Job, Snapshot, IInv, TypeOK
  <2> HIDE DEF j
  <2> QED BY <2>5, BeginKeeps
<1>6. ASSUME NEW w \in Workers, NEW e \in Records, NEW v \in Values, StartLockedUpdate(w, e, v)
      PROVE  IInv'
  <2> DEFINE j == Service("write", e, record[e], v, TRUE)
  <2>1. j \in Job /\ Begin(w, j) /\ j.value \in Values /\ j.number = 0
    BY <1>6 DEF StartLockedUpdate, Service, Job, Snapshot, IInv, TypeOK
  <2> HIDE DEF j
  <2> QED BY <2>1, BeginKeeps
<1>7. ASSUME NEW w \in Workers, NEW e \in Records, StartDelete(w, e)
      PROVE  IInv'
  <2> DEFINE j == Form("delete", e, None, None)
  <2>1. j \in Job /\ Begin(w, j) /\ j.step = "delete" /\ j.number = 0
    BY <1>7 DEF StartDelete, Form, Job
  <2> HIDE DEF j
  <2> QED BY <2>1, BeginKeeps
<1>8. ASSUME NEW w \in Workers, SaveEdit(w)
      PROVE  IInv'
  <2> DEFINE j == [job[w] EXCEPT !.step = "write"]
  <2>1. job[w] # None /\ job[w] \in Job /\ job[w].step = "save"
    BY <1>8 DEF SaveEdit, At, IInv, TypeOK
  <2>2. /\ j \in Job /\ j.value = job[w].value
        /\ j.record = job[w].record /\ j.number = job[w].number
    BY <2>1 DEF Job
  <2>3. /\ job' = [job EXCEPT ![w] = j]
        /\ Put(job[w].record, job[w].value)
        /\ UNCHANGED <<history, deletion, lost>>
    BY <1>8 DEF SaveEdit, IInv, TypeOK
  <2>4. record' \in [Records -> Values \cup {None}] /\ past' \in [Records -> SUBSET Values]
    BY <2>1, <2>3, PutType DEF IInv, Job
  <2>5. deletion' \subseteq Records /\ lost' \subseteq Records
    BY <2>3 DEF IInv, TypeOK
  <2>6. /\ j.value \in Values
        /\ j.record \in Catalogue => j.number <= Len(history[j.record]) + 1
    BY <2>1, <2>2 DEF IInv, JobsAreSound
  <2> HIDE DEF j
  <2> QED BY <2>1, <2>2, <2>3, <2>4, <2>5, <2>6, GoOnKeeps
<1>9. ASSUME NEW w \in Workers, SaveInService(w)
      PROVE  IInv'
  <2> DEFINE j == [job[w] EXCEPT !.step = "write", !.lock = TRUE]
  <2>1. job[w] # None /\ job[w] \in Job /\ job[w].step = "save"
    BY <1>9 DEF SaveInService, At, IInv, TypeOK
  <2>2. /\ j \in Job /\ j.value = job[w].value
        /\ j.record = job[w].record /\ j.number = job[w].number
    BY <2>1 DEF Job
  <2>3. /\ job' = [job EXCEPT ![w] = j]
        /\ UNCHANGED <<record, history, deletion, past, lost>>
    BY <1>9 DEF SaveInService, IInv, TypeOK
  <2>4. /\ record' \in [Records -> Values \cup {None}] /\ past' \in [Records -> SUBSET Values]
        /\ deletion' \subseteq Records /\ lost' \subseteq Records
    BY <2>3 DEF IInv, TypeOK
  <2>5. /\ j.value \in Values
        /\ j.record \in Catalogue => j.number <= Len(history[j.record]) + 1
    BY <2>1, <2>2 DEF IInv, JobsAreSound
  <2> HIDE DEF j
  <2> QED BY <2>1, <2>2, <2>3, <2>4, <2>5, GoOnKeeps
<1>10. ASSUME NEW w \in Workers, Delete(w)
       PROVE  IInv'
  <2> DEFINE j == [job[w] EXCEPT !.step = "log_deletion"]
  <2>1. job[w] # None /\ job[w] \in Job
    BY <1>10 DEF Delete, At, IInv, TypeOK
  <2>2. /\ j \in Job /\ j.step = "log_deletion"
        /\ j.record = job[w].record /\ j.number = job[w].number
    BY <2>1 DEF Job
  <2>3. /\ job' = [job EXCEPT ![w] = j]
        /\ Put(job[w].record, None)
        /\ UNCHANGED <<history, deletion, lost>>
    BY <1>10 DEF Delete, IInv, TypeOK
  <2>4. record' \in [Records -> Values \cup {None}] /\ past' \in [Records -> SUBSET Values]
    BY <2>1, <2>3, PutType DEF IInv, Job
  <2>5. deletion' \subseteq Records /\ lost' \subseteq Records
    BY <2>3 DEF IInv, TypeOK
  <2>6. j.record \in Catalogue => j.number <= Len(history[j.record]) + 1
    BY <2>1, <2>2 DEF IInv, JobsAreSound
  <2> HIDE DEF j
  <2> QED BY <2>1, <2>2, <2>3, <2>4, <2>5, <2>6, GoOnKeeps
<1>11. ASSUME NEW w \in Workers, LogDeletion(w)
       PROVE  IInv'
  <2>1. job[w] # None /\ job[w] \in Job
    BY <1>11 DEF LogDeletion, At, IInv, TypeOK
  <2>2. /\ record' \in [Records -> Values \cup {None}] /\ past' \in [Records -> SUBSET Values]
        /\ deletion' \subseteq Records /\ lost' \subseteq Records
    BY <2>1, <1>11 DEF LogDeletion, IInv, TypeOK, Job
  <2>3. job' = [job EXCEPT ![w] = None] /\ UNCHANGED history
    BY <1>11 DEF LogDeletion
  <2> QED BY <2>1, <2>2, <2>3, GoOnKeeps
<1>12. ASSUME NEW w \in Workers, Abort(w)
       PROVE  IInv'
  <2>1. job[w] # None /\ job' = [job EXCEPT ![w] = None] /\ UNCHANGED history
    BY <1>12 DEF Abort
  <2>2. lost' \subseteq Records
    BY <1>12 DEF Abort, Job, IInv, TypeOK
  <2>3. /\ record' \in [Records -> Values \cup {None}] /\ past' \in [Records -> SUBSET Values]
        /\ deletion' \subseteq Records
    BY <1>12 DEF Abort, IInv, TypeOK
  <2> QED BY <2>1, <2>2, <2>3, GoOnKeeps
<1>13. ASSUME NEW w \in Workers, NEW e \in Records, NEW v \in Values, StartGuidedCreate(w, e, v)
       PROVE  IInv'
  <2> DEFINE j == Service("write", e, None, v, FALSE)
  <2>1. j \in Job /\ Begin(w, j) /\ j.value \in Values /\ j.number = 0
    BY <1>13 DEF StartGuidedCreate, Service, Job
  <2> HIDE DEF j
  <2> QED BY <2>1, BeginKeeps
<1> QED
  BY <1>1, <1>2, <1>3, <1>4, <1>5, <1>6, <1>7, <1>8, <1>9, <1>10, <1>11, <1>12, <1>13,
     ReadNumberKeeps, WriteKeeps DEF Next

LEMMA Inductive == Spec => []IInv
BY Initially, StepKeeps, PTL DEF Spec

(* Every reachable state holds rows, entries and jobs of their kinds.       *)
THEOREM TypeCorrect == Spec => []TypeOK
<1>1. IInv => TypeOK BY DEF IInv
<1> QED BY <1>1, Inductive, PTL

(* The revisions of every row are numbered 1, 2, 3, ... however many        *)
(* requests change it at once: record_revision with its unique constraint.  *)
THEOREM RevisionsAlwaysNumbered == Spec => []RevisionsAreNumbered
<1>1. IInv => RevisionsAreNumbered BY DEF IInv
<1> QED BY <1>1, Inductive, PTL

-----------------------------------------------------------------------------
(* One request after another, the history of a row tells what it has gone   *)
(* through.                                                                 *)
LastValue(h) == IF h = <<>> THEN None ELSE h[Len(h)].after
Follows(e, h, i) ==
    StartsFrom(e, IF i = 1 THEN None ELSE h[i - 1].after, h[i].before, h[i].after)
Chained(e, h) == \A i \in DOMAIN h : Follows(e, h, i)
Told(e, h, value) == Chained(e, h) /\ LastValue(h) = value

LEMMA ToldByAppend ==
    ASSUME NEW e, NEW h \in Seq(Entry), NEW entry \in Entry, Chained(e, h),
           StartsFrom(e, LastValue(h), entry.before, entry.after)
    PROVE  Told(e, Append(h, entry), entry.after)
<1> DEFINE g == Append(h, entry)
<1>1. /\ Len(h) \in Nat /\ DOMAIN h = 1..Len(h)
      /\ g \in Seq(Entry) /\ Len(g) = Len(h) + 1 /\ DOMAIN g = 1..(Len(h) + 1)
      /\ g[Len(h) + 1] = entry
      /\ \A i \in 1..Len(h) : g[i] = h[i]
      /\ h = <<>> <=> Len(h) = 0
  OBVIOUS
<1> HIDE DEF g
<1>2. LastValue(g) = entry.after
  BY <1>1 DEF LastValue
<1>3. Chained(e, g)
  <2> SUFFICES ASSUME NEW i \in 1..(Len(h) + 1)
               PROVE  Follows(e, g, i)
    BY <1>1 DEF Chained
  <2>1. CASE i = Len(h) + 1
    <3>1. g[i] = entry BY <1>1, <2>1
    <3>2. LastValue(h) = IF i = 1 THEN None ELSE g[i - 1].after
      <4>1. CASE Len(h) = 0 BY <1>1, <2>1, <4>1 DEF LastValue
      <4>2. CASE Len(h) # 0
        <5>1. i # 1 /\ i - 1 = Len(h) /\ g[i - 1] = h[Len(h)] BY <1>1, <2>1, <4>2
        <5> QED BY <1>1, <4>2, <5>1 DEF LastValue
      <4> QED BY <4>1, <4>2
    <3> QED BY <3>1, <3>2 DEF Follows
  <2>2. CASE i \in 1..Len(h)
    <3>1. Follows(e, h, i) BY <1>1, <2>2 DEF Chained
    <3>2. g[i] = h[i] /\ (i # 1 => g[i - 1] = h[i - 1]) BY <1>1, <2>2
    <3> QED BY <3>1, <3>2 DEF Follows
  <2> QED BY <2>1, <2>2, <1>1
<1> QED BY <1>2, <1>3 DEF Told, g

(* A row that no request works on, and one that a request works on.         *)
AtRest(e) ==
    \/ past[e] = {}
    \/ record[e] = None /\ e \in deletion
    \/ record[e] # None /\ Told(e, history[e], record[e])
InProgress(e, j) ==
    /\ j.step = "save" => StartsFrom(e, record[e], j.before, j.value)
    /\ j.step \in {"save", "delete"} => record[e] # None /\ Told(e, history[e], record[e])
    /\ j.step = "write" =>
          /\ Chained(e, history[e])
          /\ StartsFrom(e, LastValue(history[e]), j.before, j.value)
          /\ record[e] = IF j.hook THEN j.value ELSE LastValue(history[e])
          /\ ~j.hook /\ record[e] = None => past[e] = {}
    /\ j.step = "log_deletion" => record[e] = None /\ past[e] # {}
    /\ j.step \in {"delete", "log_deletion"} => j.hook

Untouched(e) == record[e] = None /\ history[e] = <<>>
RowIsTold(e) ==
    /\ past[e] = {} => Untouched(e) /\ e \notin lost
    /\ e \notin lost =>
          /\ \A w \in Workers : job[w] # None /\ job[w].record = e => InProgress(e, job[w])
          /\ (\A w \in Workers : job[w] # None => job[w].record # e) => AtRest(e)
SerialInv == IInv /\ \A e \in Records : RowIsTold(e)

(* Requests about one row do not overlap.                                   *)
OneForEach ==
    \A v, w \in Workers :
        job[v] # None /\ job[w] # None /\ job[v].record = job[w].record => v = w

(* A request that works on another row.                                     *)
LEMMA OtherRow ==
    ASSUME TypeOK, NEW e \in Records, RowIsTold(e), NEW w \in Workers, NEW j,
           job' = [job EXCEPT ![w] = j],
           job[w] # None => job[w].record # e, j # None => j.record # e,
           record'[e] = record[e], history'[e] = history[e], past'[e] = past[e],
           e \in lost' <=> e \in lost, e \in deletion => e \in deletion'
    PROVE  RowIsTold(e)'
<1>1. job'[w] = j /\ \A v \in Workers \ {w} : job'[v] = job[v]
  BY DEF TypeOK
<1>2. past[e]' = {} => Untouched(e)' /\ e \notin lost'
  BY DEF RowIsTold, Untouched
<1>3. ASSUME NEW v \in Workers, job'[v] # None, job'[v].record = e
      PROVE  job[v] # None /\ job[v].record = e /\ job'[v] = job[v]
  BY <1>1, <1>3
<1>4. ASSUME NEW v \in Workers, job[v] # None, job[v].record = e
      PROVE  job'[v] # None /\ job'[v].record = e
  BY <1>1, <1>4
<1>5. ASSUME NEW k, InProgress(e, k)
      PROVE  InProgress(e, k)'
  BY <1>5 DEF InProgress
<1>6. AtRest(e) => AtRest(e)'
  BY DEF AtRest
<1>7. ASSUME e \notin lost', NEW v \in Workers, job'[v] # None, job'[v].record = e
      PROVE  InProgress(e, job[v])'
  <2>1. InProgress(e, job[v]) BY <1>3, <1>7 DEF RowIsTold
  <2> QED BY <2>1, <1>3, <1>7 DEF InProgress
<1>8. ASSUME e \notin lost', \A v \in Workers : job'[v] # None => job'[v].record # e
      PROVE  AtRest(e)'
  BY <1>4, <1>6, <1>8 DEF RowIsTold
<1> QED BY <1>2, <1>7, <1>8 DEF RowIsTold

(* The request that works on the row, which no other does.                  *)
LEMMA OwnRow ==
    ASSUME TypeOK, NEW e \in Records, NEW w \in Workers, NEW j,
           job' = [job EXCEPT ![w] = j],
           \A v \in Workers \ {w} : job[v] # None => job[v].record # e,
           past'[e] = {} => Untouched(e)' /\ e \notin lost',
           e \notin lost' /\ j # None => j.record = e /\ InProgress(e, j)',
           e \notin lost' /\ j = None => AtRest(e)'
    PROVE  RowIsTold(e)'
<1>1. job'[w] = j /\ \A v \in Workers \ {w} : job'[v] # None => job'[v].record # e
  BY DEF TypeOK
<1> QED BY <1>1 DEF RowIsTold

(* A step is one of a single request, on a row that no other works on.      *)
LEMMA RowStep ==
    ASSUME SerialInv, OneForEach, OneForEach', NEW e \in Records, NEW w \in Workers, NEW j,
           job' = [job EXCEPT ![w] = j], job[w] # None \/ j # None,
           job[w] # None => job[w].record = e, j # None => j.record = e,
           \A f \in Records \ {e} : /\ record'[f] = record[f] /\ history'[f] = history[f]
                                    /\ past'[f] = past[f] /\ (f \in lost' <=> f \in lost),
           deletion \subseteq deletion',
           past'[e] = {} => Untouched(e)' /\ e \notin lost',
           e \notin lost' => IF j = None THEN AtRest(e)' ELSE InProgress(e, j)'
    PROVE  \A f \in Records : RowIsTold(f)'
<1>1. TypeOK /\ \A f \in Records : RowIsTold(f)
  BY DEF SerialInv, IInv
<1>2. \A v \in Workers \ {w} : job[v] # None => job[v].record # e
  <2>1. job'[w] = j /\ \A v \in Workers \ {w} : job'[v] = job[v]
    BY <1>1 DEF TypeOK
  <2>2. CASE job[w] # None
    BY <2>2 DEF OneForEach
  <2>3. CASE j # None
    BY <2>1, <2>3 DEF OneForEach
  <2> QED BY <2>2, <2>3
<1>3. RowIsTold(e)'
  BY <1>1, <1>2, OwnRow
<1>4. ASSUME NEW f \in Records \ {e}
      PROVE  RowIsTold(f)'
  BY <1>1, <1>4, OtherRow
<1> QED BY <1>3, <1>4

(* What a request that begins finds, and what one that goes on does.        *)
LEMMA Found ==
    ASSUME SerialInv, NEW w \in Workers, NEW e \in Records
    PROVE  /\ past[e] = {} => Untouched(e) /\ e \notin lost
           /\ record[e] # None => past[e] # {}
           /\ job[w] # None /\ job[w].record = e /\ e \notin lost => InProgress(e, job[w])
BY DEF SerialInv, RowIsTold, Untouched

LEMMA FoundAtRest ==
    ASSUME SerialInv, OneForEach', NEW w \in Workers, NEW e \in Records, NEW j,
           job[w] = None, j # None, j.record = e, job' = [job EXCEPT ![w] = j],
           e \notin lost, record[e] # None
    PROVE  Told(e, history[e], record[e])
<1>1. \A v \in Workers : job[v] # None => job[v].record # e
  <2>1. job'[w] = j /\ \A v \in Workers \ {w} : job'[v] = job[v]
    BY DEF SerialInv, IInv, TypeOK
  <2> QED BY <2>1 DEF OneForEach
<1>2. AtRest(e)
  BY <1>1 DEF SerialInv, RowIsTold
<1>3. past[e] # {}
  BY DEF SerialInv, RowIsTold, Untouched
<1> QED BY <1>2, <1>3 DEF AtRest

(* A request begins on a row that is there.                                 *)
LEMMA BeginIsTold ==
    ASSUME SerialInv, OneForEach, OneForEach', NEW w \in Workers, NEW j \in Job, Begin(w, j),
           record[j.record] # None,
           StartsFrom(j.record, record[j.record], j.before, j.value) \/ j.step = "delete",
           \/ j.step = "save"
           \/ j.step = "write" /\ ~j.hook
           \/ j.step = "delete" /\ j.hook
    PROVE  \A f \in Records : RowIsTold(f)'
<1> DEFINE e == j.record
<1>1. /\ job[w] = None /\ j # None /\ job' = [job EXCEPT ![w] = j]
      /\ UNCHANGED <<record, history, deletion, past, lost>>
  BY NoneAssumption DEF Begin
<1>2. e \in Records
  BY DEF Job
<1>3. past[e] # {} /\ (e \notin lost => Told(e, history[e], record[e]))
  BY <1>1, <1>2, FoundAtRest, Found
<1>4. e \notin lost' => InProgress(e, j)'
  BY <1>1, <1>3 DEF InProgress, Told
<1>5. past'[e] # {}
  BY <1>1, <1>3
<1> HIDE DEF e
<1> QED BY <1>1, <1>2, <1>4, <1>5, RowStep DEF e

(* A commit of the history.                                                 *)
LEMMA CommitIsTold ==
    ASSUME SerialInv, OneForEach, OneForEach', NEW w \in Workers, Commit(w)
    PROVE  \A f \in Records : RowIsTold(f)'
<1>1. PICK e \in Records : job[w] # None /\ job[w] \in Job /\ job[w].record = e
                           /\ job[w].step = "write"
  BY DEF Commit, At, SerialInv, IInv, TypeOK, Job
<1>2. job[w].value \in Values /\ job[w].value # None
  BY <1>1, NoneAssumption DEF SerialInv, IInv, JobsAreSound
<1>3. history[e] \in Seq(Entry) /\ Written(w) \in Entry
  BY <1>1, <1>2 DEF SerialInv, IInv, TypeOK, Written, Entry, Job
<1>4. /\ job' = [job EXCEPT ![w] = None] /\ UNCHANGED <<deletion, lost>>
      /\ history'[e] = Append(history[e], Written(w))
      /\ \A f \in Records \ {e} : history'[f] = history[f]
  BY <1>1 DEF Commit, SerialInv, IInv, TypeOK
<1>5. /\ \A f \in Records \ {e} : record'[f] = record[f] /\ past'[f] = past[f]
      /\ ~job[w].hook => record'[e] = job[w].value /\ past'[e] # {}
      /\ job[w].hook => record'[e] = record[e] /\ past'[e] = past[e]
  <2>1. CASE job[w].hook BY <1>1, <2>1 DEF Commit
  <2>2. CASE ~job[w].hook
    <3>1. Put(e, job[w].value) BY <1>1, <2>2 DEF Commit
    <3>2. record \in [Records -> Values \cup {None}] /\ past \in [Records -> SUBSET Values]
      BY DEF SerialInv, IInv, TypeOK
    <3>3. /\ \A f \in Records \ {e} : record'[f] = record[f] /\ past'[f] = past[f]
          /\ record'[e] = job[w].value /\ job[w].value \in past'[e]
      BY <1>2, <3>1, <3>2 DEF Put
    <3> QED BY <2>2, <3>3
  <2> QED BY <2>1, <2>2
<1>6. /\ past[e] = {} => e \notin lost /\ record[e] = None
      /\ e \notin lost => InProgress(e, job[w])
  BY <1>1, Found DEF Untouched
<1>7. past'[e] # {}
  BY <1>1, <1>2, <1>5, <1>6 DEF InProgress
<1>8. ASSUME e \notin lost'
      PROVE  AtRest(e)'
  <2>1. /\ Chained(e, history[e])
        /\ StartsFrom(e, LastValue(history[e]), Written(w).before, Written(w).after)
    BY <1>1, <1>4, <1>6, <1>8 DEF InProgress, Written
  <2>2. Told(e, history'[e], job[w].value)
    BY <1>3, <1>4, <2>1, ToldByAppend DEF Written
  <2>3. record'[e] = job[w].value
    BY <1>1, <1>4, <1>5, <1>6, <1>8 DEF InProgress
  <2> QED BY <1>2, <2>2, <2>3 DEF AtRest
<1> QED BY <1>1, <1>4, <1>5, <1>7, <1>8, RowStep

LEMMA PutRow ==
    ASSUME TypeOK, NEW e \in Records, NEW v, Put(e, v)
    PROVE  /\ \A f \in Records \ {e} : record'[f] = record[f] /\ past'[f] = past[f]
           /\ record'[e] = v /\ past[e] \subseteq past'[e]
           /\ v # None => past'[e] # {}
<1>1. past'[e] = past[e] \cup ({v} \ {None})
  BY DEF TypeOK, Put
<1>2. \A f \in Records \ {e} : past'[f] = past[f]
  BY DEF TypeOK, Put
<1>3. record'[e] = v /\ \A f \in Records \ {e} : record'[f] = record[f]
  BY DEF TypeOK, Put
<1> QED BY <1>1, <1>2, <1>3

(* A new row.                                                               *)
LEMMA CreateIsTold ==
    ASSUME SerialInv, OneForEach, OneForEach',
           NEW w \in Workers, NEW e \in Records, NEW v \in Values,
           Create(w, e, v) \/ StartGuidedCreate(w, e, v)
    PROVE  \A f \in Records : RowIsTold(f)'
<1>1. past[e] = {} /\ record[e] = None /\ history[e] = <<>> /\ e \notin lost /\ job[w] = None
  BY Found DEF Create, StartGuidedCreate, IsNew, Untouched, Begin
<1>2. Chained(e, history[e]) /\ LastValue(history[e]) = None
      /\ StartsFrom(e, None, None, v)
  BY <1>1 DEF Chained, LastValue, StartsFrom
<1>3. CASE Create(w, e, v)
  <2>1. PICK j \in Job : j = Form("write", e, None, v)
    BY DEF Form, Job
  <2>2. j # None /\ j.record = e /\ j.step = "write" /\ j.hook /\ j.before = None /\ j.value = v
    BY <2>1, NoneAssumption DEF Form
  <2>3. job' = [job EXCEPT ![w] = j] /\ Put(e, v) /\ UNCHANGED <<history, deletion, lost>>
    BY <1>3, <2>1 DEF Create
  <2>4. /\ \A f \in Records \ {e} : record'[f] = record[f] /\ past'[f] = past[f]
        /\ record'[e] = v /\ past'[e] # {}
    BY <2>3, PutRow, NoneAssumption DEF SerialInv, IInv
  <2>5. InProgress(e, j)'
    BY <1>2, <2>2, <2>3, <2>4 DEF InProgress
  <2> QED BY <1>1, <2>2, <2>3, <2>4, <2>5, RowStep
<1>4. CASE StartGuidedCreate(w, e, v)
  <2>1. PICK j \in Job : j = Service("write", e, None, v, FALSE)
    BY DEF Service, Job
  <2>2. j # None /\ j.record = e /\ j.step = "write" /\ ~j.hook /\ j.before = None
        /\ j.value = v
    BY <2>1, NoneAssumption DEF Service
  <2>3. job' = [job EXCEPT ![w] = j] /\ UNCHANGED <<record, history, deletion, past, lost>>
    BY <1>4, <2>1 DEF StartGuidedCreate, Begin
  <2>4. InProgress(e, j)' /\ Untouched(e)' /\ e \notin lost'
    BY <1>1, <1>2, <2>2, <2>3 DEF InProgress, Untouched
  <2> QED BY <1>1, <2>2, <2>3, <2>4, RowStep
<1> QED BY <1>3, <1>4

(* The actions that begin to change a row.                                  *)
LEMMA StartIsTold ==
    ASSUME SerialInv, OneForEach, OneForEach', NEW w \in Workers, NEW e \in Records,
           \/ \E v \in Values : StartEdit(w, e, v) \/ StartService(w, e, v)
                                \/ StartLockedUpdate(w, e, v)
           \/ RestoreRevision(w, e)
           \/ StartDelete(w, e)
    PROVE  \A f \in Records : RowIsTold(f)'
<1>1. record[e] # None /\ record[e] \in Values
  BY DEF StartEdit, StartService, StartLockedUpdate, RestoreRevision, StartDelete,
         SerialInv, IInv, TypeOK
<1>2. CASE \E v \in Values : StartService(w, e, v) \/ StartLockedUpdate(w, e, v)
  <2>1. PICK v \in Values : \/ Begin(w, Service("save", e, record[e], v, FALSE))
                            \/ Begin(w, Service("write", e, record[e], v, TRUE))
    BY <1>2 DEF StartService, StartLockedUpdate
  <2>2. PICK j \in Job : /\ Begin(w, j)
                         /\ \/ j = Service("save", e, record[e], v, FALSE)
                            \/ j = Service("write", e, record[e], v, TRUE)
    <3>1. /\ Service("save", e, record[e], v, FALSE) \in Job
          /\ Service("write", e, record[e], v, TRUE) \in Job
      BY <1>1 DEF Service, Job, Snapshot
    <3> QED BY <2>1, <3>1
  <2>3. /\ j.record = e /\ j.before = record[e]
        /\ j.step = "save" \/ (j.step = "write" /\ ~j.hook)
    BY <2>2 DEF Service
  <2> QED BY <1>1, <2>2, <2>3, BeginIsTold DEF StartsFrom
<1>5. CASE \E v \in Values : StartEdit(w, e, v)
  <2>1. PICK j \in Job : /\ Begin(w, j) /\ j.record = e /\ j.step = "save"
                         /\ StartsFrom(e, record[e], j.before, j.value)
    BY <1>5, EditJob DEF SerialInv, IInv
  <2> QED BY <1>1, <2>1, BeginIsTold
<1>3. CASE RestoreRevision(w, e)
  <2>1. PICK i \in DOMAIN history[e] :
              Begin(w, Service("save", e, record[e], history[e][i].after, FALSE))
    BY <1>3 DEF RestoreRevision
  <2>2. history[e] \in Seq(Entry) BY DEF SerialInv, IInv, TypeOK
  <2>3. history[e][i] \in Entry BY <2>1, <2>2
  <2>4. PICK v \in Values : v = history[e][i].after BY <2>3 DEF Entry
  <2>5. PICK j \in Job : j = Service("save", e, record[e], v, FALSE)
    BY <1>1 DEF Service, Job, Snapshot
  <2>6. j.record = e /\ j.before = record[e] /\ j.step = "save"
    BY <2>5 DEF Service
  <2> QED BY <1>1, <2>1, <2>4, <2>5, <2>6, BeginIsTold DEF StartsFrom
<1>4. CASE StartDelete(w, e)
  <2>1. PICK j \in Job : j = Form("delete", e, None, None)
    BY DEF Form, Job
  <2>2. j.record = e /\ j.step = "delete" /\ j.hook
    BY <2>1 DEF Form
  <2>3. Begin(w, j) BY <1>4, <2>1 DEF StartDelete
  <2> QED BY <1>1, <2>2, <2>3, BeginIsTold
<1> QED BY <1>2, <1>3, <1>4, <1>5

LEMMA NumberRead ==
    ASSUME IInv, NEW w \in Workers, ReadNumber(w)
    PROVE  \E n \in Nat, j \in Job :
              j = [job[w] EXCEPT !.number = n] /\ job' = [job EXCEPT ![w] = j]
<1>1. job[w] \in Job /\ job[w].record \in Catalogue
  BY DEF ReadNumber, At, IInv, TypeOK
<1>2. PICK n \in {0} \cup Numbers(job[w].record) : job' = [job EXCEPT ![w].number = n + 1]
  BY DEF ReadNumber
<1>3. Numbers(job[w].record) \subseteq Nat
  <2>1. history[job[w].record] \in Seq(Entry)
    BY <1>1 DEF IInv, TypeOK, Records
  <2>2. \A i \in DOMAIN history[job[w].record] : history[job[w].record][i] \in Entry
    BY <2>1
  <2> QED BY <2>2 DEF Numbers, Entry
<1>4. n + 1 \in Nat
  BY <1>2, <1>3
<1>5. [job[w] EXCEPT !.number = n + 1] \in Job
  BY <1>1, <1>4 DEF Job
<1>6. job' = [job EXCEPT ![w] = [job[w] EXCEPT !.number = n + 1]]
  BY <1>2 DEF IInv, TypeOK
<1> QED BY <1>4, <1>5, <1>6

(* The steps of the request in progress before its commit.                  *)
LEMMA GoOnIsTold ==
    ASSUME SerialInv, OneForEach, OneForEach', NEW w \in Workers,
           SaveEdit(w) \/ SaveInService(w) \/ ReadNumber(w) \/ Delete(w)
    PROVE  \A f \in Records : RowIsTold(f)'
<1>1. PICK e \in Records : job[w] # None /\ job[w] \in Job /\ job[w].record = e
  BY DEF SaveEdit, SaveInService, ReadNumber, Delete, At, SerialInv, IInv, TypeOK, Job
<1>2. /\ past[e] = {} => Untouched(e) /\ e \notin lost
      /\ record[e] # None => past[e] # {}
      /\ e \notin lost => InProgress(e, job[w])
  BY <1>1, Found
<1>3. CASE SaveEdit(w)
  <2>1. PICK j \in Job : j = [job[w] EXCEPT !.step = "write"]
    BY <1>1 DEF Job
  <2>2. /\ j # None /\ j.record = e /\ j.step = "write" /\ j.hook
        /\ j.before = job[w].before /\ j.value = job[w].value
        /\ job[w].step = "save" /\ job[w].value \in Values /\ job[w].value # None
    BY <1>1, <1>3, <2>1, NoneAssumption DEF Job, SaveEdit, At, SerialInv, IInv, JobsAreSound
  <2>3. job' = [job EXCEPT ![w] = j] /\ Put(e, j.value) /\ UNCHANGED <<history, deletion, lost>>
    BY <1>1, <1>3, <2>1, <2>2 DEF SaveEdit, SerialInv, IInv, TypeOK
  <2>4. /\ \A f \in Records \ {e} : record'[f] = record[f] /\ past'[f] = past[f]
        /\ record'[e] = j.value /\ past'[e] # {}
    BY <2>2, <2>3, PutRow DEF SerialInv, IInv
  <2>5. e \notin lost' => InProgress(e, j)'
    BY <1>2, <2>2, <2>3, <2>4 DEF InProgress, Told
  <2> QED BY <1>1, <2>2, <2>3, <2>4, <2>5, RowStep
<1>4. CASE SaveInService(w)
  <2>1. PICK j \in Job : j = [job[w] EXCEPT !.step = "write", !.lock = TRUE]
    BY <1>1 DEF Job
  <2>2. /\ j # None /\ j.record = e /\ j.step = "write" /\ ~j.hook
        /\ j.before = job[w].before /\ j.value = job[w].value /\ job[w].step = "save"
    BY <1>1, <1>4, <2>1, NoneAssumption DEF Job, SaveInService, At
  <2>3. job' = [job EXCEPT ![w] = j] /\ UNCHANGED <<record, history, deletion, past, lost>>
    BY <1>1, <1>4, <2>1 DEF SaveInService, SerialInv, IInv, TypeOK
  <2>4. e \notin lost' => InProgress(e, j)'
    BY <1>2, <2>2, <2>3 DEF InProgress, Told
  <2>5. past'[e] = {} => Untouched(e)' /\ e \notin lost'
    BY <1>2, <2>3 DEF Untouched
  <2> QED BY <1>1, <2>2, <2>3, <2>4, <2>5, RowStep
<1>5. CASE ReadNumber(w)
  <2>1. PICK n \in Nat, j \in Job :
            j = [job[w] EXCEPT !.number = n] /\ job' = [job EXCEPT ![w] = j]
    BY <1>1, <1>5, NumberRead DEF SerialInv
  <2>2. /\ j # None /\ j.record = e /\ j.step = job[w].step /\ j.hook = job[w].hook
        /\ j.before = job[w].before /\ j.value = job[w].value
    BY <1>1, <2>1, NoneAssumption DEF Job
  <2>3. UNCHANGED <<record, history, deletion, past, lost>>
    BY <1>5 DEF ReadNumber
  <2>4. e \notin lost' => InProgress(e, j)'
    BY <1>2, <2>2, <2>3 DEF InProgress
  <2>5. past'[e] = {} => Untouched(e)' /\ e \notin lost'
    BY <1>2, <2>3 DEF Untouched
  <2> QED BY <1>1, <2>1, <2>2, <2>3, <2>4, <2>5, RowStep
<1>6. CASE Delete(w)
  <2>1. PICK j \in Job : j = [job[w] EXCEPT !.step = "log_deletion"]
    BY <1>1 DEF Job
  <2>2. /\ j # None /\ j.record = e /\ j.step = "log_deletion" /\ j.hook = job[w].hook
        /\ job[w].step = "delete"
    BY <1>1, <1>6, <2>1, NoneAssumption DEF Job, Delete, At
  <2>3. job' = [job EXCEPT ![w] = j] /\ Put(e, None) /\ UNCHANGED <<history, deletion, lost>>
    BY <1>1, <1>6, <2>1 DEF Delete, SerialInv, IInv, TypeOK
  <2>4. /\ \A f \in Records \ {e} : record'[f] = record[f] /\ past'[f] = past[f]
        /\ record'[e] = None /\ past[e] \subseteq past'[e]
    BY <2>3, PutRow DEF SerialInv, IInv
  <2>5. e \notin lost' => InProgress(e, j)'
    BY <1>2, <2>2, <2>3, <2>4 DEF InProgress
  <2>6. past'[e] = {} => Untouched(e)' /\ e \notin lost'
    BY <1>2, <2>3, <2>4 DEF Untouched
  <2> QED BY <1>1, <2>2, <2>3, <2>4, <2>5, <2>6, RowStep
<1> QED BY <1>3, <1>4, <1>5, <1>6

(* The steps that end a request without an entry: it deletes, or it fails.  *)
LEMMA EndIsTold ==
    ASSUME SerialInv, OneForEach, OneForEach', NEW w \in Workers, LogDeletion(w) \/ Abort(w)
    PROVE  \A f \in Records : RowIsTold(f)'
<1>1. PICK e \in Records : job[w] # None /\ job[w] \in Job /\ job[w].record = e
  BY DEF LogDeletion, Abort, At, SerialInv, IInv, TypeOK, Job
<1>2. /\ past[e] = {} => Untouched(e) /\ e \notin lost
      /\ record[e] # None => past[e] # {}
      /\ e \notin lost => InProgress(e, job[w])
  BY <1>1, Found
<1>4. CASE LogDeletion(w)
  <2>1. /\ job' = [job EXCEPT ![w] = None] /\ deletion' = deletion \cup {e}
        /\ UNCHANGED <<record, history, past, lost>> /\ job[w].step = "log_deletion"
    BY <1>1, <1>4 DEF LogDeletion, At
  <2>2. e \notin lost' => AtRest(e)'
    BY <1>1, <1>2, <2>1 DEF InProgress, AtRest
  <2>3. past'[e] = {} => Untouched(e)' /\ e \notin lost'
    BY <1>2, <2>1 DEF Untouched
  <2> QED BY <1>1, <2>1, <2>2, <2>3, RowStep
<1>5. CASE Abort(w)
  <2>1. /\ job' = [job EXCEPT ![w] = None]
        /\ UNCHANGED <<record, history, deletion, past>>
        /\ lost' = IF job[w].hook /\ job[w].step \in {"write", "log_deletion"}
                   THEN lost \cup {e} ELSE lost
    BY <1>1, <1>5 DEF Abort
  <2>2. e \notin lost' => AtRest(e)'
    <3>1. job[w].step \in {"save", "write", "delete", "log_deletion"}
      BY <1>1 DEF Job
    <3> QED BY <1>1, <1>2, <2>1, <3>1 DEF InProgress, AtRest, Told
  <2>3. past'[e] = {} => Untouched(e)' /\ e \notin lost'
    <3>1. job[w].step = "write" /\ job[w].hook => job[w].value # None
      BY <1>1, NoneAssumption DEF SerialInv, IInv, JobsAreSound
    <3> QED BY <1>1, <1>2, <2>1, <3>1 DEF Untouched, InProgress
  <2> QED BY <1>1, <2>1, <2>2, <2>3, RowStep
<1> QED BY <1>4, <1>5

LEMMA SerialStep == SerialInv /\ OneForEach /\ OneForEach' /\ [Next]_vars => SerialInv'
<1> SUFFICES ASSUME SerialInv, OneForEach, OneForEach', [Next]_vars PROVE SerialInv' OBVIOUS
<1>1. IInv' BY StepKeeps DEF SerialInv
<1>2. CASE UNCHANGED vars
  BY <1>1, <1>2 DEF vars, SerialInv, RowIsTold, InProgress, AtRest, Untouched
<1>3. CASE \E w \in Workers : \E e \in Records :
              \/ \E v \in Values : Create(w, e, v) \/ StartGuidedCreate(w, e, v)
              \/ \E v \in Values : StartEdit(w, e, v) \/ StartService(w, e, v)
                                   \/ StartLockedUpdate(w, e, v)
              \/ RestoreRevision(w, e)
              \/ StartDelete(w, e)
  BY <1>1, <1>3, CreateIsTold, StartIsTold DEF SerialInv
<1>4. CASE \E w \in Workers :
              SaveEdit(w) \/ SaveInService(w) \/ ReadNumber(w) \/ Delete(w)
  BY <1>1, <1>4, GoOnIsTold DEF SerialInv
<1>5. CASE \E w \in Workers : WriteRevision(w) \/ WriteEvent(w)
  BY <1>1, <1>5, CommitIsTold DEF SerialInv, WriteRevision, WriteEvent
<1>6. CASE \E w \in Workers : LogDeletion(w) \/ Abort(w)
  BY <1>1, <1>6, EndIsTold DEF SerialInv
<1> QED BY <1>2, <1>3, <1>4, <1>5, <1>6 DEF Next

LEMMA SerialInitially == Init => SerialInv
BY Initially DEF Init, SerialInv, RowIsTold, AtRest, Untouched

LEMMA SerialIsComplete == SerialInv => HistoryIsComplete
<1> SUFFICES ASSUME SerialInv, NEW e \in Records, e \notin lost,
                    ~\E w \in Workers : job[w] # None /\ job[w].record = e,
                    past[e] # {}, ~(record[e] = None /\ e \in deletion)
             PROVE  LET h == history[e]
                    IN /\ h # <<>>
                       /\ h[Len(h)].after = record[e]
                       /\ \A i \in DOMAIN h :
                             StartsFrom(e, IF i = 1 THEN None ELSE h[i - 1].after,
                                        h[i].before, h[i].after)
  BY DEF HistoryIsComplete
<1>1. AtRest(e) BY DEF SerialInv, RowIsTold
<1>2. record[e] # None /\ Told(e, history[e], record[e]) BY <1>1 DEF AtRest
<1> QED BY <1>2 DEF Told, LastValue, Chained, Follows

(* While requests about one row do not overlap, its history tells all it    *)
(* has gone through, unless it is lost: the before that the hook or the     *)
(* service has kept is what the entry before it wrote, without archived_at  *)
(* where a form restores a development.                                     *)
THEOREM OneForEachRow == Spec /\ []OneForEach => []HistoryIsComplete
<1>1. SerialInv /\ OneForEach /\ OneForEach' /\ [Next]_vars => SerialInv'
  BY SerialStep
<1> QED BY <1>1, SerialInitially, SerialIsComplete, PTL DEF Spec

(* The same of the instance that TLC checks.                                *)
THEOREM SerialHistory == MCSpec => []SerialHistoryIsComplete
<1> DEFINE Inv == racing \/ (SerialInv /\ OneBusy)
<1>1. MCInit => Inv
  BY SerialInitially DEF MCInit, Init, OneBusy
<1>2. Inv /\ [MCNext]_<<vars, media, mediaJob, part, racing>> => Inv'
  BY SerialStep DEF MCNext, Bounded, vars, OneBusy, OneForEach
<1>3. Inv => SerialHistoryIsComplete
  BY SerialIsComplete DEF SerialHistoryIsComplete
<1> HIDE DEF Inv
<1> QED BY <1>1, <1>2, <1>3, PTL DEF MCSpec
=============================================================================
