------------------------------ MODULE AuditTrail ------------------------------
(***************************************************************************)
(* The history of what staff change: apps/audittrail with the code that     *)
(* writes to it in properties, listings, media_library and inquiries.       *)
(*                                                                         *)
(* A Wagtail form saves a row in a transaction of its own; the              *)
(* after_..._snippet hook then writes the history in another one, with what *)
(* the before_edit_snippet hook kept.  The services, and the guided listing *)
(* form for each of its rows, save and write the history in one.            *)
(*                                                                         *)
(* A catalogue or listing row (Catalogue) gets a numbered CatalogRevision   *)
(* and its AuditEvent, inserted together: one entry here.  Media and        *)
(* inquiries get an AuditEvent.  The entries are append-only: save, update  *)
(* and delete of an existing one raise.                                     *)
(***************************************************************************)
EXTENDS Naturals, Sequences

CONSTANTS
    Catalogue,       \* rows of properties and listings
    Locations,       \* those that the Owner can delete
    Developments,    \* those of developments
    Listings,        \* those of listings
    Logged,          \* rows of media_library
    Inquiries,       \* their values are the status and who is assigned
    Values,          \* what the columns of a row can hold together
    Archived,        \* those of a record with the status ARCHIVED
    MaxHistory,      \* bound: the entries about one row
    Workers,         \* the requests that can be in progress at the same time
    None

ASSUME RowAssumption ==
    /\ Locations \subseteq Catalogue
    /\ Developments \subseteq Catalogue \ Locations
    /\ Listings \subseteq Catalogue \ (Locations \cup Developments)
    /\ Archived \subseteq Values
    /\ Inquiries \cap Catalogue = {}
    /\ MaxHistory \in Nat

Records == Catalogue \cup Logged \cup Inquiries

VARIABLES
    record,          \* the rows
    history,         \* the AuditEvents of each row, with the revision's number
    deletion,        \* the rows whose deletion has an AuditEvent
    job,             \* what each worker is doing
    past,            \* history variable: what each row has ever held
    lost             \* history variable: the rows with a change without an entry

vars == <<record, history, deletion, job, past, lost>>

(* The serialised columns of a record: what they held, or that without its  *)
(* archived_at.                                                             *)
Undated(v) == [undated |-> v]
Snapshot == Values \cup {Undated(v) : v \in Archived}

Entry == [number: Nat, before: Snapshot \cup {None}, after: Values]

(* hook: the history is written in its own transaction, after the save.     *)
(* lock: the transaction holds the lock of the row.                         *)
(* number: what record_revision has computed; 0 before.                     *)
Job ==
    [step: {"save", "write", "delete", "log_deletion"}, record: Records, hook: BOOLEAN,
     before: Snapshot \cup {None}, value: Values \cup {None}, lock: BOOLEAN, number: Nat]

ASSUME NoneAssumption == None \notin Job \cup Values

Init ==
    /\ record = [e \in Records |-> None]
    /\ history = [e \in Records |-> <<>>]
    /\ deletion = {}
    /\ job = [w \in Workers |-> None]
    /\ past = [e \in Records |-> {}]
    /\ lost = {}

At(w, step) == job[w] # None /\ job[w].step = step
Locked(e) == \E w \in Workers : job[w] # None /\ job[w].lock /\ job[w].record = e

Numbers(e) == {history[e][i].number : i \in DOMAIN history[e]}

Put(e, value) ==
    /\ record' = [record EXCEPT ![e] = value]
    /\ past' = [past EXCEPT ![e] = @ \cup ({value} \ {None})]

(* What a form does, by way of its hooks: the value it has read goes with   *)
(* it in the request.                                                       *)
Form(step, e, before, v) ==
    [step |-> step, record |-> e, hook |-> TRUE, before |-> before, value |-> v,
     lock |-> FALSE, number |-> 0]

(* What a service does in its transaction.                                  *)
Service(step, e, before, v, lock) ==
    [step |-> step, record |-> e, hook |-> FALSE, before |-> before, value |-> v,
     lock |-> lock, number |-> 0]

Begin(w, j) ==
    /\ job[w] = None
    /\ job' = [job EXCEPT ![w] = j]
    /\ UNCHANGED <<record, history, deletion, past, lost>>

IsNew(e) == past[e] = {} /\ \A w \in Workers : job[w] # None => job[w].record # e

-----------------------------------------------------------------------------
(* The create form, or a visitor's inquiry, has inserted its row;           *)
(* audit_..._create follows.                                                *)
Create(w, e, v) ==
    /\ job[w] = None
    /\ IsNew(e)
    /\ Put(e, v)
    /\ job' = [job EXCEPT ![w] = Form("write", e, None, v)]
    /\ UNCHANGED <<history, deletion, lost>>

(* The guided form inserts a row and its history in one transaction.        *)
StartGuidedCreate(w, e, v) ==
    /\ e \in Catalogue \ Locations
    /\ IsNew(e)
    /\ Begin(w, Service("write", e, None, v, FALSE))

(* The development form takes e out of the archive.                         *)
Restores(e, old, new) == e \in Developments /\ old \in Archived /\ new \notin Archived

(* The edit form reads the row and capture_..._before_edit serialises it,   *)
(* after it has cleared archived_at of a development to restore.            *)
StartEdit(w, e, v) ==
    /\ record[e] # None
    /\ Begin(w, Form("save", e, IF Restores(e, record[e], v) THEN Undated(record[e])
                                                             ELSE record[e], v))

(* archive_catalog_record, reactivate_catalog_record and the guided form    *)
(* work on the row their caller has read.                                   *)
StartService(w, e, v) ==
    /\ e \in Catalogue \ Locations
    /\ record[e] # None
    /\ Begin(w, Service("save", e, record[e], v, FALSE))

(* restore_catalog_revision: a revision of the row gives the values.        *)
RestoreRevision(w, e) ==
    /\ e \in Catalogue \ Listings
    /\ record[e] # None
    /\ \E i \in DOMAIN history[e] :
          Begin(w, Service("save", e, record[e], history[e][i].after, FALSE))

(* The services of a listing and update_inquiry lock the row and read it    *)
(* under the lock.                                                          *)
StartLockedUpdate(w, e, v) ==
    /\ e \in Listings \cup Inquiries
    /\ record[e] # None
    /\ ~Locked(e)
    /\ Begin(w, Service("write", e, record[e], v, TRUE))

(* capture_location_deletions; has_perm lets nothing else be deleted.       *)
StartDelete(w, e) ==
    /\ e \in Locations
    /\ record[e] # None
    /\ Begin(w, Form("delete", e, None, None))

(* The form's save commits.  Of a row that is gone, Django inserts it again. *)
SaveEdit(w) ==
    /\ At(w, "save")
    /\ job[w].hook
    /\ ~Locked(job[w].record)
    /\ Put(job[w].record, job[w].value)
    /\ job' = [job EXCEPT ![w].step = "write"]
    /\ UNCHANGED <<history, deletion, lost>>

(* The UPDATE of a service: it holds the row from here to its commit.       *)
SaveInService(w) ==
    /\ At(w, "save")
    /\ ~job[w].hook
    /\ ~Locked(job[w].record)
    /\ job' = [job EXCEPT ![w].step = "write", ![w].lock = TRUE]
    /\ UNCHANGED <<record, history, deletion, past, lost>>

(* Mutant of ReadNumber: the highest number of any row.                     *)
ReadNumberOfAll(w) ==
    /\ At(w, "write")
    /\ job[w].record \in Catalogue
    /\ job[w].number = 0
    /\ \E n \in {0} \cup UNION {Numbers(e) : e \in Catalogue} :
          /\ \A e \in Catalogue : \A k \in Numbers(e) : k <= n
          /\ job' = [job EXCEPT ![w].number = n + 1]
    /\ UNCHANGED <<record, history, deletion, past, lost>>

(* record_revision computes the next number; the aggregate locks nothing.   *)
ReadNumber(w) ==
    /\ At(w, "write")
    /\ job[w].record \in Catalogue
    /\ job[w].number = 0
    /\ \E n \in {0} \cup Numbers(job[w].record) :
          /\ \A k \in Numbers(job[w].record) : k <= n
          /\ job' = [job EXCEPT ![w].number = n + 1]
    /\ UNCHANGED <<record, history, deletion, past, lost>>

(* Mutant of Written: before and after are both taken from the saved row.   *)
WrittenAfterTwice(w) ==
    [number |-> job[w].number, before |-> job[w].value, after |-> job[w].value]

Written(w) == [number |-> job[w].number, before |-> job[w].before, after |-> job[w].value]

(* The transaction of the history commits, a service's with its save.       *)
Commit(w) ==
    /\ At(w, "write")
    /\ Len(history[job[w].record]) < MaxHistory
    /\ history' = [history EXCEPT ![job[w].record] = Append(@, Written(w))]
    /\ IF job[w].hook THEN UNCHANGED <<record, past>> ELSE Put(job[w].record, job[w].value)
    /\ job' = [job EXCEPT ![w] = None]
    /\ UNCHANGED <<deletion, lost>>

(* record_revision inserts both rows; the number must still be free.        *)
WriteRevision(w) ==
    /\ Commit(w)
    /\ job[w].record \in Catalogue
    /\ job[w].number \notin {0} \cup Numbers(job[w].record)

(* record_media_change, audit_inquiry_edit, update_inquiry, the view of a   *)
(* visitor's inquiry.                                                       *)
WriteEvent(w) ==
    /\ Commit(w)
    /\ job[w].record \notin Catalogue

Delete(w) ==
    /\ At(w, "delete")
    /\ ~Locked(job[w].record)
    /\ Put(job[w].record, None)
    /\ job' = [job EXCEPT ![w].step = "log_deletion"]
    /\ UNCHANGED <<history, deletion, lost>>

(* audit_location_deletions                                                 *)
LogDeletion(w) ==
    /\ At(w, "log_deletion")
    /\ deletion' = deletion \cup {job[w].record}
    /\ job' = [job EXCEPT ![w] = None]
    /\ UNCHANGED <<record, history, past, lost>>

(* A validation that refuses, a number that is taken, a lost worker: what   *)
(* has not committed is gone, and a hook leaves its row without its entry.  *)
Abort(w) ==
    /\ job[w] # None
    /\ job' = [job EXCEPT ![w] = None]
    /\ lost' = IF job[w].hook /\ job[w].step \in {"write", "log_deletion"}
               THEN lost \cup {job[w].record}
               ELSE lost
    /\ UNCHANGED <<record, history, deletion, past>>

-----------------------------------------------------------------------------
Next ==
    \E w \in Workers :
        \/ \E e \in Records :
              \/ \E v \in Values :
                    \/ Create(w, e, v)
                    \/ StartGuidedCreate(w, e, v)
                    \/ StartEdit(w, e, v)
                    \/ StartService(w, e, v)
                    \/ StartLockedUpdate(w, e, v)
              \/ RestoreRevision(w, e)
              \/ StartDelete(w, e)
        \/ SaveEdit(w)
        \/ SaveInService(w)
        \/ ReadNumber(w)
        \/ WriteRevision(w)
        \/ WriteEvent(w)
        \/ Delete(w)
        \/ LogDeletion(w)
        \/ Abort(w)

Spec == Init /\ [][Next]_vars

-----------------------------------------------------------------------------
TypeOK ==
    /\ record \in [Records -> Values \cup {None}]
    /\ history \in [Records -> Seq(Entry)]
    /\ deletion \subseteq Records
    /\ job \in [Workers -> Job \cup {None}]
    /\ past \in [Records -> SUBSET Values]
    /\ lost \subseteq Records

(* The revisions of a row are numbered 1, 2, 3, ... whatever races: two     *)
(* changes that drew the same number do not both commit, and none is left   *)
(* out.                                                                     *)
RevisionsAreNumbered ==
    \A e \in Catalogue : \A i \in DOMAIN history[e] : history[e][i].number = i

(* What an entry about e starts from, when the row held old before it.      *)
StartsFrom(e, old, before, new) ==
    \/ before = old
    \/ Restores(e, old, new) /\ before = Undated(old)

(* The whole story of a row no change of which went without its entry: once *)
(* no request works on it, its last entry is what it holds, each entry      *)
(* starts from the one before (that of a restored development but for its   *)
(* archived_at), and a row that is gone has its deletion on record.         *)
HistoryIsComplete ==
    \A e \in Records \ lost :
        \/ \E w \in Workers : job[w] # None /\ job[w].record = e
        \/ past[e] = {}
        \/ record[e] = None /\ e \in deletion
        \/ LET h == history[e]
           IN /\ h # <<>>
              /\ h[Len(h)].after = record[e]
              /\ \A i \in DOMAIN h :
                    StartsFrom(e, IF i = 1 THEN None ELSE h[i - 1].after,
                               h[i].before, h[i].after)

=============================================================================
