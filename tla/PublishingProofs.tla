-------------------------- MODULE PublishingProofs ---------------------------
(***************************************************************************)
(* Proofs about Publishing, for every catalogue and any number of requests *)
(* in progress: what the stale saves of the forms cannot break.            *)
(***************************************************************************)
EXTENDS Publishing, TLAPS

(* What every Listing row satisfies, committed or pending: clean() ties     *)
(* archived_at to the status, publish_listing dates what it publishes, and  *)
(* the check constraints ask for one target.                                *)
CleanListing(row) ==
    /\ ArchivedListing(row)
    /\ row.workflow_status = "PUBLISHED" => row.published_at
    /\ (row.property = None) # (row.variant = None)

CleanRows ==
    /\ \A l \in Listings : listing[l] # None =>
          /\ CleanListing(listing[l])
          /\ listing[l].property # None => property[listing[l].property] # None
    /\ \A d \in Developments : ArchivedRow(development[d])
    /\ \A v \in Variants : ArchivedRow(variant[v])

(* Pending rows are as clean as committed ones, refer to properties that    *)
(* exist or come with them, and differ from a locked row only in the        *)
(* columns the operation assigns.                                           *)
CleanWrites(t) ==
    /\ \A l \in Listings : t.listing[l] # None =>
          /\ CleanListing(t.listing[l])
          /\ t.listing[l].property # None =>
                \/ property[t.listing[l].property] # None
                \/ t.property[t.listing[l].property] # None
    /\ \A d \in Developments : t.development[d] # None => ArchivedRow(t.development[d])
    /\ \A v \in Variants : t.variant[v] # None => ArchivedRow(t.variant[v])

Columns == {"workflow_status", "public_status", "published_at", "archived_at",
            "property", "variant"}
KeepsColumns(t) ==
    /\ \A l \in t.locks :
          /\ listing[l] # None
          /\ t.listing[l] # None =>
                \A c \in Columns \ Assigns(t.op) : t.listing[l][c] = listing[l][c]
    /\ t.op \in ServiceOperations =>
          \A l \in Listings : t.listing[l] # None => l \in t.locks

LocksAreExclusive ==
    \A r, q \in Requests : r # q => txn[r].locks \cap txn[q].locks = {}

PInv ==
    /\ TypeOK
    /\ CleanRows
    /\ \A r \in Requests : CleanWrites(txn[r]) /\ KeepsColumns(txn[r])
    /\ LocksAreExclusive

-----------------------------------------------------------------------------
(* The transactions the operations build.                                   *)
LEMMA NoWriteFields ==
  /\ NoWrite \in Transaction
  /\ NoWrite.locks = {} /\ NoWrite.op = "none" /\ NoWrite.op \notin ServiceOperations
  /\ NoWrite.listing = [l \in Listings |-> None]
  /\ NoWrite.property = [p \in Properties |-> None]
  /\ NoWrite.development = [d \in Developments |-> None]
  /\ NoWrite.variant = [v \in Variants |-> None]
  BY DEF NoWrite, Transaction, OrNone, ServiceOperations

LEMMA ListingWrite ==
  ASSUME NEW l \in Listings, NEW row \in ListingRow
  PROVE  LET w == [NoWrite EXCEPT !.listing[l] = row]
         IN /\ w \in Transaction
            /\ w.locks = {}
            /\ w.listing = [NoWrite.listing EXCEPT ![l] = row]
            /\ w.property = NoWrite.property
            /\ w.development = NoWrite.development
            /\ w.variant = NoWrite.variant
  <1> DEFINE rows == [NoWrite.listing EXCEPT ![l] = row]
  <1>1. rows \in [Listings -> OrNone(ListingRow)]
    BY NoWriteFields DEF OrNone
  <1> HIDE DEF rows
  <1>2. LET w == [NoWrite EXCEPT !.listing = rows]
        IN /\ w \in Transaction /\ w.locks = {} /\ w.listing = rows
           /\ w.property = NoWrite.property /\ w.development = NoWrite.development
           /\ w.variant = NoWrite.variant
    BY <1>1, NoWriteFields DEF Transaction
  <1>3. QED
    BY <1>2 DEF rows

LEMMA LockedWrite ==
  ASSUME NEW l \in Listings, NEW row \in ListingRow
  PROVE  LET w == [NoWrite EXCEPT !.locks = {l}, !.listing[l] = row]
         IN /\ w \in Transaction
            /\ w.locks = {l}
            /\ w.listing = [NoWrite.listing EXCEPT ![l] = row]
            /\ w.property = NoWrite.property
            /\ w.development = NoWrite.development
            /\ w.variant = NoWrite.variant
  <1> DEFINE rows == [NoWrite.listing EXCEPT ![l] = row]
             locks == {l}
  <1>1. rows \in [Listings -> OrNone(ListingRow)] /\ locks \in SUBSET Listings
    BY NoWriteFields DEF OrNone
  <1> HIDE DEF rows, locks
  <1>2. LET w == [NoWrite EXCEPT !.locks = locks, !.listing = rows]
        IN /\ w \in Transaction /\ w.locks = locks /\ w.listing = rows
           /\ w.property = NoWrite.property /\ w.development = NoWrite.development
           /\ w.variant = NoWrite.variant
    BY <1>1, NoWriteFields DEF Transaction
  <1>3. [NoWrite EXCEPT !.locks = {l}, !.listing[l] = row]
          = [NoWrite EXCEPT !.locks = locks, !.listing = rows]
    BY NoWriteFields DEF Transaction, locks, rows
  <1>4. QED
    BY <1>2, <1>3 DEF rows, locks

LEMMA PropertyWrite ==
  ASSUME NEW p \in Properties, NEW row \in PropertyRow
  PROVE  LET w == [NoWrite EXCEPT !.property[p] = row]
         IN /\ w \in Transaction
            /\ w.locks = {}
            /\ w.listing = NoWrite.listing
            /\ w.property = [NoWrite.property EXCEPT ![p] = row]
            /\ w.development = NoWrite.development
            /\ w.variant = NoWrite.variant
  <1> DEFINE rows == [NoWrite.property EXCEPT ![p] = row]
  <1>1. rows \in [Properties -> OrNone(PropertyRow)]
    BY NoWriteFields DEF OrNone
  <1> HIDE DEF rows
  <1>2. LET w == [NoWrite EXCEPT !.property = rows]
        IN /\ w \in Transaction /\ w.locks = {} /\ w.property = rows
           /\ w.listing = NoWrite.listing /\ w.development = NoWrite.development
           /\ w.variant = NoWrite.variant
    BY <1>1, NoWriteFields DEF Transaction
  <1>3. QED
    BY <1>2 DEF rows

LEMMA DevelopmentWrite ==
  ASSUME NEW d \in Developments, NEW row \in DevelopmentRow
  PROVE  LET w == [NoWrite EXCEPT !.development[d] = row]
         IN /\ w \in Transaction
            /\ w.locks = {}
            /\ w.listing = NoWrite.listing
            /\ w.property = NoWrite.property
            /\ w.development = [NoWrite.development EXCEPT ![d] = row]
            /\ w.variant = NoWrite.variant
  <1> DEFINE rows == [NoWrite.development EXCEPT ![d] = row]
  <1>1. rows \in [Developments -> OrNone(DevelopmentRow)]
    BY NoWriteFields DEF OrNone
  <1> HIDE DEF rows
  <1>2. LET w == [NoWrite EXCEPT !.development = rows]
        IN /\ w \in Transaction /\ w.locks = {} /\ w.development = rows
           /\ w.listing = NoWrite.listing /\ w.property = NoWrite.property
           /\ w.variant = NoWrite.variant
    BY <1>1, NoWriteFields DEF Transaction
  <1>3. QED
    BY <1>2 DEF rows

LEMMA VariantWrite ==
  ASSUME NEW v \in Variants, NEW row \in VariantRow
  PROVE  LET w == [NoWrite EXCEPT !.variant[v] = row]
         IN /\ w \in Transaction
            /\ w.locks = {}
            /\ w.listing = NoWrite.listing
            /\ w.property = NoWrite.property
            /\ w.development = NoWrite.development
            /\ w.variant = [NoWrite.variant EXCEPT ![v] = row]
  <1> DEFINE rows == [NoWrite.variant EXCEPT ![v] = row]
  <1>1. rows \in [Variants -> OrNone(VariantRow)]
    BY NoWriteFields DEF OrNone
  <1> HIDE DEF rows
  <1>2. LET w == [NoWrite EXCEPT !.variant = rows]
        IN /\ w \in Transaction /\ w.locks = {} /\ w.variant = rows
           /\ w.listing = NoWrite.listing /\ w.property = NoWrite.property
           /\ w.development = NoWrite.development
    BY <1>1, NoWriteFields DEF Transaction
  <1>3. QED
    BY <1>2 DEF rows

-----------------------------------------------------------------------------
LEMMA StartWritesNothing ==
  ASSUME NEW r, NEW op, NEW w, Start(r, op, w)
  PROVE  UNCHANGED listing
  BY DEF Start, db

(* Every operation that starts keeps the invariant when what it is going to *)
(* save is clean and it holds at most rows nobody else holds.               *)
LEMMA StartKeepsPInv ==
  ASSUME PInv, NEW r \in Requests, NEW op \in AllOperations, NEW w \in Transaction,
         Start(r, op, w),
         CleanWrites(w), KeepsColumns([w EXCEPT !.op = op]),
         \A q \in Requests : w.locks \cap txn[q].locks = {}
  PROVE  PInv'
  <1> DEFINE t == [w EXCEPT !.op = op]
  <1>1. /\ t \in Transaction /\ t.locks = w.locks /\ t.listing = w.listing
        /\ t.property = w.property /\ t.development = w.development /\ t.variant = w.variant
    BY DEF Transaction
  <1>2. txn' = [txn EXCEPT ![r] = t] /\ UNCHANGED db
    BY DEF Start
  <1> HIDE DEF t
  <1>3. UNCHANGED <<listing, offer, property, development, variant, hidden>>
    BY <1>2 DEF db
  <1>4. txn'[r] = t /\ \A q \in Requests : q # r => txn'[q] = txn[q]
    BY <1>2 DEF PInv, TypeOK
  <1>5. TypeOK'
    BY <1>1, <1>2, <1>3 DEF PInv, TypeOK
  <1>6. CleanRows'
    BY <1>3 DEF PInv, CleanRows
  <1>7. \A q \in Requests : CleanWrites(txn[q])' /\ KeepsColumns(txn[q])'
    <2>1. CleanWrites(txn[r])'
      BY <1>1, <1>3, <1>4 DEF CleanWrites
    <2>2. KeepsColumns(txn[r])'
      BY <1>3, <1>4 DEF KeepsColumns, t
    <2>3. \A q \in Requests : q # r => CleanWrites(txn[q])' /\ KeepsColumns(txn[q])'
      BY <1>3, <1>4 DEF PInv, CleanWrites, KeepsColumns
    <2>4. QED
      BY <2>1, <2>2, <2>3
  <1>8. LocksAreExclusive'
    BY <1>1, <1>4 DEF PInv, LocksAreExclusive
  <1>9. QED
    BY <1>5, <1>6, <1>7, <1>8 DEF PInv

(* The same for each kind of rows.                                          *)
LEMMA ListingStart ==
  ASSUME PInv, NEW r \in Requests, NEW op \in AllOperations \ ServiceOperations,
         NEW l \in Listings, NEW row \in ListingRow,
         Start(r, op, [NoWrite EXCEPT !.listing[l] = row]),
         CleanListing(row),
         row.property # None => property[row.property] # None
  PROVE  PInv'
  <1> DEFINE w == [NoWrite EXCEPT !.listing[l] = row]
  <1>1. /\ w \in Transaction /\ w.locks = {}
        /\ w.listing = [NoWrite.listing EXCEPT ![l] = row]
        /\ w.development = NoWrite.development /\ w.variant = NoWrite.variant
    BY ListingWrite
  <1>2. Start(r, op, w)
    OBVIOUS
  <1> HIDE DEF w
  <1>3. CleanWrites(w)
    BY <1>1, NoWriteFields DEF CleanWrites
  <1>4. KeepsColumns([w EXCEPT !.op = op])
    BY <1>1 DEF KeepsColumns, Transaction
  <1>5. QED
    BY <1>1, <1>2, <1>3, <1>4, StartKeepsPInv

LEMMA LockedStart ==
  ASSUME PInv, NEW r \in Requests, NEW op \in AllOperations,
         NEW l \in Listings, NEW row \in ListingRow,
         Start(r, op, [NoWrite EXCEPT !.locks = {l}, !.listing[l] = row]),
         CleanListing(row),
         row.property # None => property[row.property] # None,
         listing[l] # None,
         \A q \in Requests : l \notin txn[q].locks,
         \A c \in Columns \ Assigns(op) : row[c] = listing[l][c]
  PROVE  PInv'
  <1> DEFINE w == [NoWrite EXCEPT !.locks = {l}, !.listing[l] = row]
  <1>1. /\ w \in Transaction /\ w.locks = {l}
        /\ w.listing = [NoWrite.listing EXCEPT ![l] = row]
        /\ w.development = NoWrite.development /\ w.variant = NoWrite.variant
    BY LockedWrite
  <1>2. Start(r, op, w)
    OBVIOUS
  <1> HIDE DEF w
  <1>3. CleanWrites(w)
    BY <1>1, NoWriteFields DEF CleanWrites
  <1>4. KeepsColumns([w EXCEPT !.op = op])
    <2>1. /\ [w EXCEPT !.op = op].locks = {l} /\ [w EXCEPT !.op = op].op = op
          /\ [w EXCEPT !.op = op].listing = [NoWrite.listing EXCEPT ![l] = row]
      BY <1>1 DEF Transaction
    <2>2. QED
      BY <2>1, NoWriteFields DEF KeepsColumns
  <1>5. QED
    BY <1>1, <1>2, <1>3, <1>4, StartKeepsPInv

LEMMA PropertyStart ==
  ASSUME PInv, NEW r \in Requests, NEW op \in AllOperations \ ServiceOperations,
         NEW p \in Properties, NEW row \in PropertyRow,
         Start(r, op, [NoWrite EXCEPT !.property[p] = row])
  PROVE  PInv'
  <1> DEFINE w == [NoWrite EXCEPT !.property[p] = row]
  <1>1. /\ w \in Transaction /\ w.locks = {} /\ w.listing = NoWrite.listing
        /\ w.development = NoWrite.development /\ w.variant = NoWrite.variant
    BY PropertyWrite
  <1>2. Start(r, op, w)
    OBVIOUS
  <1> HIDE DEF w
  <1>3. CleanWrites(w)
    BY <1>1, NoWriteFields DEF CleanWrites
  <1>4. KeepsColumns([w EXCEPT !.op = op])
    BY <1>1 DEF KeepsColumns, Transaction
  <1>5. QED
    BY <1>1, <1>2, <1>3, <1>4, StartKeepsPInv

LEMMA DevelopmentStart ==
  ASSUME PInv, NEW r \in Requests, NEW op \in AllOperations \ ServiceOperations,
         NEW d \in Developments, NEW row \in DevelopmentRow, ArchivedRow(row),
         Start(r, op, [NoWrite EXCEPT !.development[d] = row])
  PROVE  PInv'
  <1> DEFINE w == [NoWrite EXCEPT !.development[d] = row]
  <1>1. /\ w \in Transaction /\ w.locks = {} /\ w.listing = NoWrite.listing
        /\ w.development = [NoWrite.development EXCEPT ![d] = row]
        /\ w.variant = NoWrite.variant
    BY DevelopmentWrite
  <1>2. Start(r, op, w)
    OBVIOUS
  <1> HIDE DEF w
  <1>3. CleanWrites(w)
    BY <1>1, NoWriteFields DEF CleanWrites
  <1>4. KeepsColumns([w EXCEPT !.op = op])
    BY <1>1 DEF KeepsColumns, Transaction
  <1>5. QED
    BY <1>1, <1>2, <1>3, <1>4, StartKeepsPInv

LEMMA VariantStart ==
  ASSUME PInv, NEW r \in Requests, NEW op \in AllOperations \ ServiceOperations,
         NEW v \in Variants, NEW row \in VariantRow, ArchivedRow(row),
         Start(r, op, [NoWrite EXCEPT !.variant[v] = row])
  PROVE  PInv'
  <1> DEFINE w == [NoWrite EXCEPT !.variant[v] = row]
  <1>1. /\ w \in Transaction /\ w.locks = {} /\ w.listing = NoWrite.listing
        /\ w.development = NoWrite.development
        /\ w.variant = [NoWrite.variant EXCEPT ![v] = row]
    BY VariantWrite
  <1>2. Start(r, op, w)
    OBVIOUS
  <1> HIDE DEF w
  <1>3. CleanWrites(w)
    BY <1>1, NoWriteFields DEF CleanWrites
  <1>4. KeepsColumns([w EXCEPT !.op = op])
    BY <1>1 DEF KeepsColumns, Transaction
  <1>5. QED
    BY <1>1, <1>2, <1>3, <1>4, StartKeepsPInv

LEMMA GuidedStart ==
  ASSUME PInv, NEW r \in Requests, NEW op \in AllOperations \ ServiceOperations,
         NEW l \in Listings, NEW row \in ListingRow, CleanListing(row),
         NEW p \in Properties, NEW prop \in PropertyRow, row.property = p,
         Start(r, op, [NoWrite EXCEPT !.listing[l] = row, !.property[p] = prop])
  PROVE  PInv'
  <1> DEFINE w == [NoWrite EXCEPT !.listing[l] = row, !.property[p] = prop]
  <1>1. /\ w \in Transaction /\ w.locks = {}
        /\ w.listing = [NoWrite.listing EXCEPT ![l] = row]
        /\ w.property = [NoWrite.property EXCEPT ![p] = prop]
        /\ w.development = NoWrite.development /\ w.variant = NoWrite.variant
    <2> DEFINE rows == [NoWrite.listing EXCEPT ![l] = row]
               props == [NoWrite.property EXCEPT ![p] = prop]
    <2>1. /\ rows \in [Listings -> OrNone(ListingRow)]
          /\ props \in [Properties -> OrNone(PropertyRow)]
      BY NoWriteFields DEF OrNone
    <2>2. w = [NoWrite EXCEPT !.listing = rows, !.property = props]
      BY NoWriteFields DEF Transaction
    <2> HIDE DEF w, rows, props
    <2>3. /\ w \in Transaction /\ w.locks = {} /\ w.listing = rows /\ w.property = props
          /\ w.development = NoWrite.development /\ w.variant = NoWrite.variant
      BY <2>1, <2>2, NoWriteFields DEF Transaction
    <2>4. QED
      BY <2>3 DEF rows, props
  <1>2. Start(r, op, w)
    OBVIOUS
  <1>p. prop # None
    BY NoneAssumption
  <1> HIDE DEF w
  <1>3. CleanWrites(w)
    BY <1>1, <1>p, NoWriteFields DEF CleanWrites
  <1>4. KeepsColumns([w EXCEPT !.op = op])
    BY <1>1 DEF KeepsColumns, Transaction
  <1>5. QED
    BY <1>1, <1>2, <1>3, <1>4, StartKeepsPInv

-----------------------------------------------------------------------------
(* Listing.clean ties archived_at to the status, whatever it was given.     *)
LEMMA CleanedIsClean ==
  ASSUME NEW row \in ListingRow, NEW properties, ListingClean(row, properties),
         row.workflow_status = "PUBLISHED" => row.published_at,
         (row.property = None) # (row.variant = None)
  PROVE  /\ Cleaned(row) \in ListingRow
         /\ CleanListing(Cleaned(row))
         /\ Cleaned(row).property = row.property
         /\ \A c \in Columns \ {"archived_at"} : Cleaned(row)[c] = row[c]
         /\ ArchivedListing(row) => Cleaned(row) = row
  <1>1. CASE row.workflow_status = "ARCHIVED"
    <2> DEFINE new == [row EXCEPT !.archived_at = TRUE]
    <2>1. /\ new \in ListingRow /\ new.archived_at /\ new.workflow_status = "ARCHIVED"
          /\ new.property = row.property /\ new.variant = row.variant
          /\ new.public_status = row.public_status /\ new.published_at = row.published_at
          /\ row.archived_at => new = row
      BY <1>1 DEF ListingRow
    <2>2. Cleaned(row) = new
      BY <1>1 DEF Cleaned
    <2> HIDE DEF new
    <2>3. CleanListing(new)
      BY <2>1 DEF CleanListing, ArchivedListing
    <2>4. \A c \in Columns \ {"archived_at"} : new[c] = row[c]
      BY <2>1, <1>1 DEF Columns
    <2>5. QED
      BY <2>1, <2>2, <2>3, <2>4, <1>1 DEF ArchivedListing
  <1>2. CASE row.workflow_status # "ARCHIVED"
    BY <1>2 DEF Cleaned, CleanListing, ArchivedListing, ListingClean, ListingRow
  <1>3. QED
    BY <1>1, <1>2

(* The listings that are there.                                             *)
LEMMA ExistingListing ==
  ASSUME PInv, NEW l \in Listings, Existing(listing, l)
  PROVE  /\ listing[l] \in ListingRow
         /\ CleanListing(listing[l])
         /\ listing[l].property # None =>
               /\ listing[l].property \in Properties
               /\ property[listing[l].property] \in PropertyRow
  BY DEF PInv, TypeOK, CleanRows, Existing, OrNone, ListingRow

(* The four services: row is what they have assigned to the locked listing. *)
LEMMA LockedChangeKeepsPInv ==
  ASSUME PInv, NEW r \in Requests, NEW l \in Listings, NEW op \in AllOperations,
         NEW row \in ListingRow, LockedChange(r, op, l, row),
         row.workflow_status = "PUBLISHED" => row.published_at,
         row.property = listing[l].property, row.variant = listing[l].variant,
         \A c \in Columns \ Assigns(op) : row[c] = listing[l][c],
         "archived_at" \in Assigns(op) \/ ArchivedListing(row)
  PROVE  PInv'
  <1>1. /\ Existing(listing, l) /\ ListingClean(row, property)
        /\ \A q \in Requests : l \notin txn[q].locks
        /\ Start(r, op, [NoWrite EXCEPT !.locks = {l}, !.listing[l] = Cleaned(row)])
    BY DEF LockedChange
  <1>2. /\ CleanListing(listing[l])
        /\ listing[l].property # None => property[listing[l].property] # None
        /\ listing[l] # None
    BY <1>1 DEF PInv, CleanRows, Existing
  <1>3. (row.property = None) # (row.variant = None)
    BY <1>2 DEF CleanListing
  <1>4. /\ Cleaned(row) \in ListingRow /\ CleanListing(Cleaned(row))
        /\ Cleaned(row).property = row.property
        /\ \A c \in Columns \ {"archived_at"} : Cleaned(row)[c] = row[c]
        /\ ArchivedListing(row) => Cleaned(row) = row
    BY <1>1, <1>3, CleanedIsClean
  <1>5. \A c \in Columns \ Assigns(op) : Cleaned(row)[c] = listing[l][c]
    BY <1>4
  <1>6. Cleaned(row).property # None => property[Cleaned(row).property] # None
    BY <1>2, <1>4
  <1>7. QED
    BY <1>1, <1>2, <1>4, <1>5, <1>6, LockedStart

LEMMA PublishKeepsPInv ==
  ASSUME PInv, NEW r \in Requests, NEW l \in Listings, PublishListing(r, l)
  PROVE  PInv'
  <1> DEFINE row == [listing[l] EXCEPT !.workflow_status = "PUBLISHED", !.archived_at = FALSE,
                                       !.published_at = TRUE]
  <1>1. listing[l] \in ListingRow
    BY ExistingListing DEF PublishListing, LockedChange
  <1>2. /\ row \in ListingRow /\ row.published_at
        /\ row.property = listing[l].property /\ row.variant = listing[l].variant
        /\ row.public_status = listing[l].public_status
    BY <1>1 DEF ListingRow, WorkflowStatus
  <1>3. LockedChange(r, "publish", l, row)
    BY DEF PublishListing
  <1> HIDE DEF row
  <1>4. \A c \in Columns \ Assigns("publish") : row[c] = listing[l][c]
    BY <1>2 DEF Columns, Assigns
  <1>5. "publish" \in AllOperations /\ "archived_at" \in Assigns("publish")
    BY DEF AllOperations, Assigns
  <1>6. QED
    BY <1>2, <1>3, <1>4, <1>5, LockedChangeKeepsPInv

LEMMA ArchiveKeepsPInv ==
  ASSUME PInv, NEW r \in Requests, NEW l \in Listings, ArchiveListing(r, l)
  PROVE  PInv'
  <1> DEFINE row == [listing[l] EXCEPT !.workflow_status = "ARCHIVED", !.archived_at = TRUE]
  <1>1. listing[l] \in ListingRow
    BY ExistingListing DEF ArchiveListing, LockedChange
  <1>2. /\ row \in ListingRow /\ row.workflow_status = "ARCHIVED"
        /\ row.property = listing[l].property /\ row.variant = listing[l].variant
        /\ row.public_status = listing[l].public_status
        /\ row.published_at = listing[l].published_at
    BY <1>1 DEF ListingRow, WorkflowStatus
  <1>3. LockedChange(r, "archive", l, row)
    BY DEF ArchiveListing
  <1> HIDE DEF row
  <1>4. \A c \in Columns \ Assigns("archive") : row[c] = listing[l][c]
    BY <1>2 DEF Columns, Assigns
  <1>5. "archive" \in AllOperations /\ "archived_at" \in Assigns("archive")
    BY DEF AllOperations, Assigns
  <1>6. QED
    BY <1>2, <1>3, <1>4, <1>5, LockedChangeKeepsPInv

LEMMA RestoreKeepsPInv ==
  ASSUME PInv, NEW r \in Requests, NEW l \in Listings, RestoreListing(r, l)
  PROVE  PInv'
  <1> DEFINE row == [listing[l] EXCEPT !.workflow_status = "DRAFT", !.archived_at = FALSE]
  <1>1. listing[l] \in ListingRow
    BY ExistingListing DEF RestoreListing
  <1>2. /\ row \in ListingRow /\ row.workflow_status = "DRAFT"
        /\ row.property = listing[l].property /\ row.variant = listing[l].variant
        /\ row.public_status = listing[l].public_status
        /\ row.published_at = listing[l].published_at
    BY <1>1 DEF ListingRow, WorkflowStatus
  <1>3. LockedChange(r, "restore", l, row)
    BY DEF RestoreListing
  <1> HIDE DEF row
  <1>4. \A c \in Columns \ Assigns("restore") : row[c] = listing[l][c]
    BY <1>2 DEF Columns, Assigns
  <1>5. "restore" \in AllOperations /\ "archived_at" \in Assigns("restore")
    BY DEF AllOperations, Assigns
  <1>6. QED
    BY <1>2, <1>3, <1>4, <1>5, LockedChangeKeepsPInv

LEMMA SetPublicStatusKeepsPInv ==
  ASSUME PInv, NEW r \in Requests, NEW l \in Listings, NEW status \in PublicStatus,
         SetPublicStatus(r, l, status)
  PROVE  PInv'
  <1> DEFINE row == [listing[l] EXCEPT !.public_status = status]
  <1>1. listing[l] \in ListingRow /\ CleanListing(listing[l])
    BY ExistingListing DEF SetPublicStatus, LockedChange
  <1>2. /\ row \in ListingRow
        /\ row.property = listing[l].property /\ row.variant = listing[l].variant
        /\ row.workflow_status = listing[l].workflow_status
        /\ row.archived_at = listing[l].archived_at
        /\ row.published_at = listing[l].published_at
    BY <1>1 DEF ListingRow
  <1>3. LockedChange(r, "set_public_status", l, row)
    BY DEF SetPublicStatus
  <1> HIDE DEF row
  <1>4. \A c \in Columns \ Assigns("set_public_status") : row[c] = listing[l][c]
    BY <1>2 DEF Columns, Assigns
  <1>5. "set_public_status" \in AllOperations /\ ArchivedListing(row)
    BY <1>1, <1>2 DEF AllOperations, CleanListing, ArchivedListing
  <1>6. row.workflow_status = "PUBLISHED" => row.published_at
    BY <1>1, <1>2 DEF CleanListing
  <1>7. QED
    BY <1>2, <1>3, <1>4, <1>5, <1>6, LockedChangeKeepsPInv

-----------------------------------------------------------------------------
(* The forms.                                                               *)
LEMMA DraftIsClean ==
  ASSUME NEW p \in OrNone(Properties), NEW v \in OrNone(Variants), NEW status \in PublicStatus,
         (p = None) # (v = None)
  PROVE  /\ Draft(p, v, status) \in ListingRow
         /\ CleanListing(Draft(p, v, status))
         /\ Draft(p, v, status).property = p
  BY DEF Draft, ListingRow, WorkflowStatus, CleanListing, ArchivedListing

LEMMA TargetFields ==
  ASSUME NEW t \in Targets
  PROVE  /\ t.property \in OrNone(Properties) /\ t.variant \in OrNone(Variants)
         /\ (t.property = None) # (t.variant = None)
         /\ t.property # None => property[t.property] # None
  BY NoneAssumption DEF Targets, OrNone, Existing

LEMMA ListingEditKeepsPInv ==
  ASSUME PInv, NEW r \in Requests, NEW l \in Listings, NEW t \in Targets,
         NEW status \in PublicStatus, ListingEdit(r, l, t, status)
  PROVE  PInv'
  <1> DEFINE row == [listing[l] EXCEPT !.property = t.property, !.variant = t.variant,
                                       !.public_status = status]
  <1>1. listing[l] \in ListingRow /\ CleanListing(listing[l])
    BY ExistingListing DEF ListingEdit
  <1>2. /\ row \in ListingRow /\ row.property = t.property /\ row.variant = t.variant
        /\ row.workflow_status = listing[l].workflow_status
        /\ row.published_at = listing[l].published_at
    BY <1>1, TargetFields DEF ListingRow
  <1>3. /\ ListingClean(row, property)
        /\ Start(r, "listing_edit", [NoWrite EXCEPT !.listing[l] = Cleaned(row)])
    BY DEF ListingEdit
  <1> HIDE DEF row
  <1>4. /\ row.workflow_status = "PUBLISHED" => row.published_at
        /\ (row.property = None) # (row.variant = None)
    BY <1>1, <1>2, TargetFields DEF CleanListing
  <1>5. /\ Cleaned(row) \in ListingRow /\ CleanListing(Cleaned(row))
        /\ Cleaned(row).property = t.property
    BY <1>2, <1>3, <1>4, CleanedIsClean
  <1>6. Cleaned(row).property # None => property[Cleaned(row).property] # None
    BY <1>5, TargetFields
  <1>7. "listing_edit" \in AllOperations \ ServiceOperations
    BY DEF AllOperations, ServiceOperations
  <1>8. QED
    BY <1>3, <1>5, <1>6, <1>7, ListingStart

LEMMA PlacementFields ==
  ASSUME PInv, NEW f \in FormPlacements
  PROVE  f.development \in OrNone(Developments) /\ f.variant \in OrNone(Variants)
  BY DEF PInv, TypeOK, FormPlacements, FormDevelopments, FormHouseModels, VariantRow, OrNone

LEMMA GuidedEditSingleKeepsPInv ==
  ASSUME PInv, NEW r \in Requests, NEW l \in Listings, NEW f \in FormPlacements,
         NEW loc \in Locations, NEW status \in PublicStatus,
         GuidedEditSingle(r, l, f, loc, status)
  PROVE  PInv'
  <1> DEFINE p == listing[l].property
             prop == [property[p] EXCEPT !.development = f.development,
                                         !.variant = f.variant, !.location = loc]
             row == [listing[l] EXCEPT !.public_status = status]
  <1>1. /\ listing[l] \in ListingRow /\ CleanListing(listing[l])
        /\ p \in Properties /\ property[p] \in PropertyRow
    BY ExistingListing DEF GuidedEditSingle
  <1>2. prop \in PropertyRow
    BY <1>1, PlacementFields DEF PropertyRow
  <1>3. /\ row \in ListingRow /\ row.property = p /\ row.variant = listing[l].variant
        /\ row.workflow_status = listing[l].workflow_status
        /\ row.published_at = listing[l].published_at
    BY <1>1 DEF ListingRow
  <1>4. /\ ListingClean(row, [property EXCEPT ![p] = prop])
        /\ Start(r, "guided_edit",
                 [NoWrite EXCEPT !.listing[l] = Cleaned(row), !.property[p] = prop])
    BY DEF GuidedEditSingle
  <1>5. /\ row.workflow_status = "PUBLISHED" => row.published_at
        /\ (row.property = None) # (row.variant = None)
    BY <1>1, <1>3 DEF CleanListing
  <1> HIDE DEF row, prop
  <1>6. /\ Cleaned(row) \in ListingRow /\ CleanListing(Cleaned(row))
        /\ Cleaned(row).property = p
    BY <1>3, <1>4, <1>5, CleanedIsClean
  <1>7. "guided_edit" \in AllOperations \ ServiceOperations
    BY DEF AllOperations, ServiceOperations
  <1>8. QED
    BY <1>1, <1>2, <1>4, <1>6, <1>7, GuidedStart

LEMMA GuidedEditPooledKeepsPInv ==
  ASSUME PInv, NEW r \in Requests, NEW l \in Listings, NEW v \in Variants,
         NEW status \in PublicStatus, GuidedEditPooled(r, l, v, status)
  PROVE  PInv'
  <1> DEFINE row == [listing[l] EXCEPT !.variant = v, !.public_status = status]
  <1>1. listing[l] \in ListingRow /\ CleanListing(listing[l]) /\ listing[l].property = None
    BY ExistingListing DEF GuidedEditPooled
  <1>2. /\ row \in ListingRow /\ row.property = None /\ row.variant = v
        /\ row.workflow_status = listing[l].workflow_status
        /\ row.published_at = listing[l].published_at
    BY <1>1 DEF ListingRow, OrNone
  <1>3. /\ ListingClean(row, property)
        /\ Start(r, "guided_edit", [NoWrite EXCEPT !.listing[l] = Cleaned(row)])
    BY DEF GuidedEditPooled
  <1> HIDE DEF row
  <1>4. /\ row.workflow_status = "PUBLISHED" => row.published_at
        /\ (row.property = None) # (row.variant = None)
    BY <1>1, <1>2, NoneAssumption DEF CleanListing
  <1>5. /\ Cleaned(row) \in ListingRow /\ CleanListing(Cleaned(row))
        /\ Cleaned(row).property = None
    BY <1>2, <1>3, <1>4, CleanedIsClean
  <1>6. "guided_edit" \in AllOperations \ ServiceOperations
    BY DEF AllOperations, ServiceOperations
  <1>7. QED
    BY <1>3, <1>5, <1>6, ListingStart

LEMMA GuidedCreateSingleKeepsPInv ==
  ASSUME PInv, NEW r \in Requests, NEW l \in Listings, NEW p \in Properties,
         NEW f \in FormPlacements, NEW loc \in Locations, NEW status \in PublicStatus,
         GuidedCreateSingle(r, l, p, f, loc, status)
  PROVE  PInv'
  <1> DEFINE prop == [development |-> f.development, variant |-> f.variant,
                      location |-> loc, inventory_status |-> "AVAILABLE"]
  <1>1. prop \in PropertyRow
    BY PlacementFields DEF PropertyRow, InventoryStatus
  <1>2. p # None /\ p \in OrNone(Properties) /\ None \in OrNone(Variants)
    BY NoneAssumption DEF OrNone
  <1>3. /\ Draft(p, None, status) \in ListingRow /\ CleanListing(Draft(p, None, status))
        /\ Draft(p, None, status).property = p
    BY <1>2, DraftIsClean
  <1>4. Start(r, "guided_create",
              [NoWrite EXCEPT !.listing[l] = Draft(p, None, status), !.property[p] = prop])
    BY DEF GuidedCreateSingle
  <1> HIDE DEF prop
  <1>5. "guided_create" \in AllOperations \ ServiceOperations
    BY DEF AllOperations, ServiceOperations
  <1>6. QED
    BY <1>1, <1>3, <1>4, <1>5, GuidedStart

LEMMA GuidedCreatePooledKeepsPInv ==
  ASSUME PInv, NEW r \in Requests, NEW l \in Listings, NEW v \in Variants,
         NEW status \in PublicStatus, GuidedCreatePooled(r, l, v, status)
  PROVE  PInv'
  <1>1. v # None /\ None \in OrNone(Properties) /\ v \in OrNone(Variants)
    BY NoneAssumption DEF OrNone
  <1>2. /\ Draft(None, v, status) \in ListingRow /\ CleanListing(Draft(None, v, status))
        /\ Draft(None, v, status).property = None
    BY <1>1, DraftIsClean
  <1>3. "guided_create" \in AllOperations \ ServiceOperations
    BY DEF AllOperations, ServiceOperations
  <1>4. QED
    BY <1>2, <1>3, ListingStart DEF GuidedCreatePooled

LEMMA CatalogueKeepsPInv ==
  ASSUME PInv, NEW r \in Requests,
         \/ \E p \in Properties, row \in PropertyRow : PropertySave(r, p, row)
         \/ \E d \in Developments :
               \/ \E s \in Status, loc \in Locations : DevelopmentEdit(r, d, s, loc)
               \/ ArchiveDevelopment(r, d)
               \/ ReactivateDevelopment(r, d)
               \/ \E row \in DevelopmentRow : RestoreDevelopment(r, d, row)
         \/ \E v \in Variants :
               \/ \E s \in Status, d \in Developments : VariantEdit(r, v, s, d)
               \/ ArchiveVariant(r, v)
               \/ ReactivateVariant(r, v)
               \/ \E row \in VariantRow : RestoreVariant(r, v, row)
  PROVE  PInv'
  <1>a. /\ \A d \in Developments : development[d] \in DevelopmentRow
        /\ \A v \in Variants : variant[v] \in VariantRow
    BY DEF PInv, TypeOK
  <1>b. {"property_save", "development_edit", "variant_edit", "archive_record",
         "reactivate_record", "restore_revision"} \subseteq AllOperations \ ServiceOperations
    BY DEF AllOperations, ServiceOperations
  <1>1. ASSUME NEW p \in Properties, NEW row \in PropertyRow, PropertySave(r, p, row)
        PROVE  PInv'
    BY <1>1, <1>b, PropertyStart DEF PropertySave
  <1>2. ASSUME NEW d \in Developments, NEW s \in Status, NEW loc \in Locations,
               DevelopmentEdit(r, d, s, loc)
        PROVE  PInv'
    <2> DEFINE restoring == development[d].status = "ARCHIVED" /\ s # "ARCHIVED"
               archived == development[d].archived_at /\ ~restoring
               status == IF restoring THEN "DRAFT" ELSE s
               row == [status |-> status, archived_at |-> archived, location |-> loc]
    <2>1. /\ DevelopmentClean(row, d)
          /\ Start(r, "development_edit", [NoWrite EXCEPT !.development[d] = Stamped(row)])
      BY <1>2 DEF DevelopmentEdit
    <2>2. archived \in BOOLEAN /\ status \in Status
      BY DEF Status
    <2> HIDE DEF restoring, archived, status
    <2>3. row \in DevelopmentRow
      BY <2>2 DEF DevelopmentRow
    <2> HIDE DEF row
    <2>4. Stamped(row) \in DevelopmentRow /\ ArchivedRow(Stamped(row))
      BY <2>1, <2>3 DEF Stamped, ArchivedRow, DevelopmentRow, DevelopmentClean
    <2>5. QED
      BY <2>1, <2>4, <1>b, DevelopmentStart
  <1>3. ASSUME NEW d \in Developments, ArchiveDevelopment(r, d)
        PROVE  PInv'
    <2> DEFINE row == [development[d] EXCEPT !.status = "ARCHIVED", !.archived_at = TRUE]
    <2>1. row \in DevelopmentRow /\ ArchivedRow(row)
      BY <1>a DEF DevelopmentRow, Status, ArchivedRow
    <2>2. Start(r, "archive_record", [NoWrite EXCEPT !.development[d] = row])
      BY <1>3 DEF ArchiveDevelopment
    <2> HIDE DEF row
    <2>3. QED
      BY <2>1, <2>2, <1>b, DevelopmentStart
  <1>4. ASSUME NEW d \in Developments, ReactivateDevelopment(r, d)
        PROVE  PInv'
    <2> DEFINE row == [development[d] EXCEPT !.status = "DRAFT", !.archived_at = FALSE]
    <2>1. row \in DevelopmentRow /\ ArchivedRow(row)
      BY <1>a DEF DevelopmentRow, Status, ArchivedRow
    <2>2. Start(r, "reactivate_record", [NoWrite EXCEPT !.development[d] = row])
      BY <1>4 DEF ReactivateDevelopment
    <2> HIDE DEF row
    <2>3. QED
      BY <2>1, <2>2, <1>b, DevelopmentStart
  <1>5. ASSUME NEW v \in Variants, NEW s \in Status, NEW d \in Developments,
               VariantEdit(r, v, s, d)
        PROVE  PInv'
    <2> DEFINE row == [variant[v] EXCEPT !.status = s, !.development = d]
    <2>1. /\ VariantClean(row)
          /\ Start(r, "variant_edit", [NoWrite EXCEPT !.variant[v] = Stamped(row)])
      BY <1>5 DEF VariantEdit
    <2>2. row \in VariantRow
      BY <1>a DEF VariantRow
    <2> HIDE DEF row
    <2>3. Stamped(row) \in VariantRow /\ ArchivedRow(Stamped(row))
      BY <2>1, <2>2 DEF Stamped, ArchivedRow, VariantRow, VariantClean
    <2>4. QED
      BY <2>1, <2>3, <1>b, VariantStart
  <1>6. ASSUME NEW v \in Variants, ArchiveVariant(r, v)
        PROVE  PInv'
    <2> DEFINE row == [variant[v] EXCEPT !.status = "ARCHIVED", !.archived_at = TRUE]
    <2>1. row \in VariantRow /\ ArchivedRow(row)
      BY <1>a DEF VariantRow, Status, ArchivedRow
    <2>2. Start(r, "archive_record", [NoWrite EXCEPT !.variant[v] = row])
      BY <1>6 DEF ArchiveVariant
    <2> HIDE DEF row
    <2>3. QED
      BY <2>1, <2>2, <1>b, VariantStart
  <1>7. ASSUME NEW v \in Variants, ReactivateVariant(r, v)
        PROVE  PInv'
    <2> DEFINE row == [variant[v] EXCEPT !.status = "DRAFT", !.archived_at = FALSE]
    <2>1. row \in VariantRow /\ ArchivedRow(row)
      BY <1>a DEF VariantRow, Status, ArchivedRow
    <2>2. Start(r, "reactivate_record", [NoWrite EXCEPT !.variant[v] = row])
      BY <1>7 DEF ReactivateVariant
    <2> HIDE DEF row
    <2>3. QED
      BY <2>1, <2>2, <1>b, VariantStart
  <1>8. ASSUME NEW d \in Developments, NEW row \in DevelopmentRow, RestoreDevelopment(r, d, row)
        PROVE  PInv'
    BY <1>8, <1>b, DevelopmentStart DEF RestoreDevelopment
  <1>9. ASSUME NEW v \in Variants, NEW row \in VariantRow, RestoreVariant(r, v, row)
        PROVE  PInv'
    BY <1>9, <1>b, VariantStart DEF RestoreVariant
  <1>10. QED
    BY <1>1, <1>2, <1>3, <1>4, <1>5, <1>6, <1>7, <1>8, <1>9

-----------------------------------------------------------------------------
(* The operations that write at once: the rows they touch are nobody's.     *)
LEMMA DirectKeepsPInv ==
  ASSUME PInv,
         \/ \E l \in Listings, t \in Targets, s \in PublicStatus : ListingCreate(l, t, s)
         \/ \E o \in Offers, l \in Listings, a \in BOOLEAN : OfferSave(o, l, a)
         \/ \E loc \in Locations, h \in BOOLEAN : LocationEdit(loc, h)
  PROVE  PInv'
  <1>1. ASSUME NEW l \in Listings, NEW t \in Targets, NEW s \in PublicStatus,
               ListingCreate(l, t, s)
        PROVE  PInv'
    <2> DEFINE row == Draft(t.property, t.variant, s)
    <2>1. row \in ListingRow /\ CleanListing(row) /\ row.property = t.property
      BY TargetFields, DraftIsClean
    <2>2. listing[l] = None /\ listing' = [listing EXCEPT ![l] = row]
          /\ UNCHANGED <<offer, property, development, variant, hidden, txn>>
      BY <1>1 DEF ListingCreate, NewListing
    <2> HIDE DEF row
    <2>3. listing'[l] = row /\ \A k \in Listings : k # l => listing'[k] = listing[k]
      BY <2>2 DEF PInv, TypeOK
    <2>4. TypeOK'
      BY <2>1, <2>2 DEF PInv, TypeOK, OrNone
    <2>5. CleanRows'
      BY <2>1, <2>2, <2>3, TargetFields DEF PInv, CleanRows
    <2>6. \A r \in Requests : CleanWrites(txn[r])' /\ KeepsColumns(txn[r])'
      <3> SUFFICES ASSUME NEW r \in Requests
                   PROVE  CleanWrites(txn[r])' /\ KeepsColumns(txn[r])'
        OBVIOUS
      <3>1. txn[r] \in Transaction
        BY DEF PInv, TypeOK
      <3>2. \A k \in txn[r].locks : k \in Listings /\ k # l
        BY <2>2, <3>1 DEF PInv, KeepsColumns, Transaction
      <3>3. QED
        BY <2>2, <2>3, <3>2 DEF PInv, CleanWrites, KeepsColumns
    <2>7. LocksAreExclusive'
      BY <2>2 DEF PInv, LocksAreExclusive
    <2>8. QED
      BY <2>4, <2>5, <2>6, <2>7 DEF PInv
  <1>2. ASSUME NEW o \in Offers, NEW l \in Listings, NEW a \in BOOLEAN, OfferSave(o, l, a)
        PROVE  PInv'
    <2>1. [listing |-> l, active |-> a] \in OrNone(OfferRow)
      BY DEF OfferRow, OrNone
    <2>2. TypeOK'
      BY <1>2, <2>1 DEF OfferSave, PInv, TypeOK
    <2>3. UNCHANGED <<listing, property, development, variant, hidden, txn>>
      BY <1>2 DEF OfferSave
    <2>4. QED
      BY <2>2, <2>3 DEF PInv, CleanRows, CleanWrites, KeepsColumns, LocksAreExclusive
  <1>3. ASSUME NEW loc \in Locations, NEW h \in BOOLEAN, LocationEdit(loc, h)
        PROVE  PInv'
    <2>1. TypeOK'
      BY <1>3 DEF LocationEdit, PInv, TypeOK
    <2>2. UNCHANGED <<listing, offer, property, development, variant, txn>>
      BY <1>3 DEF LocationEdit
    <2>3. QED
      BY <2>1, <2>2 DEF PInv, CleanRows, CleanWrites, KeepsColumns, LocksAreExclusive
  <1>4. QED
    BY <1>1, <1>2, <1>3

LEMMA AbortKeepsPInv ==
  ASSUME PInv, NEW r \in Requests, Abort(r)
  PROVE  PInv'
  <1>1. /\ UNCHANGED <<listing, offer, property, development, variant, hidden>>
        /\ txn'[r] = NoWrite /\ \A q \in Requests : q # r => txn'[q] = txn[q]
    BY DEF Abort, db, PInv, TypeOK
  <1>2. TypeOK'
    BY NoWriteFields, <1>1 DEF Abort, PInv, TypeOK
  <1>3. CleanRows'
    BY <1>1 DEF PInv, CleanRows
  <1>4. \A q \in Requests : CleanWrites(txn[q])' /\ KeepsColumns(txn[q])'
    <2>1. CleanWrites(txn[r])' /\ KeepsColumns(txn[r])'
      BY <1>1, NoWriteFields DEF CleanWrites, KeepsColumns
    <2>2. QED
      BY <1>1, <2>1 DEF PInv, CleanWrites, KeepsColumns
  <1>5. LocksAreExclusive'
    BY <1>1, NoWriteFields DEF PInv, LocksAreExclusive
  <1>6. QED
    BY <1>2, <1>3, <1>4, <1>5 DEF PInv

(* A commit writes clean rows over clean rows, and no row that another      *)
(* request holds.                                                           *)
LEMMA SavingKeepsPInv ==
  ASSUME PInv, NEW r \in Requests, Saving(r),
         offer' \in [Offers -> OrNone(OfferRow)]
  PROVE  PInv'
  <1> DEFINE t == txn[r]
  <1>1. t \in Transaction /\ CleanWrites(t)
    BY DEF PInv, TypeOK
  <1>2. /\ \A l \in Listings : listing'[l] = IF t.listing[l] = None THEN listing[l]
                                              ELSE t.listing[l]
        /\ \A p \in Properties : property'[p] = IF t.property[p] = None THEN property[p]
                                                ELSE t.property[p]
        /\ \A d \in Developments : development'[d] = IF t.development[d] = None
                                                     THEN development[d]
                                                     ELSE t.development[d]
        /\ \A v \in Variants : variant'[v] = IF t.variant[v] = None THEN variant[v]
                                             ELSE t.variant[v]
    BY DEF Saving, Overlay, PInv, TypeOK
  <1>3. /\ txn'[r] = NoWrite /\ \A q \in Requests : q # r => txn'[q] = txn[q]
        /\ hidden' = hidden
    BY DEF Saving, PInv, TypeOK
  <1>4. /\ \A p \in Properties : property[p] # None => property'[p] # None
        /\ \A l \in Listings : listing[l] # None => listing'[l] # None
        /\ \A p \in Properties : t.property[p] # None => property'[p] # None
    BY <1>2
  <1>r. /\ \A l \in Listings : t.listing[l] # None /\ t.listing[l].property # None =>
              t.listing[l].property \in Properties
        /\ \A l \in Listings : listing[l] # None /\ listing[l].property # None =>
              listing[l].property \in Properties
        /\ \A q \in Requests, l \in Listings :
              txn[q].listing[l] # None /\ txn[q].listing[l].property # None =>
              txn[q].listing[l].property \in Properties
    BY <1>1 DEF PInv, TypeOK, Transaction, ListingRow, OrNone
  <1>5. TypeOK'
    <2> HIDE DEF t
    <2>1. /\ \A l \in Listings : listing'[l] \in OrNone(ListingRow)
          /\ \A p \in Properties : property'[p] \in OrNone(PropertyRow)
          /\ \A d \in Developments : development'[d] \in DevelopmentRow
          /\ \A v \in Variants : variant'[v] \in VariantRow
      <3>1. \A l \in Listings : listing'[l] \in OrNone(ListingRow)
        BY <1>1, <1>2 DEF Transaction, PInv, TypeOK
      <3>2. \A p \in Properties : property'[p] \in OrNone(PropertyRow)
        BY <1>1, <1>2 DEF Transaction, PInv, TypeOK
      <3>3. \A d \in Developments : development'[d] \in DevelopmentRow
        <4> SUFFICES ASSUME NEW d \in Developments PROVE development'[d] \in DevelopmentRow
          OBVIOUS
        <4>1. t.development[d] = None \/ t.development[d] \in DevelopmentRow
          BY <1>1 DEF Transaction, OrNone
        <4>2. QED
          BY <1>2, <4>1 DEF PInv, TypeOK
      <3>4. \A v \in Variants : variant'[v] \in VariantRow
        <4> SUFFICES ASSUME NEW v \in Variants PROVE variant'[v] \in VariantRow
          OBVIOUS
        <4>1. t.variant[v] = None \/ t.variant[v] \in VariantRow
          BY <1>1 DEF Transaction, OrNone
        <4>2. QED
          BY <1>2, <4>1 DEF PInv, TypeOK
      <3>5. QED
        BY <3>1, <3>2, <3>3, <3>4
    <2>2. /\ listing' = [l \in Listings |-> listing'[l]]
          /\ property' = [p \in Properties |-> property'[p]]
          /\ development' = [d \in Developments |-> development'[d]]
          /\ variant' = [v \in Variants |-> variant'[v]]
      BY DEF Saving, Overlay, PInv, TypeOK
    <2>3. txn' \in [Requests -> Transaction] /\ hidden' \subseteq Locations
      BY NoWriteFields DEF Saving, PInv, TypeOK
    <2>4. QED
      BY <2>1, <2>2, <2>3 DEF TypeOK
  <1>6. CleanRows'
    <2>1. \A l \in Listings : listing'[l] # None =>
             /\ CleanListing(listing'[l])
             /\ listing'[l].property # None => property'[listing'[l].property] # None
      BY <1>1, <1>2, <1>4, <1>r DEF PInv, CleanRows, CleanWrites
    <2>2. /\ \A d \in Developments : ArchivedRow(development'[d])
          /\ \A v \in Variants : ArchivedRow(variant'[v])
      BY <1>1, <1>2 DEF PInv, CleanRows, CleanWrites
    <2>3. QED
      BY <2>1, <2>2 DEF CleanRows
  <1>7. \A q \in Requests : CleanWrites(txn[q])' /\ KeepsColumns(txn[q])'
    <2>1. CleanWrites(txn[r])' /\ KeepsColumns(txn[r])'
      BY <1>3, NoWriteFields DEF CleanWrites, KeepsColumns
    <2>2. ASSUME NEW q \in Requests, q # r
          PROVE  CleanWrites(txn[q])' /\ KeepsColumns(txn[q])'
      <3>1. CleanWrites(txn[q])'
        BY <2>2, <1>3, <1>4, <1>r DEF PInv, CleanWrites
      <3>2. \A l \in txn[q].locks : l \in Listings /\ listing'[l] = listing[l]
        <4> SUFFICES ASSUME NEW l \in txn[q].locks
                     PROVE  l \in Listings /\ listing'[l] = listing[l]
          OBVIOUS
        <4>1. l \in Listings
          BY DEF PInv, TypeOK, Transaction
        <4>2. t.listing[l] = None
          BY <2>2, <4>1 DEF Saving
        <4>3. QED
          BY <4>1, <4>2, <1>2
      <3>3. KeepsColumns(txn[q])'
        BY <2>2, <1>3, <3>2 DEF PInv, KeepsColumns
      <3>4. QED
        BY <3>1, <3>3
    <2>3. QED
      BY <2>1, <2>2
  <1>8. LocksAreExclusive'
    BY <1>3, NoWriteFields DEF PInv, LocksAreExclusive
  <1>9. QED
    BY <1>5, <1>6, <1>7, <1>8 DEF PInv

LEMMA CommitKeepsPInv ==
  ASSUME PInv, NEW r \in Requests,
         Commit(r) \/ \E l \in Listings, o \in Offers : GuidedCommit(r, l, o)
  PROVE  PInv'
  <1>1. CASE Commit(r)
    BY <1>1, SavingKeepsPInv DEF Commit, PInv, TypeOK
  <1>2. ASSUME NEW l \in Listings, NEW o \in Offers, GuidedCommit(r, l, o)
        PROVE  PInv'
    <2>1. [listing |-> l, active |-> TRUE] \in OrNone(OfferRow)
      BY DEF OfferRow, OrNone
    <2>2. offer' \in [Offers -> OrNone(OfferRow)] /\ Saving(r)
      BY <1>2, <2>1 DEF GuidedCommit, PInv, TypeOK
    <2>3. QED
      BY <2>2, SavingKeepsPInv
  <1>3. QED
    BY <1>1, <1>2

-----------------------------------------------------------------------------
LEMMA InitPInv == Init => PInv
  <1> SUFFICES ASSUME Init PROVE PInv
    OBVIOUS
  <1>1. TypeOK
    BY NoWriteFields DEF Init, TypeOK, OrNone, DevelopmentRow, VariantRow, Status
  <1>2. CleanRows
    BY DEF Init, CleanRows, ArchivedRow
  <1>3. \A r \in Requests : txn[r] = NoWrite
    BY DEF Init
  <1>4. QED
    BY <1>1, <1>2, <1>3, NoWriteFields DEF PInv, CleanWrites, KeepsColumns, LocksAreExclusive

LEMMA NextKeepsPInv == PInv /\ [Next]_vars => PInv'
  <1> SUFFICES ASSUME PInv, [Next]_vars PROVE PInv'
    OBVIOUS
  <1>1. CASE ListingStep
    BY <1>1, PublishKeepsPInv, ArchiveKeepsPInv, RestoreKeepsPInv, SetPublicStatusKeepsPInv,
       ListingEditKeepsPInv, DirectKeepsPInv DEF ListingStep
  <1>2. CASE GuidedStep
    BY <1>2, GuidedEditSingleKeepsPInv, GuidedEditPooledKeepsPInv,
       GuidedCreateSingleKeepsPInv, GuidedCreatePooledKeepsPInv DEF GuidedStep
  <1>3. CASE CatalogueStep
    BY <1>3, CatalogueKeepsPInv, DirectKeepsPInv DEF CatalogueStep
  <1>4. CASE EndStep
    BY <1>4, CommitKeepsPInv, AbortKeepsPInv DEF EndStep
  <1>5. CASE UNCHANGED vars
    BY <1>5 DEF vars, PInv, TypeOK, CleanRows, CleanWrites, KeepsColumns, LocksAreExclusive
  <1>6. QED
    BY <1>1, <1>2, <1>3, <1>4, <1>5 DEF Next

LEMMA PInvariance == Spec => []PInv
  BY InitPInv, NextKeepsPInv, PTL DEF Spec

(* Every table holds rows of its model, however the requests interleave.    *)
THEOREM TypeCorrect == Spec => []TypeOK
  BY PInvariance, PTL DEF PInv

(* No interleaving of stale saves leaves a row whose archived_at disagrees  *)
(* with its status (Listing.clean, Development.clean, Variant.clean).       *)
THEOREM AlwaysArchivedTogether == Spec => []ArchivedTogether
  <1>1. PInv => ArchivedTogether
    BY DEF PInv, CleanRows, CleanListing, ArchivedTogether
  <1>2. QED
    BY <1>1, PInvariance, PTL

(* Whatever save of a published listing came last, it has published_at,     *)
(* by which listing_index orders the page.                                  *)
THEOREM PublishedIsAlwaysDated == Spec => []PublishedIsDated
  <1>1. PInv => PublishedIsDated
    BY DEF PInv, CleanRows, CleanListing, PublishedIsDated
  <1>2. QED
    BY <1>1, PInvariance, PTL

(* ListingQuerySet.public and Listing.is_publicly_available agree on every  *)
(* row in every reachable state, with racing requests too.                  *)
THEOREM PublicPagesAlwaysAgree == Spec => []PublicPagesAgree
  <1>1. PInv => PublicPagesAgree
    BY DEF PInv, CleanRows, CleanListing, PublicPagesAgree, InPublicQuery, IsPubliclyAvailable
  <1>2. QED
    BY <1>1, PInvariance, PTL

(* The rows of listings, developments and house models change when a        *)
(* request saves; else only a listing can be created.                       *)
LEMMA WhoWrites ==
  ASSUME [Next]_vars
  PROVE  \/ \E q \in Requests : Saving(q)
         \/ /\ UNCHANGED <<development, variant>>
            /\ \/ UNCHANGED listing
               \/ \E k \in Listings, t \in Targets, s \in PublicStatus : ListingCreate(k, t, s)
  <1> DEFINE Quiet == UNCHANGED <<listing, development, variant>>
  <1>s. ASSUME NEW r, NEW op, NEW w, Start(r, op, w)
        PROVE  Quiet
    BY <1>s DEF Start, db
  <1> HIDE DEF Quiet
  <1>1. CASE ListingStep
    <2>1. ASSUME NEW r, NEW op, NEW l, NEW row, LockedChange(r, op, l, row)
          PROVE  Quiet
      BY <2>1, <1>s DEF LockedChange
    <2>2. ASSUME NEW r, NEW l, NEW t, NEW s, ListingEdit(r, l, t, s)
          PROVE  Quiet
      BY <2>2, <1>s DEF ListingEdit
    <2>3. ASSUME NEW o, NEW l, NEW a, OfferSave(o, l, a)
          PROVE  Quiet
      BY <2>3 DEF OfferSave, Quiet
    <2>4. \/ Quiet
          \/ \E k \in Listings, t \in Targets, s \in PublicStatus : ListingCreate(k, t, s)
      BY <1>1, <2>1, <2>2, <2>3
         DEF ListingStep, PublishListing, ArchiveListing, RestoreListing, SetPublicStatus
    <2>5. QED
      BY <2>4 DEF Quiet, ListingCreate
  <1>2. CASE GuidedStep
    <2>1. ASSUME NEW q, NEW k, NEW f, NEW loc, NEW s, GuidedEditSingle(q, k, f, loc, s)
          PROVE  Quiet
      BY <2>1, <1>s DEF GuidedEditSingle
    <2>2. ASSUME NEW q, NEW k, NEW p, NEW f, NEW loc, NEW s,
                 GuidedCreateSingle(q, k, p, f, loc, s)
          PROVE  Quiet
      BY <2>2, <1>s DEF GuidedCreateSingle
    <2>3. ASSUME NEW q, NEW k, NEW v, NEW s,
                 GuidedEditPooled(q, k, v, s) \/ GuidedCreatePooled(q, k, v, s)
          PROVE  Quiet
      BY <2>3, <1>s DEF GuidedEditPooled, GuidedCreatePooled
    <2>4. Quiet
      BY <1>2, <2>1, <2>2, <2>3 DEF GuidedStep
    <2>5. QED
      BY <2>4 DEF Quiet
  <1>3. CASE CatalogueStep
    <2>1. ASSUME NEW loc, NEW h, LocationEdit(loc, h)
          PROVE  Quiet
      BY <2>1 DEF LocationEdit, Quiet
    <2>2. Quiet
      BY <1>3, <2>1, <1>s DEF CatalogueStep, PropertySave, DevelopmentEdit,
         ArchiveDevelopment, ReactivateDevelopment, VariantEdit, ArchiveVariant,
         ReactivateVariant, RestoreDevelopment, RestoreVariant
    <2>3. QED
      BY <2>2 DEF Quiet
  <1>4. CASE EndStep
    BY <1>4 DEF EndStep, Commit, GuidedCommit, Abort, db
  <1>5. CASE UNCHANGED vars
    BY <1>5 DEF vars
  <1>6. QED
    BY <1>1, <1>2, <1>3, <1>4, <1>5 DEF Next

(* The functions of listings/services.py overwrite no column but their own, *)
(* however many forms and services save the listing meanwhile.              *)
THEOREM ServicesNeverLoseAnUpdate == Spec => ServicesLoseNoUpdate
  <1>1. ASSUME PInv, [Next]_vars, NEW r \in Requests, NEW l \in Listings,
               txn[r].op \in ServiceOperations, txn'[r] = NoWrite, txn[r].listing[l] # None
        PROVE  /\ listing[l] # None
               /\ \A c \in (DOMAIN listing[l]) \ Assigns(txn[r].op) :
                     listing'[l][c] = listing[l][c]
    <2>0. l \in txn[r].locks
      BY <1>1 DEF PInv, KeepsColumns
    <2>1. /\ listing[l] # None
          /\ txn[r].listing[l] # None =>
                \A c \in Columns \ Assigns(txn[r].op) :
                    txn[r].listing[l][c] = listing[l][c]
      BY <1>1, <2>0 DEF PInv, KeepsColumns
    <2>2. DOMAIN listing[l] = Columns
      BY <1>1, <2>1 DEF PInv, TypeOK, OrNone, ListingRow, Columns
    <2>3. listing'[l] = listing[l] \/ (txn[r].listing[l] # None /\ listing'[l] = txn[r].listing[l])
      <3>1. ASSUME NEW q \in Requests, Saving(q)
            PROVE  listing'[l] = listing[l]
                   \/ (txn[r].listing[l] # None /\ listing'[l] = txn[r].listing[l])
        <4>1. CASE q = r
          BY <1>1, <3>1, <4>1 DEF Saving, Overlay, PInv, TypeOK
        <4>2. CASE q # r
          BY <1>1, <3>1, <4>2, NoWriteFields DEF Saving, PInv, TypeOK
        <4>3. QED
          BY <4>1, <4>2
      <3>2. CASE UNCHANGED listing
        BY <3>2
      <3>3. CASE \E k \in Listings, t \in Targets, s \in PublicStatus : ListingCreate(k, t, s)
        BY <2>1, <3>3 DEF ListingCreate, NewListing, PInv, TypeOK
      <3>4. QED
        BY <1>1, <3>1, <3>2, <3>3, WhoWrites
    <2>4. QED
      BY <2>1, <2>2, <2>3
  <1>2. PInv /\ [Next]_vars =>
          [\A r \in Requests, l \in Listings :
              /\ txn[r].op \in ServiceOperations /\ txn'[r] = NoWrite
              /\ txn[r].listing[l] # None
              => /\ listing[l] # None
                 /\ \A c \in (DOMAIN listing[l]) \ Assigns(txn[r].op) :
                       listing'[l][c] = listing[l][c]]_vars
    BY <1>1
  <1>3. QED
    BY <1>2, PInvariance, PTL DEF Spec, ServicesLoseNoUpdate

-----------------------------------------------------------------------------
(* One request after another.  (Two that overlap can archive a development  *)
(* under a published listing, see the run PublishingArchiveRace.)           *)
OneBusy == \A q, r \in Requests : txn[q] # NoWrite /\ txn[r] # NoWrite => q = r

LEMMA StartsAlone ==
  ASSUME TypeOK, OneBusy', NEW r \in Requests, NEW op, NEW w, Start(r, op, w),
         "op" \in DOMAIN w, NEW q \in Requests
  PROVE  txn'[q] = IF q = r THEN [w EXCEPT !.op = op] ELSE NoWrite
  <1>1. txn'[r] = [w EXCEPT !.op = op]
    BY DEF Start, TypeOK
  <1>2. txn'[r].op \in AllOperations
    BY <1>1, OperationsAssumption DEF Start
  <1>3. txn'[r] # NoWrite
    BY <1>2, NoWriteFields DEF AllOperations
  <1>4. QED
    BY <1>1, <1>3 DEF OneBusy

LEMMA EndsAlone ==
  ASSUME TypeOK, OneBusy, EndStep
  PROVE  \A q \in Requests : txn'[q] = NoWrite
  <1>1. PICK r \in Requests : txn[r].op # "none" /\ txn' = [txn EXCEPT ![r] = NoWrite]
    BY DEF EndStep, Commit, GuidedCommit, Saving, Abort
  <1>2. txn[r] # NoWrite
    BY <1>1, NoWriteFields
  <1>3. QED
    BY <1>1, <1>2 DEF OneBusy, TypeOK

(* What Development.clean saw when a request began still holds when its     *)
(* save of an archived development commits.                                 *)
Archiving(t, d) ==
    /\ t.development[d] # None
    /\ t.development[d].status = "ARCHIVED"
    /\ development[d].status # "ARCHIVED"
FreeToArchive ==
    \A r \in Requests, d \in Developments :
        Archiving(txn[r], d) => PublishedListings(d) = {}

-----------------------------------------------------------------------------
(* A request that begins is the only one, and brings its own writes.        *)
LEMMA StartedWrites ==
  ASSUME TypeOK, OneBusy', NEW r \in Requests, NEW op, NEW w, Start(r, op, w),
         {"op", "development"} \subseteq DOMAIN w, NEW q \in Requests
  PROVE  /\ txn'[q].development = IF q = r THEN w.development ELSE NoWrite.development
         /\ UNCHANGED <<listing, property, development, variant>>
  <1>1. txn'[q] = IF q = r THEN [w EXCEPT !.op = op] ELSE NoWrite
    BY StartsAlone
  <1>2. [w EXCEPT !.op = op].development = w.development
    OBVIOUS
  <1>3. QED
    BY <1>1, <1>2 DEF Start, db

LEMMA QuietStart ==
  ASSUME TypeOK, OneBusy', NEW r \in Requests, NEW op, NEW w, Start(r, op, w),
         {"op", "development"} \subseteq DOMAIN w, w.development = NoWrite.development
  PROVE  FreeToArchive'
  <1>1. ASSUME NEW q \in Requests, NEW d \in Developments
        PROVE  txn'[q].development[d] = None
    BY StartedWrites, NoWriteFields
  <1>2. QED
    BY <1>1 DEF FreeToArchive, Archiving

(* The writes of a listing, a property or a house model are no writes of a  *)
(* development.                                                             *)
LEMMA OtherWrites ==
  ASSUME NEW a, NEW l, NEW row, NEW p, NEW prop, NEW v
  PROVE  /\ LET w == [NoWrite EXCEPT !.locks = a, !.listing[l] = row]
            IN {"op", "development"} \subseteq DOMAIN w /\ w.development = NoWrite.development
         /\ LET w == [NoWrite EXCEPT !.listing[l] = row]
            IN {"op", "development"} \subseteq DOMAIN w /\ w.development = NoWrite.development
         /\ LET w == [NoWrite EXCEPT !.listing[l] = row, !.property[p] = prop]
            IN {"op", "development"} \subseteq DOMAIN w /\ w.development = NoWrite.development
         /\ LET w == [NoWrite EXCEPT !.property[p] = prop]
            IN {"op", "development"} \subseteq DOMAIN w /\ w.development = NoWrite.development
         /\ LET w == [NoWrite EXCEPT !.variant[v] = row]
            IN {"op", "development"} \subseteq DOMAIN w /\ w.development = NoWrite.development
  BY DEF NoWrite

(* A development is archived by a request that has looked for its published *)
(* listings.                                                                *)
LEMMA ArchivingStart ==
  ASSUME TypeOK, OneBusy', NEW r \in Requests, NEW op, NEW d \in Developments, NEW row,
         Start(r, op, [NoWrite EXCEPT !.development[d] = row]),
         row.status = "ARCHIVED" /\ development[d].status # "ARCHIVED" =>
             PublishedListings(d) = {}
  PROVE  FreeToArchive'
  <1> DEFINE w == [NoWrite EXCEPT !.development[d] = row]
  <1>1. /\ {"op", "development"} \subseteq DOMAIN w
        /\ w.development = [NoWrite.development EXCEPT ![d] = row]
    BY DEF NoWrite
  <1>2. Start(r, op, w)
    OBVIOUS
  <1> HIDE DEF w
  <1>3. ASSUME NEW q \in Requests, NEW e \in Developments, Archiving(txn[q], e)'
        PROVE  PublishedListings(e)' = {}
    <2>1. /\ \/ txn'[q].development = [NoWrite.development EXCEPT ![d] = row]
             \/ txn'[q].development = NoWrite.development
          /\ UNCHANGED <<listing, property, development, variant>>
      BY <1>1, <1>2, StartedWrites
    <2>2. e = d /\ row.status = "ARCHIVED" /\ development[d].status # "ARCHIVED"
      BY <1>3, <2>1, NoWriteFields DEF Archiving
    <2>3. PublishedListings(d)' = PublishedListings(d)
      BY <2>1 DEF PublishedListings
    <2>4. QED
      BY <2>2, <2>3
  <1>4. QED
    BY <1>3 DEF FreeToArchive

-----------------------------------------------------------------------------
(* New rows of listings are drafts: they are published by nobody yet.       *)
LEMMA CreateKeepsFree ==
  ASSUME PInv, FreeToArchive, NEW l \in Listings, NEW t \in Targets, NEW s \in PublicStatus,
         ListingCreate(l, t, s)
  PROVE  FreeToArchive'
  <1>1. /\ UNCHANGED <<property, development, variant, txn>>
        /\ listing[l] = None
        /\ listing' = [listing EXCEPT ![l] = Draft(t.property, t.variant, s)]
    BY DEF ListingCreate, NewListing
  <1>2. \A k \in Listings :
           listing'[k] = listing[k]
           \/ listing'[k].workflow_status = "DRAFT"
    BY <1>1 DEF PInv, TypeOK, Draft
  <1>3. ASSUME NEW d \in Developments, PublishedListings(d) = {}
        PROVE  PublishedListings(d)' = {}
    BY <1>1, <1>2, <1>3 DEF PublishedListings
  <1>4. ASSUME NEW r \in Requests, NEW d \in Developments, Archiving(txn[r], d)'
        PROVE  Archiving(txn[r], d)
    BY <1>1, <1>4 DEF Archiving
  <1>5. QED
    BY <1>3, <1>4 DEF FreeToArchive

LEMMA ListingStepKeepsFree ==
  ASSUME PInv, FreeToArchive, OneBusy', ListingStep
  PROVE  FreeToArchive'
  <1> USE DEF PInv
  <1>1. ASSUME NEW r \in Requests, NEW l \in Listings, NEW op, NEW row, LockedChange(r, op, l, row)
        PROVE  FreeToArchive'
    BY <1>1, QuietStart, OtherWrites DEF LockedChange
  <1>2. ASSUME NEW r \in Requests, NEW l \in Listings, NEW t \in Targets, NEW s \in PublicStatus,
               ListingEdit(r, l, t, s)
        PROVE  FreeToArchive'
    BY <1>2, QuietStart, OtherWrites DEF ListingEdit
  <1>3. ASSUME NEW o \in Offers, NEW l \in Listings, NEW a \in BOOLEAN, OfferSave(o, l, a)
        PROVE  FreeToArchive'
    BY <1>3 DEF OfferSave, FreeToArchive, Archiving, PublishedListings
  <1>4. QED
    BY <1>1, <1>2, <1>3, CreateKeepsFree
       DEF ListingStep, PublishListing, ArchiveListing, RestoreListing, SetPublicStatus

LEMMA GuidedStepKeepsFree ==
  ASSUME PInv, FreeToArchive, OneBusy', GuidedStep
  PROVE  FreeToArchive'
  <1> USE DEF PInv
  <1>1. ASSUME NEW r \in Requests, NEW l, NEW f, NEW loc, NEW s, GuidedEditSingle(r, l, f, loc, s)
        PROVE  FreeToArchive'
    BY <1>1, QuietStart, OtherWrites DEF GuidedEditSingle
  <1>2. ASSUME NEW r \in Requests, NEW l, NEW p, NEW f, NEW loc, NEW s,
               GuidedCreateSingle(r, l, p, f, loc, s)
        PROVE  FreeToArchive'
    BY <1>2, QuietStart, OtherWrites DEF GuidedCreateSingle
  <1>3. ASSUME NEW r \in Requests, NEW l, NEW v, NEW s,
               GuidedEditPooled(r, l, v, s) \/ GuidedCreatePooled(r, l, v, s)
        PROVE  FreeToArchive'
    BY <1>3, QuietStart, OtherWrites DEF GuidedEditPooled, GuidedCreatePooled
  <1>4. QED
    BY <1>1, <1>2, <1>3 DEF GuidedStep

LEMMA CatalogueStepKeepsFree ==
  ASSUME PInv, FreeToArchive, OneBusy', CatalogueStep
  PROVE  FreeToArchive'
  <1> USE DEF PInv
  <1>1. ASSUME NEW r \in Requests, NEW p, NEW row, PropertySave(r, p, row)
        PROVE  FreeToArchive'
    BY <1>1, QuietStart, OtherWrites DEF PropertySave
  <1>2. ASSUME NEW r \in Requests, NEW d \in Developments, NEW s, NEW loc,
               DevelopmentEdit(r, d, s, loc)
        PROVE  FreeToArchive'
    <2>1. PICK row :
             /\ DevelopmentClean(row, d)
             /\ Stamped(row).status = row.status
             /\ Start(r, "development_edit", [NoWrite EXCEPT !.development[d] = Stamped(row)])
      BY <1>2 DEF DevelopmentEdit, Stamped
    <2>2. QED
      BY <2>1, ArchivingStart DEF DevelopmentClean
  <1>3. ASSUME NEW r \in Requests, NEW d \in Developments, ArchiveDevelopment(r, d)
        PROVE  FreeToArchive'
    <2>1. PICK row :
             /\ DevelopmentClean(row, d)
             /\ Start(r, "archive_record", [NoWrite EXCEPT !.development[d] = row])
      BY <1>3 DEF ArchiveDevelopment
    <2>2. QED
      BY <2>1, ArchivingStart DEF DevelopmentClean
  <1>4. ASSUME NEW r \in Requests, NEW d \in Developments, ReactivateDevelopment(r, d)
        PROVE  FreeToArchive'
    <2>1. PICK row :
             /\ row.status = "DRAFT"
             /\ Start(r, "reactivate_record", [NoWrite EXCEPT !.development[d] = row])
      BY <1>4 DEF ReactivateDevelopment, TypeOK, DevelopmentRow
    <2>2. QED
      BY <2>1, ArchivingStart
  <1>5. ASSUME NEW r \in Requests, NEW v \in Variants, NEW s, NEW d,
               VariantEdit(r, v, s, d) \/ ArchiveVariant(r, v) \/ ReactivateVariant(r, v)
        PROVE  FreeToArchive'
    BY <1>5, QuietStart, OtherWrites DEF VariantEdit, ArchiveVariant, ReactivateVariant
  <1>8. ASSUME NEW r \in Requests, NEW d \in Developments, NEW row, RestoreDevelopment(r, d, row)
        PROVE  FreeToArchive'
    BY <1>8, ArchivingStart DEF RestoreDevelopment, DevelopmentClean
  <1>9. ASSUME NEW r \in Requests, NEW v \in Variants, NEW row, RestoreVariant(r, v, row)
        PROVE  FreeToArchive'
    BY <1>9, QuietStart, OtherWrites DEF RestoreVariant
  <1>6. ASSUME NEW loc, NEW h, LocationEdit(loc, h)
        PROVE  FreeToArchive'
    BY <1>6 DEF LocationEdit, FreeToArchive, Archiving, PublishedListings
  <1>7. QED
    BY <1>1, <1>2, <1>3, <1>4, <1>5, <1>6, <1>8, <1>9 DEF CatalogueStep

(* A request that ends leaves nothing pending.                              *)
LEMMA EndStepKeepsFree ==
  ASSUME PInv, OneBusy, EndStep
  PROVE  FreeToArchive'
  <1>1. \A q \in Requests : txn'[q] = NoWrite
    BY EndsAlone DEF PInv
  <1>2. QED
    BY <1>1, NoWriteFields DEF FreeToArchive, Archiving

LEMMA FreeInvariance == Spec /\ []OneBusy => [](PInv /\ FreeToArchive)
  <1>1. Init => PInv /\ FreeToArchive
    <2>1. Init => FreeToArchive
      BY NoWriteFields DEF Init, FreeToArchive, Archiving
    <2>2. QED
      BY <2>1, InitPInv
  <1>2. PInv /\ FreeToArchive /\ OneBusy /\ OneBusy' /\ [Next]_vars => (PInv /\ FreeToArchive)'
    <2>1. ASSUME FreeToArchive, UNCHANGED vars
          PROVE  FreeToArchive'
      BY <2>1 DEF vars, FreeToArchive, Archiving, PublishedListings
    <2>2. QED
      BY <2>1, NextKeepsPInv, ListingStepKeepsFree, GuidedStepKeepsFree,
         CatalogueStepKeepsFree, EndStepKeepsFree DEF Next
  <1>3. QED
    BY <1>1, <1>2, PTL DEF Spec

-----------------------------------------------------------------------------
(* Only a save that has a row for the development changes its status.       *)
LEMMA StepArchives ==
  ASSUME PInv, FreeToArchive, [Next]_vars, NEW d \in Developments,
         development[d].status # "ARCHIVED", development'[d].status = "ARCHIVED"
  PROVE  PublishedListings(d) = {}
  <1>1. PICK r \in Requests : Saving(r)
    BY WhoWrites
  <1>2. Archiving(txn[r], d)
    BY <1>1 DEF Saving, Overlay, PInv, TypeOK, Archiving
  <1>3. QED
    BY <1>2 DEF FreeToArchive

(* One request after another, no development is archived under a published      *)
(* listing: the query of Development.clean misses no path from a listing to *)
(* its development, and what it saw holds until the save.                   *)
THEOREM SerialArchiveRespectsDependants == Spec /\ []OneBusy => ArchiveRespectsDependants
  <1>1. ASSUME PInv, NEW d \in Developments, PublishedListings(d) = {},
               NEW l \in Listings, listing[l] # None, listing[l].workflow_status = "PUBLISHED"
        PROVE  d \notin DevelopmentsOf(listing[l])
    BY <1>1 DEF PInv, CleanRows, CleanListing, PublishedListings, DevelopmentsOf
  <1>2. PInv /\ FreeToArchive /\ [Next]_vars =>
          [\A d \in Developments :
              development[d].status # "ARCHIVED" /\ development'[d].status = "ARCHIVED"
              => \A l \in Listings :
                    listing[l] # None /\ listing[l].workflow_status = "PUBLISHED" =>
                        d \notin DevelopmentsOf(listing[l])]_vars
    BY <1>1, StepArchives
  <1>3. QED
    BY <1>2, FreeInvariance, PTL DEF Spec, ArchiveRespectsDependants

-----------------------------------------------------------------------------
(* What a request is going to save does not publish unless it publishes,    *)
(* and takes nothing out of the archive but as a draft, unless it restores  *)
(* a revision.                                                              *)
HonestWrites(t) ==
    /\ \A l \in Listings :
          t.listing[l] # None /\ t.listing[l].workflow_status = "PUBLISHED" =>
              \/ t.op = "publish"
              \/ listing[l] # None /\ listing[l].workflow_status = "PUBLISHED"
    /\ \A d \in Developments :
          t.development[d] # None /\ development[d].status = "ARCHIVED" =>
              t.op = "restore_revision" \/ t.development[d].status \in {"ARCHIVED", "DRAFT"}
    /\ \A v \in Variants :
          t.variant[v] # None /\ variant[v].status = "ARCHIVED" =>
              t.op = "restore_revision" \/ t.variant[v].status \in {"ARCHIVED", "DRAFT"}
Honest == \A r \in Requests : HonestWrites(txn[r])

(* The rows of a request that begins.                                       *)
RowColumns == {"op", "locks", "listing", "property", "development", "variant"}

LEMMA StartedRows ==
  ASSUME TypeOK, OneBusy', NEW r \in Requests, NEW op, NEW w, Start(r, op, w),
         DOMAIN w = RowColumns, NEW q \in Requests
  PROVE  /\ q = r => /\ txn'[q].listing = w.listing /\ txn'[q].development = w.development
                    /\ txn'[q].variant = w.variant /\ txn'[q].op = op
         /\ q # r => txn'[q] = NoWrite
         /\ UNCHANGED <<listing, development, variant>>
  <1>1. txn'[q] = IF q = r THEN [w EXCEPT !.op = op] ELSE NoWrite
    BY StartsAlone DEF RowColumns
  <1>2. /\ [w EXCEPT !.op = op].listing = w.listing
        /\ [w EXCEPT !.op = op].development = w.development
        /\ [w EXCEPT !.op = op].variant = w.variant
        /\ [w EXCEPT !.op = op].op = op
    BY DEF RowColumns
  <1>3. QED
    BY <1>1, <1>2 DEF Start, db

(* A save of one listing, and of no development or house model.             *)
SavesListing(w, l, row) ==
    /\ DOMAIN w = RowColumns
    /\ w.listing = [NoWrite.listing EXCEPT ![l] = row]
    /\ w.development = NoWrite.development
    /\ w.variant = NoWrite.variant

LEMMA ListingRows ==
  ASSUME NEW a, NEW l, NEW row, NEW p, NEW prop
  PROVE  /\ SavesListing([NoWrite EXCEPT !.locks = a, !.listing[l] = row], l, row)
         /\ SavesListing([NoWrite EXCEPT !.listing[l] = row], l, row)
         /\ SavesListing([NoWrite EXCEPT !.listing[l] = row, !.property[p] = prop], l, row)
  BY DEF NoWrite, RowColumns, SavesListing

LEMMA IdleIsHonest ==
  ASSUME NEW q \in Requests, txn'[q] = NoWrite
  PROVE  HonestWrites(txn[q])'
  BY NoWriteFields DEF HonestWrites

LEMMA ListingHonest ==
  ASSUME TypeOK, OneBusy', NEW r \in Requests, NEW op, NEW w, Start(r, op, w),
         NEW l \in Listings, NEW row, SavesListing(w, l, row),
         row.workflow_status = "PUBLISHED" =>
             \/ op = "publish"
             \/ listing[l] # None /\ listing[l].workflow_status = "PUBLISHED"
  PROVE  Honest'
  <1> SUFFICES ASSUME NEW q \in Requests PROVE HonestWrites(txn[q])'
    BY DEF Honest
  <1>1. CASE q = r
    <2>1. /\ txn'[q].listing = [NoWrite.listing EXCEPT ![l] = row]
          /\ txn'[q].development = NoWrite.development
          /\ txn'[q].variant = NoWrite.variant
          /\ txn'[q].op = op
          /\ UNCHANGED <<listing, development, variant>>
      BY <1>1, StartedRows DEF SavesListing
    <2>2. QED
      BY <2>1, NoWriteFields DEF HonestWrites
  <1>2. CASE q # r
    BY <1>2, StartedRows, IdleIsHonest DEF SavesListing
  <1>3. QED
    BY <1>1, <1>2

(* What clean() leaves of the workflow status.                              *)
LEMMA CleanedStatus ==
  ASSUME NEW row \in ListingRow
  PROVE  Cleaned(row).workflow_status = row.workflow_status
  BY DEF Cleaned, ListingRow

LEMMA LockedHonest ==
  ASSUME TypeOK, OneBusy', NEW r \in Requests, NEW op, NEW l \in Listings,
         NEW row \in ListingRow, LockedChange(r, op, l, row),
         row.workflow_status = "PUBLISHED" =>
             op = "publish" \/ listing[l].workflow_status = "PUBLISHED"
  PROVE  Honest'
  <1>1. /\ Existing(listing, l)
        /\ Start(r, op, [NoWrite EXCEPT !.locks = {l}, !.listing[l] = Cleaned(row)])
    BY DEF LockedChange
  <1>2. SavesListing([NoWrite EXCEPT !.locks = {l}, !.listing[l] = Cleaned(row)],
                     l, Cleaned(row))
    BY ListingRows
  <1>3. QED
    BY <1>1, <1>2, CleanedStatus, ListingHonest DEF Existing

LEMMA ServicesAreHonest ==
  ASSUME PInv, OneBusy', NEW r \in Requests, NEW l \in Listings,
         \/ PublishListing(r, l)
         \/ ArchiveListing(r, l)
         \/ RestoreListing(r, l)
         \/ \E s \in PublicStatus : SetPublicStatus(r, l, s)
  PROVE  Honest'
  <1>1. TypeOK /\ listing[l] \in ListingRow
    BY ExistingListing DEF PInv, PublishListing, ArchiveListing, RestoreListing,
       SetPublicStatus, LockedChange
  <1>2. CASE PublishListing(r, l)
    <2> DEFINE row == [listing[l] EXCEPT !.workflow_status = "PUBLISHED", !.archived_at = FALSE,
                                         !.published_at = TRUE]
    <2>1. row \in ListingRow
      BY <1>1 DEF ListingRow, WorkflowStatus
    <2>2. LockedChange(r, "publish", l, row)
      BY <1>2 DEF PublishListing
    <2> HIDE DEF row
    <2>3. QED
      BY <1>1, <2>1, <2>2, LockedHonest
  <1>3. CASE ArchiveListing(r, l)
    <2> DEFINE row == [listing[l] EXCEPT !.workflow_status = "ARCHIVED", !.archived_at = TRUE]
    <2>1. row \in ListingRow /\ row.workflow_status = "ARCHIVED"
      BY <1>1 DEF ListingRow, WorkflowStatus
    <2>2. LockedChange(r, "archive", l, row)
      BY <1>3 DEF ArchiveListing
    <2> HIDE DEF row
    <2>3. QED
      BY <1>1, <2>1, <2>2, LockedHonest
  <1>4. CASE RestoreListing(r, l)
    <2> DEFINE row == [listing[l] EXCEPT !.workflow_status = "DRAFT", !.archived_at = FALSE]
    <2>1. row \in ListingRow /\ row.workflow_status = "DRAFT"
      BY <1>1 DEF ListingRow, WorkflowStatus
    <2>2. LockedChange(r, "restore", l, row)
      BY <1>4 DEF RestoreListing
    <2> HIDE DEF row
    <2>3. QED
      BY <1>1, <2>1, <2>2, LockedHonest
  <1>5. ASSUME NEW s \in PublicStatus, SetPublicStatus(r, l, s)
        PROVE  Honest'
    <2> DEFINE row == [listing[l] EXCEPT !.public_status = s]
    <2>1. row \in ListingRow /\ row.workflow_status = listing[l].workflow_status
      BY <1>1 DEF ListingRow
    <2>2. LockedChange(r, "set_public_status", l, row)
      BY <1>5 DEF SetPublicStatus
    <2> HIDE DEF row
    <2>3. QED
      BY <1>1, <2>1, <2>2, LockedHonest
  <1>6. QED
    BY <1>2, <1>3, <1>4, <1>5

LEMMA FormsAreHonest ==
  ASSUME PInv, OneBusy', NEW r \in Requests, NEW l \in Listings, NEW s \in PublicStatus,
         \/ \E t \in Targets : ListingEdit(r, l, t, s)
         \/ \E f \in FormPlacements, loc \in Locations :
               \/ GuidedEditSingle(r, l, f, loc, s)
               \/ \E p \in Properties : GuidedCreateSingle(r, l, p, f, loc, s)
         \/ \E v \in Variants : GuidedEditPooled(r, l, v, s) \/ GuidedCreatePooled(r, l, v, s)
  PROVE  Honest'
  <1>a. TypeOK
    BY DEF PInv
  <1>b. Existing(listing, l) => listing[l] \in ListingRow /\ listing[l] # None
    BY ExistingListing DEF Existing
  <1>1. ASSUME NEW t \in Targets, ListingEdit(r, l, t, s)
        PROVE  Honest'
    <2> DEFINE row == [listing[l] EXCEPT !.property = t.property, !.variant = t.variant,
                                         !.public_status = s]
    <2>1. /\ row \in ListingRow /\ row.workflow_status = listing[l].workflow_status
          /\ listing[l] # None
      BY <1>b, <1>1, TargetFields DEF ListingEdit, ListingRow
    <2>2. Start(r, "listing_edit", [NoWrite EXCEPT !.listing[l] = Cleaned(row)])
      BY <1>1 DEF ListingEdit
    <2> HIDE DEF row
    <2>3. SavesListing([NoWrite EXCEPT !.listing[l] = Cleaned(row)], l, Cleaned(row))
      BY ListingRows
    <2>4. QED
      BY <1>a, <2>1, <2>2, <2>3, CleanedStatus, ListingHonest
  <1>2. ASSUME NEW f \in FormPlacements, NEW loc \in Locations, GuidedEditSingle(r, l, f, loc, s)
        PROVE  Honest'
    <2> DEFINE p == listing[l].property
               prop == [property[p] EXCEPT !.development = f.development,
                                           !.variant = f.variant, !.location = loc]
               row == [listing[l] EXCEPT !.public_status = s]
    <2>1. /\ row \in ListingRow /\ row.workflow_status = listing[l].workflow_status
          /\ listing[l] # None
      BY <1>b, <1>2 DEF GuidedEditSingle, ListingRow
    <2>2. Start(r, "guided_edit",
                [NoWrite EXCEPT !.listing[l] = Cleaned(row), !.property[p] = prop])
      BY <1>2 DEF GuidedEditSingle
    <2> HIDE DEF p, prop, row
    <2>3. SavesListing([NoWrite EXCEPT !.listing[l] = Cleaned(row), !.property[p] = prop],
                       l, Cleaned(row))
      BY ListingRows
    <2>4. QED
      BY <1>a, <2>1, <2>2, <2>3, CleanedStatus, ListingHonest
  <1>3. ASSUME NEW p \in Properties, NEW f \in FormPlacements, NEW loc \in Locations,
               GuidedCreateSingle(r, l, p, f, loc, s)
        PROVE  Honest'
    <2> DEFINE prop == [development |-> f.development, variant |-> f.variant,
                        location |-> loc, inventory_status |-> "AVAILABLE"]
               row == Draft(p, None, s)
    <2>1. row.workflow_status = "DRAFT"
      BY DEF Draft
    <2>2. Start(r, "guided_create", [NoWrite EXCEPT !.listing[l] = row, !.property[p] = prop])
      BY <1>3 DEF GuidedCreateSingle
    <2> HIDE DEF prop, row
    <2>3. SavesListing([NoWrite EXCEPT !.listing[l] = row, !.property[p] = prop], l, row)
      BY ListingRows
    <2>4. QED
      BY <1>a, <2>1, <2>2, <2>3, ListingHonest
  <1>4. ASSUME NEW v \in Variants, GuidedEditPooled(r, l, v, s)
        PROVE  Honest'
    <2> DEFINE row == [listing[l] EXCEPT !.variant = v, !.public_status = s]
    <2>1. /\ row \in ListingRow /\ row.workflow_status = listing[l].workflow_status
          /\ listing[l] # None
      BY <1>b, <1>4 DEF GuidedEditPooled, ListingRow, OrNone
    <2>2. Start(r, "guided_edit", [NoWrite EXCEPT !.listing[l] = Cleaned(row)])
      BY <1>4 DEF GuidedEditPooled
    <2> HIDE DEF row
    <2>3. SavesListing([NoWrite EXCEPT !.listing[l] = Cleaned(row)], l, Cleaned(row))
      BY ListingRows
    <2>4. QED
      BY <1>a, <2>1, <2>2, <2>3, CleanedStatus, ListingHonest
  <1>5. ASSUME NEW v \in Variants, GuidedCreatePooled(r, l, v, s)
        PROVE  Honest'
    <2> DEFINE row == Draft(None, v, s)
    <2>1. row.workflow_status = "DRAFT"
      BY DEF Draft
    <2>2. Start(r, "guided_create", [NoWrite EXCEPT !.listing[l] = row])
      BY <1>5 DEF GuidedCreatePooled
    <2> HIDE DEF row
    <2>3. SavesListing([NoWrite EXCEPT !.listing[l] = row], l, row)
      BY ListingRows
    <2>4. QED
      BY <1>a, <2>1, <2>2, <2>3, ListingHonest
  <1>6. QED
    BY <1>1, <1>2, <1>3, <1>4, <1>5

(* Saves of the catalogue.                                                  *)
LEMMA PropertyHonest ==
  ASSUME TypeOK, OneBusy', NEW r \in Requests, NEW op, NEW p, NEW row,
         Start(r, op, [NoWrite EXCEPT !.property[p] = row])
  PROVE  Honest'
  <1> DEFINE w == [NoWrite EXCEPT !.property[p] = row]
  <1>1. /\ DOMAIN w = RowColumns /\ w.listing = NoWrite.listing
        /\ w.development = NoWrite.development /\ w.variant = NoWrite.variant
    BY DEF NoWrite, RowColumns
  <1>2. Start(r, op, w)
    OBVIOUS
  <1> HIDE DEF w
  <1>3. QED
    BY <1>1, <1>2, StartedRows, IdleIsHonest, NoWriteFields DEF Honest, HonestWrites

LEMMA DevelopmentHonest ==
  ASSUME TypeOK, OneBusy', NEW r \in Requests, NEW op, NEW d \in Developments, NEW row,
         Start(r, op, [NoWrite EXCEPT !.development[d] = row]),
         development[d].status = "ARCHIVED" =>
            op = "restore_revision" \/ row.status \in {"ARCHIVED", "DRAFT"}
  PROVE  Honest'
  <1> DEFINE w == [NoWrite EXCEPT !.development[d] = row]
  <1>1. /\ DOMAIN w = RowColumns /\ w.listing = NoWrite.listing
        /\ w.development = [NoWrite.development EXCEPT ![d] = row]
        /\ w.variant = NoWrite.variant
    BY DEF NoWrite, RowColumns
  <1>2. Start(r, op, w)
    OBVIOUS
  <1> HIDE DEF w
  <1>3. ASSUME NEW q \in Requests PROVE HonestWrites(txn[q])'
    <2>1. CASE q = r
      <3>1. /\ txn'[q].listing = NoWrite.listing
            /\ txn'[q].development = [NoWrite.development EXCEPT ![d] = row]
            /\ txn'[q].variant = NoWrite.variant
            /\ txn'[q].op = op
            /\ UNCHANGED <<listing, development, variant>>
        BY <1>1, <1>2, <2>1, StartedRows
      <3>2. QED
        BY <3>1, NoWriteFields DEF HonestWrites
    <2>2. CASE q # r
      BY <1>1, <1>2, <2>2, StartedRows, IdleIsHonest
    <2>3. QED
      BY <2>1, <2>2
  <1>4. QED
    BY <1>3 DEF Honest

LEMMA VariantHonest ==
  ASSUME TypeOK, OneBusy', NEW r \in Requests, NEW op, NEW v \in Variants, NEW row,
         Start(r, op, [NoWrite EXCEPT !.variant[v] = row]),
         variant[v].status = "ARCHIVED" =>
            op = "restore_revision" \/ row.status \in {"ARCHIVED", "DRAFT"}
  PROVE  Honest'
  <1> DEFINE w == [NoWrite EXCEPT !.variant[v] = row]
  <1>1. /\ DOMAIN w = RowColumns /\ w.listing = NoWrite.listing
        /\ w.development = NoWrite.development
        /\ w.variant = [NoWrite.variant EXCEPT ![v] = row]
    BY DEF NoWrite, RowColumns
  <1>2. Start(r, op, w)
    OBVIOUS
  <1> HIDE DEF w
  <1>3. ASSUME NEW q \in Requests PROVE HonestWrites(txn[q])'
    <2>1. CASE q = r
      <3>1. /\ txn'[q].listing = NoWrite.listing
            /\ txn'[q].development = NoWrite.development
            /\ txn'[q].variant = [NoWrite.variant EXCEPT ![v] = row]
            /\ txn'[q].op = op
            /\ UNCHANGED <<listing, development, variant>>
        BY <1>1, <1>2, <2>1, StartedRows
      <3>2. QED
        BY <3>1, NoWriteFields DEF HonestWrites
    <2>2. CASE q # r
      BY <1>1, <1>2, <2>2, StartedRows, IdleIsHonest
    <2>3. QED
      BY <2>1, <2>2
  <1>4. QED
    BY <1>3 DEF Honest

LEMMA CatalogueIsHonest ==
  ASSUME PInv, Honest, OneBusy', CatalogueStep
  PROVE  Honest'
  <1>a. TypeOK /\ CleanRows
    BY DEF PInv
  <1>1. ASSUME NEW r \in Requests, NEW p, NEW row, PropertySave(r, p, row)
        PROVE  Honest'
    BY <1>a, <1>1, PropertyHonest DEF PropertySave
  <1>2. ASSUME NEW r \in Requests, NEW d \in Developments, NEW s \in Status, NEW loc,
               DevelopmentEdit(r, d, s, loc)
        PROVE  Honest'
    <2>1. PICK row :
             /\ development[d].status = "ARCHIVED" => row.status \in {"ARCHIVED", "DRAFT"}
             /\ Start(r, "development_edit", [NoWrite EXCEPT !.development[d] = row])
      BY <1>2 DEF DevelopmentEdit, Stamped
    <2>2. QED
      BY <1>a, <2>1, DevelopmentHonest
  <1>3. ASSUME NEW r \in Requests, NEW d \in Developments, ArchiveDevelopment(r, d)
        PROVE  Honest'
    <2>1. PICK row :
             /\ row.status = "ARCHIVED"
             /\ Start(r, "archive_record", [NoWrite EXCEPT !.development[d] = row])
      BY <1>a, <1>3 DEF ArchiveDevelopment, TypeOK, DevelopmentRow
    <2>2. QED
      BY <1>a, <2>1, DevelopmentHonest
  <1>4. ASSUME NEW r \in Requests, NEW d \in Developments, ReactivateDevelopment(r, d)
        PROVE  Honest'
    <2>1. PICK row :
             /\ row.status = "DRAFT"
             /\ Start(r, "reactivate_record", [NoWrite EXCEPT !.development[d] = row])
      BY <1>a, <1>4 DEF ReactivateDevelopment, TypeOK, DevelopmentRow
    <2>2. QED
      BY <1>a, <2>1, DevelopmentHonest
  <1>5. ASSUME NEW r \in Requests, NEW v \in Variants, NEW s \in Status, NEW d,
               VariantEdit(r, v, s, d)
        PROVE  Honest'
    <2> DEFINE row == [variant[v] EXCEPT !.status = s, !.development = d]
    <2>1. /\ row.status = s /\ row.archived_at = variant[v].archived_at
          /\ Stamped(row).status = s
      BY <1>a DEF TypeOK, VariantRow, Stamped
    <2>2. /\ VariantClean(row)
          /\ Start(r, "variant_edit", [NoWrite EXCEPT !.variant[v] = Stamped(row)])
      BY <1>5 DEF VariantEdit
    <2> HIDE DEF row
    <2>3. variant[v].status = "ARCHIVED" => Stamped(row).status = "ARCHIVED"
      BY <1>a, <2>1, <2>2 DEF CleanRows, ArchivedRow, VariantClean
    <2>4. QED
      BY <1>a, <2>2, <2>3, VariantHonest
  <1>6. ASSUME NEW r \in Requests, NEW v \in Variants, ArchiveVariant(r, v)
        PROVE  Honest'
    <2>1. PICK row :
             /\ row.status = "ARCHIVED"
             /\ Start(r, "archive_record", [NoWrite EXCEPT !.variant[v] = row])
      BY <1>a, <1>6 DEF ArchiveVariant, TypeOK, VariantRow
    <2>2. QED
      BY <1>a, <2>1, VariantHonest
  <1>7. ASSUME NEW r \in Requests, NEW v \in Variants, ReactivateVariant(r, v)
        PROVE  Honest'
    <2>1. PICK row :
             /\ row.status = "DRAFT"
             /\ Start(r, "reactivate_record", [NoWrite EXCEPT !.variant[v] = row])
      BY <1>a, <1>7 DEF ReactivateVariant, TypeOK, VariantRow
    <2>2. QED
      BY <1>a, <2>1, VariantHonest
  <1>8. ASSUME NEW loc, NEW h, LocationEdit(loc, h)
        PROVE  Honest'
    BY <1>8 DEF LocationEdit, Honest, HonestWrites
  <1>9. ASSUME NEW r \in Requests, NEW d \in Developments, NEW row, RestoreDevelopment(r, d, row)
        PROVE  Honest'
    BY <1>a, <1>9, DevelopmentHonest DEF RestoreDevelopment
  <1>10. ASSUME NEW r \in Requests, NEW v \in Variants, NEW row, RestoreVariant(r, v, row)
        PROVE  Honest'
    BY <1>a, <1>10, VariantHonest DEF RestoreVariant
  <1>11. QED
    BY <1>1, <1>2, <1>3, <1>4, <1>5, <1>6, <1>7, <1>8, <1>9, <1>10 DEF CatalogueStep

LEMMA HonestStep ==
  ASSUME PInv, Honest, OneBusy, OneBusy', [Next]_vars
  PROVE  Honest'
  <1>1. ASSUME NEW l \in Listings, NEW t \in Targets, NEW s \in PublicStatus,
               ListingCreate(l, t, s)
        PROVE  Honest'
    <2>1. /\ UNCHANGED <<development, variant, txn>>
          /\ \A r \in Requests : txn[r].listing[l] = None
          /\ \A k \in Listings : k # l => listing'[k] = listing[k]
      BY <1>1 DEF ListingCreate, NewListing, PInv, TypeOK
    <2>2. QED
      BY <2>1 DEF Honest, HonestWrites
  <1>2. ASSUME NEW o, NEW l, NEW a, OfferSave(o, l, a)
        PROVE  Honest'
    BY <1>2 DEF OfferSave, Honest, HonestWrites
  <1>3. CASE ListingStep
    BY <1>1, <1>2, <1>3, ServicesAreHonest, FormsAreHonest DEF ListingStep
  <1>4. CASE GuidedStep
    BY <1>4, FormsAreHonest DEF GuidedStep
  <1>5. CASE CatalogueStep
    BY <1>5, CatalogueIsHonest
  <1>6. CASE EndStep
    <2>1. \A q \in Requests : txn'[q] = NoWrite
      BY <1>6, EndsAlone DEF PInv
    <2>2. QED
      BY <2>1, NoWriteFields DEF Honest, HonestWrites
  <1>7. CASE UNCHANGED vars
    BY <1>7 DEF vars, Honest, HonestWrites
  <1>8. QED
    BY <1>3, <1>4, <1>5, <1>6, <1>7 DEF Next

LEMMA HonestInvariance == Spec /\ []OneBusy => [](PInv /\ Honest)
  <1>1. Init => PInv /\ Honest
    <2>1. HonestWrites(NoWrite)
      BY NoWriteFields DEF HonestWrites
    <2>2. Init => \A r \in Requests : txn[r] = NoWrite
      BY DEF Init
    <2>3. QED
      BY <2>1, <2>2, InitPInv DEF Honest
  <1>2. PInv /\ Honest /\ OneBusy /\ OneBusy' /\ [Next]_vars => (PInv /\ Honest)'
    BY NextKeepsPInv, HonestStep
  <1>3. QED
    BY <1>1, <1>2, PTL DEF Spec

(* What a step does to the rows.                                            *)
LEMMA StepWrites ==
  ASSUME PInv, Honest, [Next]_vars
  PROVE  /\ \A l \in Listings :
               listing[l] # None /\ listing'[l] # listing[l] =>
                   \E r \in Requests : txn[r].listing[l] # None
                                       /\ listing'[l] = txn[r].listing[l]
         /\ \A d \in Developments :
               development[d].status = "ARCHIVED" /\ ~RestoresDevelopment(d) =>
                   development'[d].status \in {"ARCHIVED", "DRAFT"}
         /\ \A v \in Variants :
               variant[v].status = "ARCHIVED" /\ ~RestoresVariant(v) =>
                   variant'[v].status \in {"ARCHIVED", "DRAFT"}
  <1>1. ASSUME NEW r \in Requests, Saving(r)
        PROVE  /\ \A l \in Listings :
                     listing'[l] = IF txn[r].listing[l] = None THEN listing[l]
                                   ELSE txn[r].listing[l]
               /\ \A d \in Developments :
                     development'[d] = IF txn[r].development[d] = None THEN development[d]
                                       ELSE txn[r].development[d]
               /\ \A v \in Variants :
                     variant'[v] = IF txn[r].variant[v] = None THEN variant[v]
                                   ELSE txn[r].variant[v]
    BY <1>1 DEF Saving, Overlay, PInv, TypeOK
  <1>2. ASSUME NEW k \in Listings, NEW t \in Targets, NEW s \in PublicStatus,
               ListingCreate(k, t, s)
        PROVE  \A l \in Listings : listing[l] # None => listing'[l] = listing[l]
    BY <1>2 DEF ListingCreate, NewListing, PInv, TypeOK
  <1>3. CASE \E q \in Requests : Saving(q)
    BY <1>1, <1>3 DEF Honest, HonestWrites, RestoresDevelopment, RestoresVariant
  <1>4. CASE ~ \E q \in Requests : Saving(q)
    BY <1>2, <1>4, WhoWrites
  <1>5. QED
    BY <1>3, <1>4

(* One request after another, a listing appears on the site only because        *)
(* somebody published it.                                                   *)
THEOREM SerialPublishOnlyExplicitly == Spec /\ []OneBusy => PublishOnlyExplicitly
  <1>1. ASSUME PInv, Honest, [Next]_vars, NEW l \in Listings, Republished(l)
        PROVE  \E r \in Requests : txn[r].op = "publish" /\ txn[r].listing[l] # None
    <2>1. PICK r \in Requests : txn[r].listing[l] # None /\ listing'[l] = txn[r].listing[l]
      BY <1>1, StepWrites DEF Republished
    <2>2. txn[r].op = "publish"
      BY <1>1, <2>1 DEF Republished, Honest, HonestWrites
    <2>3. QED
      BY <2>1, <2>2
  <1>2. PInv /\ Honest /\ [Next]_vars =>
           [\A l \in Listings : Republished(l) =>
              \E r \in Requests : txn[r].op = "publish" /\ txn[r].listing[l] # None]_vars
    BY <1>1
  <1>3. QED
    BY <1>2, HonestInvariance, PTL DEF Spec, PublishOnlyExplicitly

(* One request after another, what was archived comes back as a draft           *)
(* (restore_listing, reactivate_catalog_record, the hook of Development),   *)
(* unless restore_catalog_revision writes a revision of it back.            *)
THEOREM SerialRestoredAsDraft == Spec /\ []OneBusy => RestoredAsDraft
  <1>1. ASSUME PInv, Honest, [Next]_vars, NEW l \in Listings,
               listing[l] # None, listing[l].workflow_status = "ARCHIVED",
               \A r \in Requests : txn[r].op # "publish"
        PROVE  listing'[l].workflow_status \in {"ARCHIVED", "DRAFT"}
    <2>1. CASE listing'[l] = listing[l]
      BY <1>1, <2>1
    <2>2. CASE listing'[l] # listing[l]
      <3>1. PICK r \in Requests : txn[r].listing[l] # None /\ listing'[l] = txn[r].listing[l]
        BY <1>1, <2>2, StepWrites
      <3>2. txn[r].listing[l].workflow_status # "PUBLISHED"
        BY <1>1, <3>1 DEF Honest, HonestWrites
      <3>3. txn[r].listing[l].workflow_status \in WorkflowStatus
        BY <1>1, <3>1 DEF PInv, TypeOK, Transaction, OrNone, ListingRow
      <3>4. QED
        BY <3>1, <3>2, <3>3 DEF WorkflowStatus
    <2>3. QED
      BY <2>1, <2>2
  <1>2. PInv /\ Honest /\ [Next]_vars =>
          [/\ \A d \in Developments :
                 development[d].status = "ARCHIVED" /\ ~RestoresDevelopment(d) =>
                    development'[d].status \in {"ARCHIVED", "DRAFT"}
           /\ \A v \in Variants :
                 variant[v].status = "ARCHIVED" /\ ~RestoresVariant(v) =>
                    variant'[v].status \in {"ARCHIVED", "DRAFT"}
           /\ \A l \in Listings :
                 listing[l] # None /\ listing[l].workflow_status = "ARCHIVED"
                 /\ (\A r \in Requests : txn[r].op # "publish") =>
                    listing'[l].workflow_status \in {"ARCHIVED", "DRAFT"}]_vars
    BY <1>1, StepWrites
  <1>3. QED
    BY <1>2, HonestInvariance, PTL DEF Spec, RestoredAsDraft

=============================================================================
