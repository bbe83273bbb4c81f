----------------------------- MODULE Publishing -----------------------------
(***************************************************************************)
(* The listing workflow of apps/listings on top of the catalogue of        *)
(* apps/properties: what staff requests do to Listing, Offer, Property,    *)
(* Development, Variant and Location rows.                                  *)
(*                                                                         *)
(* Two gunicorn threads serve staff requests against PostgreSQL at READ    *)
(* COMMITTED.  A request first reads and validates (full_clean looks at     *)
(* other rows) and later writes whole rows back, so it is two steps here:  *)
(* a start that fills txn[r] with the rows it is going to save, and a      *)
(* Commit.  Between the two the other requests run.  Only the functions of *)
(* listings/services.py take a row lock first (select_for_update).         *)
(*                                                                         *)
(* Timestamps are Booleans (set or null).  inventory_mode is the choice of *)
(* property or variant, which two check constraints tie to it.  The texts, *)
(* the property types and the audit rows are not in this module.           *)
(***************************************************************************)
CONSTANTS
    Requests,      \* the requests that can be in progress at the same time
    Listings, Offers, Properties, Developments, Variants, Locations,
    None,          \* a null column, and the row that is not there
    Operations     \* the operations staff use in this instance

AllOperations ==
    {"publish", "archive", "restore", "set_public_status", "listing_create",
     "listing_edit", "guided_create", "guided_edit", "offer_save", "property_save",
     "development_edit", "variant_edit", "location_edit", "archive_record",
     "reactivate_record", "restore_revision"}

ASSUME OperationsAssumption == Operations \subseteq AllOperations

VARIABLES
    listing,       \* the committed rows of the six tables
    offer,
    property,
    development,
    variant,
    hidden,        \* the Locations whose visibility is HIDDEN
    txn            \* what each request is about to save

db == <<listing, offer, property, development, variant, hidden>>
vars == <<listing, offer, property, development, variant, hidden, txn>>

-----------------------------------------------------------------------------
(* Rows.  The public and inventory statuses are reduced to one value the   *)
(* site offers (AVAILABLE, RESERVED) and one it does not (SOLD and others). *)

WorkflowStatus == {"DRAFT", "PUBLISHED", "ARCHIVED"}
PublicStatus == {"AVAILABLE", "SOLD"}
InventoryStatus == {"AVAILABLE", "SOLD"}
Status == {"DRAFT", "ACTIVE", "INACTIVE", "ARCHIVED"}

OrNone(S) == S \cup {None}

ListingRow ==
    [workflow_status: WorkflowStatus, public_status: PublicStatus,
     published_at: BOOLEAN, archived_at: BOOLEAN,
     property: OrNone(Properties), variant: OrNone(Variants)]
OfferRow == [listing: Listings, active: BOOLEAN]
PropertyRow ==
    [development: OrNone(Developments), variant: OrNone(Variants),
     location: Locations, inventory_status: InventoryStatus]
DevelopmentRow == [status: Status, archived_at: BOOLEAN, location: Locations]
VariantRow == [status: Status, archived_at: BOOLEAN, development: Developments]

(* None is neither a key nor a row. *)
ASSUME NoneAssumption ==
    None \notin Listings \cup Properties \cup Developments \cup Variants
                \cup ListingRow \cup OfferRow \cup PropertyRow \cup DevelopmentRow
                \cup VariantRow

(* The rows a request is going to save, None where it leaves the row alone; *)
(* and the Listing rows it holds FOR UPDATE.                                *)
NoWrite ==
    [op |-> "none", locks |-> {},
     listing |-> [l \in Listings |-> None],
     property |-> [p \in Properties |-> None],
     development |-> [d \in Developments |-> None],
     variant |-> [v \in Variants |-> None]]

Transaction ==
    [op: AllOperations \cup {"none"}, locks: SUBSET Listings,
     listing: [Listings -> OrNone(ListingRow)],
     property: [Properties -> OrNone(PropertyRow)],
     development: [Developments -> OrNone(DevelopmentRow)],
     variant: [Variants -> OrNone(VariantRow)]]

(* Mutant of Overlay: the untouched rows are written over too.              *)
OverlayEveryRow(writes, table) == writes

(* A table after the pending rows are written over it.                      *)
Overlay(writes, table) ==
    [k \in DOMAIN table |-> IF writes[k] = None THEN table[k] ELSE writes[k]]

(* The primary key k belongs to no row and to no row about to be inserted.  *)
NewListing(l) == listing[l] = None /\ \A r \in Requests : txn[r].listing[l] = None
NewProperty(p) == property[p] = None /\ \A r \in Requests : txn[r].property[p] = None

-----------------------------------------------------------------------------
(* What the models check.                                                  *)

HasActiveOffer(l) ==
    \E o \in Offers : offer[o] # None /\ offer[o].listing = l /\ offer[o].active

(* ACTIVE and not is_archived. *)
IsActive(row) == row.status = "ACTIVE" /\ ~row.archived_at

LocationOf(row, properties) ==
    IF row.property # None
    THEN properties[row.property].location
    ELSE development[variant[row.variant].development].location

(* Listing._validate_publishable_state but for the offer, with the Property *)
(* rows the request sees (the guided form saves its own property first).    *)
Publishable(row, properties) ==
    /\ LocationOf(row, properties) \notin hidden
    /\ row.property # None =>
         /\ properties[row.property].inventory_status = "AVAILABLE"
         /\ properties[row.property].development # None =>
              IsActive(development[properties[row.property].development])
    /\ row.variant # None =>
         /\ variant[row.variant].status = "ACTIVE"
         /\ development[variant[row.variant].development].status = "ACTIVE"

(* Listing.clean: what it refuses, and the archived_at it fills in. *)
ListingClean(row, properties) ==
    /\ row.workflow_status # "ARCHIVED" => ~row.archived_at
    /\ row.workflow_status = "PUBLISHED" => Publishable(row, properties)
Cleaned(row) ==
    IF row.workflow_status = "ARCHIVED" THEN [row EXCEPT !.archived_at = TRUE] ELSE row

(* The query of _validate_publishable_state that every save() runs again.   *)
OfferClean(row, l) == row.workflow_status = "PUBLISHED" => HasActiveOffer(l)

(* Property.clean; a new property may not sit on archived catalogue rows.    *)
PropertyClean(row, adding) ==
    /\ row.variant # None => variant[row.variant].development = row.development
    /\ adding /\ row.development # None => ~development[row.development].archived_at
    /\ adding /\ row.variant # None => ~variant[row.variant].archived_at

(* Mutant of PublishedListings: the pooled listings are forgotten.          *)
PublishedPropertyListings(d) ==
    {l \in Listings :
        /\ listing[l] # None
        /\ listing[l].workflow_status = "PUBLISHED"
        /\ listing[l].property # None
        /\ property[listing[l].property].development = d}

(* Development.published_listings *)
PublishedListings(d) ==
    {l \in Listings :
        /\ listing[l] # None
        /\ listing[l].workflow_status = "PUBLISHED"
        /\ \/ /\ listing[l].property # None
              /\ \/ property[listing[l].property].development = d
                 \/ /\ property[listing[l].property].variant # None
                    /\ variant[property[listing[l].property].variant].development = d
           \/ /\ listing[l].variant # None
              /\ variant[listing[l].variant].development = d}

(* Development.clean: archiving waits for the published listings.           *)
DevelopmentClean(row, d) ==
    /\ row.status = "ARCHIVED" /\ development[d].status # "ARCHIVED" =>
         PublishedListings(d) = {}
    /\ row.status # "ARCHIVED" => ~row.archived_at

VariantClean(row) ==
    /\ row.status = "ACTIVE" => IsActive(development[row.development])
    /\ row.status # "ARCHIVED" => ~row.archived_at

(* The status and the archived_at of a row agree. *)
ArchivedRow(row) == row.archived_at <=> row.status = "ARCHIVED"
ArchivedListing(row) == row.archived_at <=> row.workflow_status = "ARCHIVED"

(* The archived_at that Development.clean and Variant.clean fill in. *)
Stamped(row) == IF row.status = "ARCHIVED" THEN [row EXCEPT !.archived_at = TRUE] ELSE row

-----------------------------------------------------------------------------
Init ==
    /\ listing = [l \in Listings |-> None]
    /\ offer = [o \in Offers |-> None]
    /\ property = [p \in Properties |-> None]
    /\ development \in [Developments -> [status: {"DRAFT"}, archived_at: {FALSE},
                                         location: Locations]]
    /\ variant \in [Variants -> [status: {"DRAFT"}, archived_at: {FALSE},
                                 development: Developments]]
    /\ hidden = {}
    /\ txn = [r \in Requests |-> NoWrite]

(* Request r starts operation op: it has read and validated, w is its save.  *)
Start(r, op, w) ==
    /\ op \in Operations
    /\ txn[r] = NoWrite
    /\ txn' = [txn EXCEPT ![r] = [w EXCEPT !.op = op]]
    /\ UNCHANGED db

Existing(table, k) == table[k] # None

(* Mutant of LockedChange: the row is read without select_for_update.       *)
UnlockedChange(r, op, l, row) ==
    /\ Existing(listing, l)
    /\ ListingClean(row, property)
    /\ OfferClean(row, l)
    /\ Start(r, op, [NoWrite EXCEPT !.listing[l] = Cleaned(row)])

(* listings/services.py: lock the row, read it, assign some columns of it.  *)
LockedChange(r, op, l, row) ==
    /\ Existing(listing, l)
    /\ \A q \in Requests : l \notin txn[q].locks
    /\ ListingClean(row, property)
    /\ OfferClean(row, l)
    /\ Start(r, op, [NoWrite EXCEPT !.locks = {l}, !.listing[l] = Cleaned(row)])

(* Mutant of PublishListing: published_at is left to the form.              *)
PublishUndated(r, l) ==
    LockedChange(r, "publish", l,
        [listing[l] EXCEPT !.workflow_status = "PUBLISHED", !.archived_at = FALSE])

PublishListing(r, l) ==
    LockedChange(r, "publish", l,
        [listing[l] EXCEPT !.workflow_status = "PUBLISHED", !.archived_at = FALSE,
                           !.published_at = TRUE])

ArchiveListing(r, l) ==
    LockedChange(r, "archive", l,
        [listing[l] EXCEPT !.workflow_status = "ARCHIVED", !.archived_at = TRUE])

(* Mutant of RestoreListing: what was published comes back published.       *)
RestoreAsItWas(r, l) ==
    /\ Existing(listing, l)
    /\ listing[l].workflow_status = "ARCHIVED"
    /\ LockedChange(r, "restore", l,
           [listing[l] EXCEPT
               !.workflow_status = IF listing[l].published_at THEN "PUBLISHED" ELSE "DRAFT",
               !.archived_at = FALSE])

RestoreListing(r, l) ==
    /\ Existing(listing, l)
    /\ listing[l].workflow_status = "ARCHIVED"
    /\ LockedChange(r, "restore", l,
           [listing[l] EXCEPT !.workflow_status = "DRAFT", !.archived_at = FALSE])

SetPublicStatus(r, l, status) ==
    LockedChange(r, "set_public_status", l, [listing[l] EXCEPT !.public_status = status])

(* The records a Listing may represent: one Property or one Variant.        *)
Targets ==
    {[property |-> p, variant |-> None] : p \in {k \in Properties : Existing(property, k)}}
    \cup {[property |-> None, variant |-> v] : v \in Variants}

(* A new Listing row: a draft whatever the form says. *)
Draft(p, v, status) ==
    [workflow_status |-> "DRAFT", public_status |-> status, published_at |-> FALSE,
     archived_at |-> FALSE, property |-> p, variant |-> v]

(* ListingCreateView *)
ListingCreate(l, target, status) ==
    /\ "listing_create" \in Operations
    /\ NewListing(l)
    /\ listing' = [listing EXCEPT ![l] = Draft(target.property, target.variant, status)]
    /\ UNCHANGED <<offer, property, development, variant, hidden, txn>>

(* The snippet form of a Listing: its panels hold the target and the public *)
(* status; the workflow columns are saved back as they were read.           *)
ListingEdit(r, l, target, status) ==
    LET row == [listing[l] EXCEPT !.property = target.property,
                                  !.variant = target.variant, !.public_status = status]
    IN /\ Existing(listing, l)
       /\ ListingClean(row, property)
       /\ OfferClean(row, l)
       /\ Start(r, "listing_edit", [NoWrite EXCEPT !.listing[l] = Cleaned(row)])

(* What the guided form offers: developments that are not archived, house   *)
(* models that are on sale, locations that are not hidden.                  *)
FormDevelopments == {d \in Developments : development[d].status # "ARCHIVED"}
FormHouseModels ==
    {v \in Variants : IsActive(variant[v]) /\ IsActive(development[variant[v].development])}
FormLocations == Locations \ hidden

(* The development and house model of a single property, as clean() leaves  *)
(* them: the model's development when only the model was chosen.            *)
FormPlacements ==
    {[development |-> d, variant |-> None] : d \in OrNone(FormDevelopments)}
    \cup {[development |-> variant[v].development, variant |-> v] : v \in FormHouseModels}

(* GuidedListingForm on an existing Listing of a single property: the       *)
(* property and the listing read with the page are changed and saved whole. *)
GuidedEditSingle(r, l, placement, location, status) ==
    LET p == listing[l].property
        prop == [property[p] EXCEPT !.development = placement.development,
                                    !.variant = placement.variant, !.location = location]
        row == [listing[l] EXCEPT !.public_status = status]
    IN /\ Existing(listing, l)
       /\ p # None
       /\ location \in FormLocations
       /\ PropertyClean(prop, FALSE)
       /\ ListingClean(row, [property EXCEPT ![p] = prop])
       /\ Start(r, "guided_edit", [NoWrite EXCEPT !.listing[l] = Cleaned(row),
                                                  !.property[p] = prop])

GuidedEditPooled(r, l, v, status) ==
    LET row == [listing[l] EXCEPT !.variant = v, !.public_status = status]
    IN /\ Existing(listing, l)
       /\ listing[l].property = None
       /\ v \in FormHouseModels
       /\ ListingClean(row, property)
       /\ Start(r, "guided_edit", [NoWrite EXCEPT !.listing[l] = Cleaned(row)])

GuidedCreateSingle(r, l, p, placement, location, status) ==
    LET prop == [development |-> placement.development, variant |-> placement.variant,
                 location |-> location, inventory_status |-> "AVAILABLE"]
    IN /\ NewListing(l)
       /\ NewProperty(p)
       /\ location \in FormLocations
       /\ PropertyClean(prop, TRUE)
       /\ Start(r, "guided_create", [NoWrite EXCEPT !.listing[l] = Draft(p, None, status),
                                                    !.property[p] = prop])

GuidedCreatePooled(r, l, v, status) ==
    /\ NewListing(l)
    /\ v \in FormHouseModels
    /\ Start(r, "guided_create", [NoWrite EXCEPT !.listing[l] = Draft(None, v, status)])

(* The snippet form of an Offer holds all its columns: nothing stale is     *)
(* saved, and the partial unique index admits one active offer a listing.   *)
OfferSave(o, l, active) ==
    /\ "offer_save" \in Operations
    /\ Existing(listing, l)
    /\ active => \A x \in Offers \ {o} :
                     ~(Existing(offer, x) /\ offer[x].listing = l /\ offer[x].active)
    /\ offer' = [offer EXCEPT ![o] = [listing |-> l, active |-> active]]
    /\ UNCHANGED <<listing, property, development, variant, hidden, txn>>

(* The snippet form of a Property, for a new row and for an existing one.   *)
PropertySave(r, p, row) ==
    /\ Existing(property, p) \/ NewProperty(p)
    /\ PropertyClean(row, ~Existing(property, p))
    /\ Start(r, "property_save", [NoWrite EXCEPT !.property[p] = row])

(* Mutant of DevelopmentEdit: the hook clears archived_at and leaves the    *)
(* status that was asked for.                                               *)
DevelopmentEditAsAsked(r, d, status, location) ==
    LET restoring == development[d].status = "ARCHIVED" /\ status # "ARCHIVED"
        row == [status |-> status, archived_at |-> development[d].archived_at /\ ~restoring,
                location |-> location]
    IN /\ DevelopmentClean(row, d)
       /\ Start(r, "development_edit", [NoWrite EXCEPT !.development[d] = Stamped(row)])

(* The snippet form of a Development with its before_edit_snippet hook:     *)
(* leaving ARCHIVED, whatever status is asked for, leads to DRAFT.          *)
DevelopmentEdit(r, d, status, location) ==
    LET restoring == development[d].status = "ARCHIVED" /\ status # "ARCHIVED"
        row == [status |-> IF restoring THEN "DRAFT" ELSE status,
                archived_at |-> development[d].archived_at /\ ~restoring,
                location |-> location]
    IN /\ DevelopmentClean(row, d)
       /\ Start(r, "development_edit", [NoWrite EXCEPT !.development[d] = Stamped(row)])

VariantEdit(r, v, status, d) ==
    LET row == [variant[v] EXCEPT !.status = status, !.development = d]
    IN /\ VariantClean(row)
       /\ Start(r, "variant_edit", [NoWrite EXCEPT !.variant[v] = Stamped(row)])

(* The snippet form of a Location decides its visibility and reads nothing. *)
LocationEdit(location, hide) ==
    /\ "location_edit" \in Operations
    /\ hidden' = IF hide THEN hidden \cup {location} ELSE hidden \ {location}
    /\ UNCHANGED <<listing, offer, property, development, variant, txn>>

(* archive_catalog_record and reactivate_catalog_record of                  *)
(* properties/services.py, which save the record they are handed.           *)
ArchiveDevelopment(r, d) ==
    LET row == [development[d] EXCEPT !.status = "ARCHIVED", !.archived_at = TRUE]
    IN /\ DevelopmentClean(row, d)
       /\ Start(r, "archive_record", [NoWrite EXCEPT !.development[d] = row])

ArchiveVariant(r, v) ==
    Start(r, "archive_record", [NoWrite EXCEPT !.variant[v] =
              [variant[v] EXCEPT !.status = "ARCHIVED", !.archived_at = TRUE]])

ReactivateDevelopment(r, d) ==
    Start(r, "reactivate_record", [NoWrite EXCEPT !.development[d] =
              [development[d] EXCEPT !.status = "DRAFT", !.archived_at = FALSE]])

ReactivateVariant(r, v) ==
    Start(r, "reactivate_record", [NoWrite EXCEPT !.variant[v] =
              [variant[v] EXCEPT !.status = "DRAFT", !.archived_at = FALSE]])

(* restore_catalog_revision writes a snapshot over the record it is handed, *)
(* status and archived_at included.  A snapshot is a row the record once    *)
(* had; the forms may have left any row whose two columns agree.  Of a      *)
(* property or a location it saves what PropertySave and LocationEdit save. *)
RestoreDevelopment(r, d, snapshot) ==
    /\ ArchivedRow(snapshot)
    /\ DevelopmentClean(snapshot, d)
    /\ Start(r, "restore_revision", [NoWrite EXCEPT !.development[d] = snapshot])

RestoreVariant(r, v, snapshot) ==
    /\ ArchivedRow(snapshot)
    /\ VariantClean(snapshot)
    /\ Start(r, "restore_revision", [NoWrite EXCEPT !.variant[v] = snapshot])

-----------------------------------------------------------------------------
(* Mutant of Saving: the save of a listing leaves archived_at out.          *)
SavingMostColumns(r) ==
    /\ txn[r].op # "none"
    /\ \A l \in Listings : txn[r].listing[l] # None =>
          /\ \A q \in Requests \ {r} : l \notin txn[q].locks
          /\ OfferClean(txn[r].listing[l], l)
    /\ listing' = [l \in Listings |->
                      IF txn[r].listing[l] # None /\ listing[l] # None
                      THEN [txn[r].listing[l] EXCEPT !.archived_at = listing[l].archived_at]
                      ELSE Overlay(txn[r].listing, listing)[l]]
    /\ property' = Overlay(txn[r].property, property)
    /\ development' = Overlay(txn[r].development, development)
    /\ variant' = Overlay(txn[r].variant, variant)
    /\ txn' = [txn EXCEPT ![r] = NoWrite]
    /\ UNCHANGED hidden

(* The writes reach the database.  A row another request holds FOR UPDATE   *)
(* makes the UPDATE wait; a Listing is saved only if its offer is there.    *)
Saving(r) ==
    /\ txn[r].op # "none"
    /\ \A l \in Listings : txn[r].listing[l] # None =>
          /\ \A q \in Requests \ {r} : l \notin txn[q].locks
          /\ OfferClean(txn[r].listing[l], l)
    /\ listing' = Overlay(txn[r].listing, listing)
    /\ property' = Overlay(txn[r].property, property)
    /\ development' = Overlay(txn[r].development, development)
    /\ variant' = Overlay(txn[r].variant, variant)
    /\ txn' = [txn EXCEPT ![r] = NoWrite]
    /\ UNCHANGED hidden

GuidedOperations == {"guided_create", "guided_edit"}

Commit(r) ==
    /\ txn[r].op \notin GuidedOperations
    /\ Saving(r)
    /\ UNCHANGED offer

(* offers.filter(active=True).first() or offers.first(), or a new Offer.    *)
OfferToSave(l, o) ==
    LET ofListing == {x \in Offers : Existing(offer, x) /\ offer[x].listing = l}
        active == {x \in ofListing : offer[x].active}
    IN IF active # {} THEN o \in active
       ELSE IF ofListing # {} THEN o \in ofListing
       ELSE offer[o] = None

(* The guided form ends its transaction by making one offer active.         *)
GuidedCommit(r, l, o) ==
    /\ txn[r].op \in GuidedOperations
    /\ txn[r].listing[l] # None
    /\ OfferToSave(l, o)
    /\ Saving(r)
    /\ offer' = [offer EXCEPT ![o] = [listing |-> l, active |-> TRUE]]

(* Any exception, a lost connection or a killed worker rolls back.          *)
Abort(r) ==
    /\ txn[r].op # "none"
    /\ txn' = [txn EXCEPT ![r] = NoWrite]
    /\ UNCHANGED db

-----------------------------------------------------------------------------
ListingStep ==
    \/ \E r \in Requests, l \in Listings :
          \/ PublishListing(r, l)
          \/ ArchiveListing(r, l)
          \/ RestoreListing(r, l)
          \/ \E s \in PublicStatus : SetPublicStatus(r, l, s)
          \/ \E t \in Targets, s \in PublicStatus : ListingEdit(r, l, t, s)
    \/ \E l \in Listings, t \in Targets, s \in PublicStatus : ListingCreate(l, t, s)
    \/ \E o \in Offers, l \in Listings, a \in BOOLEAN : OfferSave(o, l, a)

GuidedStep ==
    \E r \in Requests, l \in Listings, s \in PublicStatus :
        \/ \E f \in FormPlacements, loc \in Locations :
              \/ GuidedEditSingle(r, l, f, loc, s)
              \/ \E p \in Properties : GuidedCreateSingle(r, l, p, f, loc, s)
        \/ \E v \in Variants : GuidedEditPooled(r, l, v, s) \/ GuidedCreatePooled(r, l, v, s)

CatalogueStep ==
    \/ \E r \in Requests :
          \/ \E p \in Properties, row \in PropertyRow : PropertySave(r, p, row)
          \/ \E d \in Developments :
                \/ \E s \in Status, loc \in Locations : DevelopmentEdit(r, d, s, loc)
                \/ ArchiveDevelopment(r, d)
                \/ ReactivateDevelopment(r, d)
                \/ \E row \in DevelopmentRow : RestoreDevelopment(r, d, row)
          \/ \E v \in Variants :
                \/ \E s \in Status, d \in Developments : VariantEdit(r, v, s, d)
                \/ ArchiveVariant(r, v)
                \/ ReactivateVariant(r, v)
                \/ \E row \in VariantRow : RestoreVariant(r, v, row)
    \/ \E loc \in Locations, h \in BOOLEAN : LocationEdit(loc, h)

EndStep ==
    \E r \in Requests :
        \/ Commit(r)
        \/ \E l \in Listings, o \in Offers : GuidedCommit(r, l, o)
        \/ Abort(r)

Next == ListingStep \/ GuidedStep \/ CatalogueStep \/ EndStep

Spec == Init /\ [][Next]_vars

-----------------------------------------------------------------------------
(* What the site shows.                                                    *)

(* Mutant of InPublicQuery: the development of a house model is not asked.  *)
InLaxPublicQuery(row) ==
    /\ row.workflow_status = "PUBLISHED"
    /\ row.public_status = "AVAILABLE"
    /\ ~row.archived_at
    /\ \/ row.property # None /\ property[row.property].development = None
       \/ /\ row.property # None
          /\ property[row.property].development # None
          /\ IsActive(development[property[row.property].development])
       \/ row.variant # None /\ IsActive(variant[row.variant])

(* ListingQuerySet.public, the query behind the index and search pages.     *)
InPublicQuery(row) ==
    /\ row.workflow_status = "PUBLISHED"
    /\ row.public_status = "AVAILABLE"
    /\ ~row.archived_at
    /\ \/ row.property # None /\ property[row.property].development = None
       \/ /\ row.property # None
          /\ property[row.property].development # None
          /\ IsActive(development[property[row.property].development])
       \/ /\ row.variant # None
          /\ IsActive(variant[row.variant])
          /\ IsActive(development[variant[row.variant].development])

(* Listing.is_publicly_available, the check behind a listing's own page.    *)
IsPubliclyAvailable(row) ==
    /\ row.workflow_status = "PUBLISHED"
    /\ row.public_status = "AVAILABLE"
    /\ ~row.archived_at
    /\ IF row.property # None /\ property[row.property].development # None
       THEN IsActive(development[property[row.property].development])
       ELSE row.variant # None =>
              /\ IsActive(variant[row.variant])
              /\ IsActive(development[variant[row.variant].development])

-----------------------------------------------------------------------------
(* Type invariant: every table holds rows of its model, every transaction   *)
(* pending rows of the same models.                                         *)
TypeOK ==
    /\ listing \in [Listings -> OrNone(ListingRow)]
    /\ offer \in [Offers -> OrNone(OfferRow)]
    /\ property \in [Properties -> OrNone(PropertyRow)]
    /\ development \in [Developments -> DevelopmentRow]
    /\ variant \in [Variants -> VariantRow]
    /\ hidden \subseteq Locations
    /\ txn \in [Requests -> Transaction]

(* However saves of stale rows interleave, no row ends with the archived    *)
(* status of one request and the archived_at of another: the status is      *)
(* ARCHIVED exactly when the timestamp is set (Listing.clean,               *)
(* Development.clean, Variant.clean).                                       *)
ArchivedTogether ==
    /\ \A l \in Listings : listing[l] # None => ArchivedListing(listing[l])
    /\ \A d \in Developments : ArchivedRow(development[d])
    /\ \A v \in Variants : ArchivedRow(variant[v])

(* A published listing has the published_at the public index sorts by,      *)
(* whichever of the racing saves of the listing came last.                  *)
PublishedIsDated ==
    \A l \in Listings :
        listing[l] # None /\ listing[l].workflow_status = "PUBLISHED" =>
            listing[l].published_at

(* The index and the listing's own page agree on what is public: the query  *)
(* and the Python property are written apart from each other.               *)
PublicPagesAgree ==
    \A l \in Listings :
        listing[l] # None => (InPublicQuery(listing[l]) <=> IsPubliclyAvailable(listing[l]))

Republished(l) ==
    /\ listing[l] # None
    /\ listing[l].workflow_status # "PUBLISHED"
    /\ listing'[l].workflow_status = "PUBLISHED"

(* The columns a function of listings/services.py assigns.                  *)
Assigns(op) ==
    CASE op = "publish" -> {"workflow_status", "archived_at", "published_at"}
      [] op \in {"archive", "restore"} -> {"workflow_status", "archived_at"}
      [] op = "set_public_status" -> {"public_status"}
      [] OTHER -> {}

ServiceOperations == {"publish", "archive", "restore", "set_public_status"}

(* publish_listing, archive_listing, restore_listing and set_public_status  *)
(* save a whole row, yet they change no column but their own of the row     *)
(* that is there when they commit: the row lock makes them lose no update,  *)
(* whatever the forms save in between.                                      *)
ServicesLoseNoUpdate ==
    [][\A r \in Requests, l \in Listings :
          /\ txn[r].op \in ServiceOperations /\ txn'[r] = NoWrite
          /\ txn[r].listing[l] # None
          => /\ listing[l] # None
             /\ \A c \in (DOMAIN listing[l]) \ Assigns(txn[r].op) :
                   listing'[l][c] = listing[l][c]]_vars

(* A listing appears on the site because somebody published it, never       *)
(* because somebody saved a form (restoring or editing does not publish).   *)
PublishOnlyExplicitly ==
    [][\A l \in Listings : Republished(l) =>
          \E r \in Requests : txn[r].op = "publish" /\ txn[r].listing[l] # None]_vars

(* The developments of what a listing offers.                               *)
DevelopmentsOf(row) ==
    IF row.property # None
    THEN {property[row.property].development}
         \cup {variant[v].development : v \in {property[row.property].variant} \ {None}}
    ELSE {variant[row.variant].development}

(* A development is archived only while no published listing offers         *)
(* something of it, by whatever path: Development.clean and the hook look   *)
(* for them with a query of their own.                                      *)
ArchiveRespectsDependants ==
    [][\A d \in Developments :
          development[d].status # "ARCHIVED" /\ development'[d].status = "ARCHIVED"
          => \A l \in Listings :
                listing[l] # None /\ listing[l].workflow_status = "PUBLISHED" =>
                    d \notin DevelopmentsOf(listing[l])]_vars

(* What was archived comes back as a draft, to be reviewed first: by the    *)
(* forms and their hook, by reactivate_catalog_record and restore_listing.  *)
(* Only publish_listing and restore_catalog_revision, which writes back the *)
(* status the revision has, bring it back as anything else.                 *)
RestoresDevelopment(d) ==
    \E r \in Requests : txn[r].op = "restore_revision" /\ txn[r].development[d] # None
RestoresVariant(v) ==
    \E r \in Requests : txn[r].op = "restore_revision" /\ txn[r].variant[v] # None
RestoredAsDraft ==
    [][/\ \A d \in Developments :
             development[d].status = "ARCHIVED" /\ ~RestoresDevelopment(d) =>
                development'[d].status \in {"ARCHIVED", "DRAFT"}
       /\ \A v \in Variants :
             variant[v].status = "ARCHIVED" /\ ~RestoresVariant(v) =>
                variant'[v].status \in {"ARCHIVED", "DRAFT"}
       /\ \A l \in Listings :
             listing[l] # None /\ listing[l].workflow_status = "ARCHIVED"
             /\ (\A r \in Requests : txn[r].op # "publish") =>
                listing'[l].workflow_status \in {"ARCHIVED", "DRAFT"}]_vars

(* The development and the house model of a property agree (the guide on    *)
(* Properties, and Property.clean).                                         *)
PropertyAgreesWithModel ==
    \A p \in Properties :
        property[p] # None /\ property[p].variant # None =>
            variant[property[p].variant].development = property[p].development

=============================================================================
