# Lala Land Properties: TLA+ models and proofs

Lala Land Properties is a Django and Wagtail site on PostgreSQL: a public catalogue of
listings, and a CMS in which an Owner and a few Admins maintain it. This directory holds
TLA+ modules of the parts whose rules span several rows, requests or people, the TLC
configurations that check them on small instances, and TLAPS proofs for all instances.

## How the program runs

- `Dockerfile:81` starts gunicorn with one worker of two threads. Two requests run at the
  same time; there is no ATOMIC_REQUESTS. PostgreSQL runs at READ COMMITTED.
- A request reads rows into Python objects, validates (`full_clean` queries other rows),
  and saves: a whole row, or the columns that `update_fields` names. What it read is stale
  when another request commits in between, unless it took a row lock (`select_for_update`).
- A Wagtail snippet form saves in a transaction of its own. The `before_*` hooks run before
  it, the `after_*` hooks (audit trail, revisions) after it has committed.
- An exception, a lost connection or a killed worker rolls back what has not committed.

So an operation of a request is two or three actions in these modules: a *start* that
reads, validates and keeps what it will write, and a *commit*. Everything between them is
open to the other request; an *abort* may take the place of the commit.

## Inventory

| Component | State | Operations | What makes it correct |
|---|---|---|---|
| Listings (`apps/listings`) | Listing, Offer rows | publish, archive, restore, set_public_status, snippet forms, guided form | what is on the site was published on purpose and is dated; statuses and timestamps agree; saves lose nothing |
| Catalogue (`apps/properties`) | Location, Development, Variant, Property rows | snippet forms and hooks, archive and reactivate, restore a revision, delete a location | a development is not archived under published listings; archived comes back as draft unless a revision is restored; a property agrees with its house model |
| Public pages (`listings/views.py`) | none | query and filter | the index and a listing's page agree on what is public; what a filter finds, its cards show |
| Accounts (`apps/accounts`) | User rows, sessions, Wagtail groups | role and status change, sign-in, middleware, group sync | a change ends the person's sessions; flags and groups follow role and status |
| Invitations (`apps/accounts`) | StaffInvitation rows | create (replacing), accept, revoke, expiry | one account per accepted link, one open link per address, accepted or revoked but not both |
| Capabilities (`accounts/capabilities.py`, `backends.py`) | none | role to capability table | capabilities, Django permissions and page policy let the same people do the same things |
| Sensitive access (`apps/access_requests`) | requests, grants with an expiry | request, review, revoke, check | a live grant comes from an approval; a new one replaces the old; revoking it ends the access |
| Audit trail (`apps/audittrail`) | AuditEvent, CatalogRevision rows | append | revisions of a record numbered 1, 2, 3 ...; every change of a row has its entry |
| Inquiries (`apps/inquiries`) | Inquiry, InquiryNote rows, rate-limit cache | submit, assign, change status, note | no duplicate, no lost inquiry, the limit holds |
| Notifications (`apps/integrations`) | InquiryNotification rows | notify once | at most one mail per inquiry, its outcome recorded |
| Media (`apps/media_library`) | CatalogueMedia rows | save, archive | one active cover per record, archived is never cover |
| Site content (`apps/sitecontent`, `home`, `search`) | pages, their privacy, categories | Wagtail editor, archive, privacy | the lists, the search and a page agree on what is hidden |
| Dashboard, settings | none | read-only views, configuration | nothing of their own |

The components meet in the database: listings point to properties and variants, these to
developments and locations; inquiries point to listings; grants, notes and revisions to
users. Calls between them are few: the listing services and forms call the audit trail,
`contact` calls the notification, the inquiry page asks sensitive access. Signals tie
accounts to sessions (`user_logged_in`) and to Wagtail groups (`post_save`).

## Modules

### Publishing

The rows of listings and catalogue, and every staff operation on them.

- State: `listing`, `offer`, `property`, `development`, `variant` map keys to rows or
  `None`; `hidden` is the set of locations with HIDDEN visibility; `txn[r]` holds the rows
  request `r` is about to save and the listing rows it has locked.
- `LockedChange` is the shape of the four functions of `listings/services.py`; the forms
  (`ListingEdit`, `GuidedEdit...`, `DevelopmentEdit`, `VariantEdit`, `PropertySave`) read
  without a lock. `Commit` and `GuidedCommit` write whole rows over the tables, wait for
  foreign row locks, and run the offer query of `Listing.save` again.
- `ListingClean`, `PropertyClean`, `DevelopmentClean`, `VariantClean` are the `clean`
  methods, `DevelopmentEdit` includes the `before_edit_snippet` hook.
- `RestoreDevelopment` and `RestoreVariant` are `restore_catalog_revision`, which writes back
  every column of a revision, status and archived_at too. The revisions themselves are in
  AuditTrail: here a snapshot is any row whose two columns agree, since the forms may have
  left any such row. What it saves of a property or a location, `PropertySave` and
  `LocationEdit` save as well; no revision of a listing is ever restored.
- `InPublicQuery` and `IsPubliclyAvailable` are the two definitions of "public".
- `OfferSave` and `LocationEdit` are one step: their forms hold every column that is
  modelled, so nothing read earlier is written.
- Abstractions: timestamps are set or null; the public and inventory statuses keep one
  value the site offers and one it does not; texts, prices, property types, the audit rows
  and `Property.archived_at` (which no modelled check reads) are left out. A draft is never
  without a summary, since the forms require one.

### StaffAccounts

User rows of Admins and Maintainers, sessions, the editor group. `request[r].copy` is the
User object a request read and changed. `WithRoleOf` and `WithStatusOf` are
`save(update_fields=...)`, with the column that `User.save` adds; `SyncGroup` is the
`post_save` signal, which follows the saved instance, also when `login()` saves
`last_login`. `Usable` is what `ActiveAccountMiddleware` lets through; ending a session by
idle or absolute time, signing out or being refused is the one action `EndSession`.
`MaxVersion` bounds the session versions that are committed.

### Invitations

StaffInvitation rows, the account each address has, and transactions with row locks.

- `StartCreate`, `ReadOpen`, `LockNext`, `CommitCreate` are `create_staff_invitation`. Its
  SELECT ... FOR UPDATE fixes a snapshot of the open invitations (`ReadOpen`), so it misses
  one that a creation it then waits for inserts. It locks those rows one by one, holding some
  while it waits for the next, and passes over a row that is closed when it gets it
  (`LockNext`). The query names no order, so any order is possible.
- `StartAccept` locks the invitation, `InsertUser` inserts the User once no other transaction
  has an uncommitted one of the address, `CommitAccept` commits, `RefusedAccept` is the unique
  email index. `StartRevoke` reads without a lock, `CommitRevoke` waits for one.
- `Deadlock` names the creations for one address that wait for one another. PostgreSQL finds
  them and aborts one: that is an `Abort`, which nothing in the model requires.
- The set `Tokens` bounds the number of invitations; a creation that finds none left rolls
  back (`OutOfTokens`).

### InquiryIntake

One public submission, statement by statement, and the mail it causes; `request[r].step`
is the next statement of request `r`.

- State: `count` is the cache entry of each address, `inquiry`, `notification`, `audit` the
  tables, `delivered` the mails that have arrived. `passed` and `lossless` are history.
- `SubmitFirst`, `SubmitAgain`, `Increment`, `IncrementFails`, `SetCount` are
  `_consume_rate_limit`, each call of the cache a step. The cache is Django's default, in
  the memory of the worker, so a `Crash` empties it. Counts above the limit are alike.
- `Check`, `Suppress`, `Save`, `LogSubmission` are `contact`; `Notify`, `Send`, `Record`,
  `Report` are `notify_new_inquiry`. `Send` may raise although the mail arrives.
- `Age` and `EntryVanishes` let the two time windows pass at any moment. `Fail` is a
  statement on the database that raises, `Crash` the loss of the worker.
- Abstractions: a content stands for the columns `_recent_duplicate` compares; the setting
  of the recipient is constant; the event `inquiry.duplicate_suppressed`, which nothing
  reads, is left out.

### SensitiveAccess and AccessRight

Requests for a phone number or an exact location and the grants they lead to.

- State: `request` and `grant` are the tables, `active` the Admins whose account works,
  `now` the clock, `job[w]` what a worker is doing with the copies it has read.
- `StartReview`, `SeeGrants`, `LockGrant`, `Approve` and `Deny` are the statements of
  `review_sensitive_access`. It locks the access request; its UPDATE fixes the grants to
  replace when it begins (`SeeGrants`), waits for each of them in turn, and looks again only
  whether that row still qualifies (`LockGrant`). A grant inserted by the approval it has
  waited for is not among them.
- `StartRevoke` is the view that reads the grant, `Revoke` the function that writes on that
  copy. `Ask` and `View` are one step, `ChangeAccount` stands for both account services.
- `AccessRight` is the promise about one request, by phases: absent, pending, denied,
  granted, over. `ImplementsAccessRight` maps the tables to phases (`Phase`); a grant that
  is revoked, replaced or expired is over, and no step leads back.
- `MaxTime` bounds the clock. The Owner's own row does not change: `change_staff_role` and
  `change_account_status` refuse it.

### AuditTrail

The rows of the catalogue, the listings, the media and the inquiries, and the entries about
them. `job[w]` carries what a request has read (`before`) and will have saved (`value`).

- `Form` is a Wagtail form with its hooks, the one of inquiries included: `StartEdit` reads,
  `SaveEdit` commits the row, `WriteRevision` or `WriteEvent` commits the entry later.
  `Service` is a function that saves and records in one transaction: `StartService` (archive,
  reactivate, the rows of the guided form), `RestoreRevision`, `StartLockedUpdate` (listing
  services, `update_inquiry`).
- The hook of the development form clears archived_at of a development that leaves the
  archive before it serialises the record. So `before` of that entry (`Restores`) is the row
  without its archived_at (`Undated`), which the row never held; `HistoryIsComplete` says so
  (`StartsFrom`) and asks every other entry to start from exactly what the row held.
- `ReadNumber` computes the number of a revision; `WriteRevision` needs it to be free.
- `StartDelete`, `Delete`, `LogDeletion` are the deletion of a location. A form that has
  read it before may insert it again afterwards.
- `past` and `lost` are history variables: what a row has held, and the rows one of whose
  changes has no entry. A revision and its event are one entry: they are inserted in one
  transaction. The rows that the guided form saves are taken one by one.

### MediaLibrary

Media rows and their targets. `SeeCovers` and `ClearCovers` are the two halves of the UPDATE
in `CatalogueMedia.save`: it chooses its rows, waits for those that are locked and looks at
them again; `Save` writes the whole row and meets the unique index (`Refused`). The edit
form keeps the `archived_at` it has read. `MediaForListing` and `First` are the choice of
the photo on a card.

### ListingSearch

Offers, the two forms that save them, and `listing_index` with its cards as operators.
`CleanRows` is `Offer.clean` with the constraints, `GuidedClean` the guided form's own
validation, `GuidedRow` the row the form saves, with the lease and reservation columns it
does not show. Prices are in half pesos, so that rounding (`Rounded`) matters.
`ListingIndex(f)` is the query; `CardAnswers(l, f)` what a visitor would say of the card.

### Articles

Articles with `live`, `archived` and `archived_at`, their categories, and the pages that an
editor has restricted with Wagtail's privacy setting (`SetPrivacy`; `restricted`). Drafts of a
live page are left out: only the editor reads them. `ResourceIndex`, `FeaturedArticles`,
`Served`, `SearchResults` are the four places that show articles. The two lists ask for
`.public()`: an article with a restriction, or under a restricted Resources page, is served to
the visitors who pass it and listed to nobody. So the lists are compared with `ServedToAll`,
what any visitor can open.

### RolePermissions

Operators only: capabilities, `has_perm`, the policy of the contact page, and `AgreeAbout`,
which compares them for one account. `MCStaffAccounts` states it (`RightsAgree`) of every
account StaffAccounts reaches, with the editor group, and of the other roles.

### MC modules

`MCPublishing`, `MCStaffAccounts` and `MCInquiryIntake` define the symmetry sets and the sets
of operations that meet in a run. `MCStaffAccounts`, `MCInvitations`, `MCSensitiveAccess` and
`MCRecords` add a constant of a behaviour, `racing`: either any requests overlap or those do
not that nothing in the code keeps apart, and the properties that only the second keeps are
stated of it (`Serial...`, `...UnlessRacing`). Kept apart are all requests (`OneBusy` of
Invitations and AuditTrail, `OneMediaBusy`), two requests about one person (`OneForEach` of
StaffAccounts), or two approvals of one access (`ApprovalsApart` of SensitiveAccess). All
other properties, the type invariants among them, are checked of both.

`MCStaffAccounts` bounds its racing behaviours (`OneRaced`): their requests are all about one
person. No request touches the row or the sessions of somebody else, so requests that race
about two people are two such behaviours side by side. `MCInvitations` leaves out behaviours
that differ from others in names only (`Reduced`): tokens are taken in one order, and the
first address to be invited is always the same. `MCRecords` takes AuditTrail and MediaLibrary,
and `MCStorefront` ListingSearch and Articles, side by side: a behaviour moves one of the two,
which share no row.

## Runs

| Run | Instance | Shows |
|---|---|---|
| PublishingSerial | 1 request, one row of each table, all operations | `TypeOK`, `PublicPagesAgree`, `PublishOnlyExplicitly`, `RestoredAsDraft`, `ArchiveRespectsDependants` |
| PublishingRace | 2 requests on one listing, every save of a listing | `ArchivedTogether`, `PublishedIsDated`, `ServicesLoseNoUpdate` |
| StaffAccountsSerial | 2 requests, both about one person, or about different people whenever they overlap; 2 people, 2 sessions, versions to 4 | `TypeOK`, `FlagsAgree`, `GroupUnlessRacing`, `RightsUnlessRacing`, `SessionsEndUnlessRacing`, `NoRevivalUnlessRacing` |
| Invitations | 2 requests, overlapping or not, 2 addresses, 3 invitations, fair | `TypeOK`, `OneAccountPerAcceptance`, `RevokedIsNeverAccepted`, `RequestsEnd`, `SerialAcceptedIsNeverRevoked`, `SerialOneWayIn` |
| InquiryIntake | 2 requests, 3 inquiries of one content, 1 address, limit 2 | `TypeOK`, `AlertsAreSentOnce`, `OutcomeIsTrue`, `CopiesAreBounded`, `LimitIsBounded`, `NothingIsForgotten` |
| SensitiveAccess | 2 workers, approvals of one access overlapping or not, 1 Admin, 2 subjects, 3 requests, 3 grants, time to 2 | `TypeOK`, `OneGrantPerRequest`, `AccessWasApproved`, `SerialOneLiveGrant`, `SerialRevocationEndsAccess`, `ImplementsAccessRight` |
| Records | 2 workers; a location, a development, a listing, a medium, an inquiry, 2 values (1 of them archived), 2 entries each; 3 media, 2 targets | `RevisionsAreNumbered`, `SerialHistoryIsComplete`, `SerialSavesSucceed`, `CoverIsShown`, `CoverIsReplaced` |
| Storefront | 1 listing, 2 offers, 2 prices, every filter; 2 articles, restricted or not, 2 categories | `ResultsMatchCards`, `GuidedFormIsSaved`, `ListsAgreeWithPages` |
| PublishingArchiveRace | 2 requests | finding: a development archived under a listing published at the same time |
| StaffAccountsRoleSessions | 2 requests, 1 person, 1 session | finding: two changes reach the same session version and a session survives |
| InquiryRetry | 1 request, 2 inquiries | finding: a repetition is thanked for an inquiry whose alert was lost |
| ArticleSearch | 2 articles | finding: the search lists an archived article |

Why the bounds are enough. Two requests is what the deployment serves at once, and a lost
update or a write skew needs two. One row of each table is enough for races on a row; that
the indirect paths of `ArchiveRespectsDependants` hold with more is proved. Two addresses
let links of one address race while another address proceeds; three tokens let a link be
replaced twice, or two creations that overlap leave two links open, whose locks a later pair
of creations takes in opposite order (TLC reaches that `Deadlock`). Four versions let two
changes, a sign-in between them and one more change happen. Three inquiries are one more
than two requests can store side by side, a limit of two is the least that distinguishes
counting from refusing everything; submissions of different addresses or contents touch
different entries and rows, so one of each is enough. Three access requests and grants let
two reviews race after a first grant; reviews of different people or subjects touch
different grants, and two subjects show that they do. Two entries let an entry follow
another; entries of different rows meet nowhere, so requests that overlap are all about one
row. Three media and two targets let a cover move, be replaced and be taken back. One
listing is enough because the query decides about each listing alone; of its two offers one
is inactive at least. Its two prices have half pesos, one that a card rounds down and one
that it rounds up, and the filters name both neighbours.

Which properties hold only while requests do not overlap. When they do TLC refutes, by the
same stale reads:

- `PublishOnlyExplicitly` and `RestoredAsDraft` of Publishing: a form saved over a listing or
  development that was archived in the meantime brings it back as it was;
- `EditorsAreActiveAdmins` and with it `RightsAgree`, `ChangesEndSessions` and
  `NoSessionRevives` of StaffAccounts, when the requests are about the same person;
- `AcceptedIsNeverRevoked` and `OneWayIn` of Invitations: a revocation of a link that has
  been accepted meanwhile, two creations for one address;
- `OneLiveGrant` and `RevocationEndsAccess` of SensitiveAccess: two approvals for
  one person and subject each revoke the grants that were there when their UPDATE began, and
  each insert their own, whether there was one to replace or none; revoking one then leaves
  the other (serially, `access_requests/tests.py:64` tests that a revocation ends the access).
  Only such approvals do it: a revocation or an expiry may come between their statements;
- `HistoryIsComplete` of AuditTrail, where an entry may start from a value that another
  edit has replaced, and `SavesSucceed` of MediaLibrary, where the unique index refuses.

The serial runs say that the operations themselves are right, the races that nothing
protects them from each other.

Two more statements do not hold even one request at a time, and no run is spent on them:
`PropertyAgreesWithModel` of Publishing (a house model moves to another development and
leaves its properties behind, although the guide says in line 98 that they must agree), and
`AccessIsRecorded` of SensitiveAccess (`private_location` shows an exact location without an
AuditEvent, although the guide says in line 285 that access is recorded). A third is written
into the definition of `HistoryIsComplete`: the entry of a development taken out of the
archive by the form starts from columns the row never held together.

Deadlock is checked except in Invitations and Records, where the system may rest: every
address has its account and no token is left; the only row there is has been deleted.

### Fairness

Only `RequestsEnd` is about progress. `Fairness` gives every request strong fairness for its
next statement (`Proceed`). A statement that waits for no one is run, and PostgreSQL queues
those that wait for a row lock or for another's INSERT: a waiter gets its turn, while here
others could come in between again and again. An `Abort` is never required, so what is shown
does not rest on transactions that give up.

Fairness does not resolve a deadlock, and the model can reach one: two creations for one
address that each have locked one open invitation and want the other's. `RequestsEnd` is
therefore that a request ends or such creations wait for one another (`Deadlock`). It says
that nothing else can: no acceptance or revocation waits for ever, nor do creations for
different addresses, nor an acceptance that holds its row and waits for another's INSERT.

## Proofs

TLAPS checks the theorems for every value of the constants: any number of requests, rows,
people, sessions and invitations. Every invariant and every action property that a passing
run checks is the subject of one. Those that hold only while requests do not overlap are
proved with that as a hypothesis on the behaviour, for any number of workers: `[]OneBusy` (one
request at a time), `[]OneForEach` (one at a time for each person, or each row) or
`[]ApprovalsApart`; or of `MCSpec` with its `racing`, for any values of the constants and
without the bounds `OneRaced` and symmetry. So the theorem says what a deployment with one
thread, or a lock around the operation, would give.

- `PublishingProofs`: `TypeCorrect`, `AlwaysArchivedTogether`, `PublishedIsAlwaysDated`,
  `PublicPagesAlwaysAgree`, `ServicesNeverLoseAnUpdate`. None of the properties is
  inductive: a commit writes what a start kept long before. The inductive invariant `PInv`
  says that the committed rows are clean (archived_at agrees with the status, published is
  dated), that the rows every `txn[r]` is about to save are clean too, that no two requests
  lock the same listing, and that what a service keeps for a row differs from the row in
  the service's own columns only. The last part survives the other requests because their
  saves wait for the lock. The two definitions of "public" agree in any well-typed state
  with one target per listing.
  Under `[]OneBusy`: `SerialArchiveRespectsDependants`, by the invariant `FreeToArchive` (what
  `Development.clean` saw when a request began still holds when its save of an archived
  development commits), and `SerialPublishOnlyExplicitly`, `SerialRestoredAsDraft`, by the
  invariant `Honest` (the rows a request is about to save publish nothing that is not
  published already, unless it is `publish_listing`, and take nothing out of the archive but
  as a draft, unless it is `restore_catalog_revision`).
- `StaffAccountsProofs`: `TypeCorrect` and `FlagsAlwaysAgree` for any number of requests:
  each copy in flight agrees with itself, and each save writes a group of columns that
  belong together. Of `MCSpec`, unless racing (no two requests about the same person overlap):
  `SerialChangeEndsSessions`, `SerialInvalidatedStaysInvalid`, `SerialEditorsAreActiveAdmins`
  and `SerialRightsAgree`. Then a copy in flight is the current row, one change ahead
  (`FreshCopies`), two sign-ins make two sessions (`KeysDiffer`) and no session carries a
  version above its owner's (`SessionsFollow`). The rights agree because the three tables do
  for any user whose is_active is right (`TablesAgree`), and the group follows the account.
- `InvitationsProofs`: `TypeCorrect`, `OneAccount`, `NeverAcceptedAfterRevocation`. The
  invariant relates locks to requests: a lock has one holder, the invitation an acceptance
  holds is open until it commits, and an uncommitted User is the only one of its address
  (`InsertsAreAlone`). `OneAfterAnother` and its two instances `SerialOneEnd`, `SerialOneWay`
  add what a request that is alone knows: the invitation it read is still open, and a creation
  has locked every open one of its address but those it has yet to come to.
- `InquiryIntakeProofs`: `TypeCorrect`, `AlertsAlwaysSentOnce`, `OutcomeAlwaysTrue`. The
  invariant `MailInv` says that a request that has stored an inquiry is the only one to mail
  about it, and how far the notification and the mail are at each of its steps.
  `CopiesAlwaysBounded` and `LimitAlwaysBounded` count: the recent copies of a content and the
  requests that have passed the check for it are together no more than the requests
  (`FewCopies`); what an address has let through, what its entry still lets through and a full
  limit for every late `cache.set` to come stay within RateLimit for each request (`LimitInv`).
  `NothingEverForgotten`: an inquiry not yet told is in the hands of a request that has
  logged it (`TellInv`).
- `SensitiveAccessProofs`: `TypeCorrect`, `OneGrant`, `AccessWasAlwaysApproved` and
  `Refinement` (Spec implements AccessRight). The invariant says that a review holds its
  request, which is pending until the review commits, and that the clock has not gone back
  since it began; so an approval adds the request's only grant, and each action maps to one
  move of a request, to rights that end, or to nothing. `OnlyApprovalsRace`, under
  `[]ApprovalsApart`, and its instances `SerialOneGrant` and `SerialRevocation`: one grant per
  person and subject is unrevoked (`OneUnrevoked`), and the UPDATE of an approval has seen it,
  so that until it commits it is among the rows the approval has locked or has yet to come to
  (`NoneMissed`).
- `AuditTrailProofs`: `TypeCorrect`, `RevisionsAlwaysNumbered`. A number that was read is at
  most one above those taken, since none is ever removed; free when it commits, it is the
  next. `OneForEachRow`, under `[]OneForEach` (no two requests about the same row), and its
  instance `SerialHistory`: the entries of a row at rest chain from its first value to its
  present one, but for the archived_at that the hook of a restored development drops
  (`AtRest`); while a request is at work on it, the gap at the end is what that request is
  about to write down (`InProgress`).
- `MediaLibraryProofs`: `TypeCorrect`, `CoversAreAlwaysReplaced`. The covers a save has
  cleared stay covers of its target until it commits, because it holds their locks; so the
  commit that takes one away puts its own in its place. `CoverAlwaysShown` needs that an
  archived row is no cover, in the table and in the copies. `OneAfterAnother` and
  `SerialSaves`: a save alone has cleared every other cover of its target (`RoomIsMade`).
- `StorefrontProofs`: `SearchMatchesCards`, `GuidedFormSaves`, `ArticleListsAgree`. The
  invariant of the offers says that every row satisfies `Offer.clean` and a listing has one
  active offer at most; then the filters, which may each be answered by another offer in
  SQL, are about the one offer whose card is shown, and rounding to a whole peso moves a
  price across a limit only from half a peso beside it (`RoundedIsNear`). The articles need
  only that archived_at follows archived in every row, whatever is restricted.

Two proofs changed the model. The one of `ResultsMatchCards` failed on a price that a card
rounds up to the minimum of the filter (3.50 shown as 4 and not found from 4): the earlier
amounts had only prices rounded down, so the run had not met it. The property now names both
limits, and the run has both prices. The one of `CopiesAreBounded` needed that requests are
finitely many.

Assumptions: `NoneAssumption` (the null value is no key and no row), `OperationsAssumption`,
`VersionAssumption`, `RateLimitAssumption`, `RequestsAssumption` (finitely many requests at a
time), `TimeAssumption`, `RowAssumption`, `NumbersAssumption` (prices, limits and bedrooms are
naturals), `FactsAssumption`. TLC evaluates them in every run. `CoversAreAlwaysReplaced`
assumes of itself that None is no row.

Only model-checked: `RequestsEnd`, since liveness under fairness is outside what TLAPS proves.

## Findings

1. Publishing a listing and archiving its development at the same time both succeed
   (`PublishingArchiveRace`). The guide says a development cannot be archived while
   published listings depend on it.
2. Role and status changes increment a session version read without a lock; two changes
   count as one and a session survives (`StaffAccountsRoleSessions`). The guide says a
   change invalidates the person's sessions.
3. An inquiry stored just before the database or the worker is lost never gets its alert,
   and submitting it again within ten minutes is thanked for as a duplicate
   (`InquiryRetry`). The guide says every new inquiry causes one alert.
4. An article published with its Archived box ticked stays live: its page answers 404 and
   the lists leave it out, but the search of the site lists it (`ArticleSearch`). The form
   says that the box hides the article from the public site.

## Not modelled

Templates, styling, geography data, the seed command, settings and deployment files carry no
state of the kind above. The dashboard only reads. `update_inquiry`, `add_inquiry_note`,
`restore_catalog_revision`, `set_public_status` and the archive and reactivate functions are
called by tests only at this commit; all but `add_inquiry_note` are modelled all the same.

Of the modelled components are left out: texts, quantities, coordinates and addresses, which
only their own validation reads; `Property.archived_at`; the deletion of what Django protects
anyway; the OTP step, idle and absolute session times and password reset, each a check of
one row by one request; the assignment rule of an inquiry (`Inquiry.clean`); Wagtail's
revisions and workflow of pages; the order of listings and the similar listings of a page.

## Plan

What is left, in order:

1. `SessionPolicy`: the idle and absolute times of a session and the OTP step, composed with
   StaffAccounts.
2. Staff follow-up of an inquiry beside InquiryIntake: an assignee who loses the role or is
   suspended keeps the inquiry, which can then not be saved.
3. Page revisions in Articles: a draft of a live page that is archived or unpublished.
4. Proofs: a hypothesis about one row or address instead of `OneBusy` for Publishing, Invitations
   and MediaLibrary, as `OneForEach` is for StaffAccounts and AuditTrail; the condition under
   which `RequestsEnd` needs no strong fairness.
