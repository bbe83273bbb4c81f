----------------------------- MODULE MediaLibrary -----------------------------
(***************************************************************************)
(* The photos and floor plans of the catalogue, apps/media_library: at most *)
(* one active cover for each property, house model or development.          *)
(*                                                                         *)
(* CatalogueMedia.save makes room for a new cover (an UPDATE of the others) *)
(* and saves the whole row in one transaction.  An UPDATE chooses its rows  *)
(* when it begins, waits for those that are locked and looks at them again; *)
(* a partial unique index refuses a second cover at the end.                *)
(***************************************************************************)
EXTENDS Naturals, FiniteSets

CONSTANTS
    Media,
    Targets,         \* properties, house models and developments
    Workers,         \* the requests that can be in progress at the same time
    None

VARIABLES media, job

vars == <<media, job>>

Kind == {"PHOTO", "FLOOR_PLAN"}
Row == [target: Targets, kind: Kind, is_cover: BOOLEAN, archived_at: BOOLEAN]
Job ==
    [step: {"see", "clear", "save", "archive"}, media: Media, row: Row,
     seen: SUBSET Media, cleared: SUBSET Media]

Init ==
    /\ media = [m \in Media |-> None]
    /\ job = [w \in Workers |-> None]

At(w, step) == job[w] # None /\ job[w].step = step
InHand == {job[w].media : w \in {v \in Workers : job[v] # None}}
LockedByOther(w, m) == \E v \in Workers \ {w} : job[v] # None /\ m \in job[v].cleared

ActiveOf(t) == {m \in Media : media[m] # None /\ media[m].target = t /\ ~media[m].archived_at}
CoversOf(t) == {m \in ActiveOf(t) : media[m].is_cover}

(* Mutant of Clean: a floor plan may be a cover.                            *)
CleanOfAnyKind(row) == row.is_cover => ~row.archived_at

(* CatalogueMedia.clean, of a row with one target and a text.               *)
Clean(row) == row.is_cover => ~row.archived_at /\ row.kind = "PHOTO"

(* media_for_listing, of the targets of a listing in their order: the       *)
(* photos of the first that has any; and which of them may come first.      *)
MediaForListing(targets, kind) ==
    LET Of(t) == {m \in ActiveOf(t) : media[m].kind = kind}
    IN {m \in Media : \E i \in DOMAIN targets :
           m \in Of(targets[i]) /\ \A j \in 1..(i - 1) : Of(targets[j]) = {}}
First(gallery) ==
    {m \in gallery : media[m].is_cover \/ \A n \in gallery : ~media[n].is_cover}

-----------------------------------------------------------------------------
Begin(w, j) ==
    /\ job[w] = None
    /\ job' = [job EXCEPT ![w] = j]
    /\ UNCHANGED media

(* The create form, and the edit form on the row it has read: archived_at   *)
(* is not in the form.                                                      *)
StartSave(w, m, target, kind, is_cover) ==
    LET row == [target |-> target, kind |-> kind, is_cover |-> is_cover,
                archived_at |-> media[m] # None /\ media[m].archived_at]
    IN /\ media[m] = None => m \notin InHand
       /\ Clean(row)
       /\ Begin(w, [step |-> IF is_cover THEN "see" ELSE "save", media |-> m, row |-> row,
                    seen |-> {}, cleared |-> {}])

(* The UPDATE of the other covers begins.                                   *)
SeeCovers(w) ==
    /\ At(w, "see")
    /\ job' = [job EXCEPT ![w].step = "clear",
                          ![w].seen = CoversOf(job[w].row.target) \ {job[w].media}]
    /\ UNCHANGED media

(* Mutants of ClearCovers: it commits on its own; it is left out.           *)
ClearCoversAtOnce(w) ==
    /\ At(w, "clear")
    /\ \A m \in job[w].seen : ~LockedByOther(w, m)
    /\ media' = [m \in Media |->
                    IF m \in job[w].seen THEN [media[m] EXCEPT !.is_cover = FALSE] ELSE media[m]]
    /\ job' = [job EXCEPT ![w].step = "save"]
ClearNoCovers(w) ==
    /\ At(w, "clear")
    /\ job' = [job EXCEPT ![w].step = "save"]
    /\ UNCHANGED media

(* It goes through: it holds those that still are covers of the target.     *)
ClearCovers(w) ==
    /\ At(w, "clear")
    /\ \A m \in job[w].seen : ~LockedByOther(w, m)
    /\ job' = [job EXCEPT ![w].step = "save",
                          ![w].cleared = job[w].seen \cap CoversOf(job[w].row.target)]
    /\ UNCHANGED media

(* What the unique index would refuse.                                      *)
Refused(w) ==
    /\ job[w].row.is_cover
    /\ CoversOf(job[w].row.target) \ (job[w].cleared \cup {job[w].media}) # {}

Save(w) ==
    /\ At(w, "save")
    /\ ~LockedByOther(w, job[w].media)
    /\ ~Refused(w)
    /\ media' = [m \in Media |->
                    IF m = job[w].media THEN job[w].row
                    ELSE IF m \in job[w].cleared THEN [media[m] EXCEPT !.is_cover = FALSE]
                    ELSE media[m]]
    /\ job' = [job EXCEPT ![w] = None]

(* CatalogueMedia.archive, on a row its caller has read: two columns.       *)
StartArchive(w, m) ==
    /\ media[m] # None
    /\ Begin(w, [step |-> "archive", media |-> m, row |-> media[m],
                 seen |-> {}, cleared |-> {}])

Archive(w) ==
    /\ At(w, "archive")
    /\ ~LockedByOther(w, job[w].media)
    /\ media' = [media EXCEPT ![job[w].media].archived_at = TRUE,
                              ![job[w].media].is_cover = FALSE]
    /\ job' = [job EXCEPT ![w] = None]

(* The index refuses, two requests wait for each other, a worker is lost.   *)
Abort(w) ==
    /\ job[w] # None
    /\ job' = [job EXCEPT ![w] = None]
    /\ UNCHANGED media

-----------------------------------------------------------------------------
Next ==
    \E w \in Workers :
        \/ \E m \in Media :
              \/ \E t \in Targets, k \in Kind, c \in BOOLEAN : StartSave(w, m, t, k, c)
              \/ StartArchive(w, m)
        \/ SeeCovers(w)
        \/ ClearCovers(w)
        \/ Save(w)
        \/ Archive(w)
        \/ Abort(w)

Spec == Init /\ [][Next]_vars

-----------------------------------------------------------------------------
TypeOK ==
    /\ media \in [Media -> Row \cup {None}]
    /\ job \in [Workers -> Job \cup {None}]

(* However saves race, a record keeps a cover once it has one, until that   *)
(* cover itself is edited or archived: nobody takes the place of a cover    *)
(* and fails to fill it.                                                    *)
CoverIsReplaced ==
    [][\A t \in Targets : CoversOf(t) # {} /\ CoversOf(t)' = {} =>
          \E w \in Workers : job[w] # None /\ job[w].media \in CoversOf(t) /\ job'[w] = None]_vars

(* The active cover of a record is the first photo that its listing shows.  *)
CoverIsShown ==
    \A t \in Targets : CoversOf(t) # {} =>
        First(MediaForListing(<<t>>, "PHOTO")) = CoversOf(t)

(* A new cover finds the place free: the unique index never refuses a save. *)
SavesSucceed == \A w \in Workers : At(w, "save") => ~Refused(w)

=============================================================================
