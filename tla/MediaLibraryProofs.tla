-------------------------- MODULE MediaLibraryProofs --------------------------
(***************************************************************************)
(* Proofs about MediaLibrary, for any media, targets and number of requests *)
(* in progress; the last of them for requests that follow one another       *)
(* (OneMediaBusy).                                                          *)
(***************************************************************************)
EXTENDS MCRecords, TLAPS

(* A request that makes room saves an active cover; the covers it has        *)
(* cleared still are covers of its target, and no other request holds them. *)
RoomIsHeld ==
    \A w \in Workers : mediaJob[w] # None =>
        /\ mediaJob[w].step \in {"see", "clear"} \/ mediaJob[w].cleared # {} =>
              mediaJob[w].row.is_cover /\ ~mediaJob[w].row.archived_at
        /\ mediaJob[w].cleared \subseteq Library!CoversOf(mediaJob[w].row.target)
        /\ \A v \in Workers \ {w} :
              mediaJob[v] # None => mediaJob[v].cleared \cap mediaJob[w].cleared = {}

(* What is to be archived is there; no row is ever deleted.                 *)
ArchivesARow ==
    \A w \in Workers : Library!At(w, "archive") => media[mediaJob[w].media] \in Library!Row

IInv == Library!TypeOK /\ RoomIsHeld /\ ArchivesARow

-----------------------------------------------------------------------------
(* A request that takes up a job, or drops one, and saves nothing.          *)
LEMMA WaitKeeps ==
    ASSUME IInv, NEW w \in Workers, NEW j \in Library!Job \cup {None},
           mediaJob' = [mediaJob EXCEPT ![w] = j], UNCHANGED media,
           j # None => /\ j.cleared = {}
                       /\ j.step = "archive" => media[j.media] \in Library!Row
                       /\ j.step \in {"see", "clear"} => j.row.is_cover /\ ~j.row.archived_at
    PROVE  IInv'
<1>1. Library!TypeOK' BY DEF IInv, Library!TypeOK
<1>2. \A t : Library!CoversOf(t)' = Library!CoversOf(t)
  BY DEF Library!CoversOf, Library!ActiveOf
<1>3. RoomIsHeld' BY <1>2 DEF IInv, Library!TypeOK, RoomIsHeld
<1>4. ArchivesARow' BY DEF IInv, Library!TypeOK, ArchivesARow, Library!At
<1> QED BY <1>1, <1>3, <1>4 DEF IInv

(* The UPDATE of the other covers: it waits for those that others hold.     *)
LEMMA ClearCoversKeeps ==
    ASSUME IInv, NEW w \in Workers, Library!ClearCovers(w)
    PROVE  IInv'
<1> DEFINE cleared == mediaJob[w].seen \cap Library!CoversOf(mediaJob[w].row.target)
           j == [mediaJob[w] EXCEPT !.step = "save", !.cleared = cleared]
<1>1. mediaJob[w] # None /\ mediaJob[w] \in Library!Job /\ mediaJob[w].step = "clear"
  BY DEF Library!ClearCovers, Library!At, IInv, Library!TypeOK
<1>2. mediaJob' = [mediaJob EXCEPT ![w] = j] /\ UNCHANGED media
  BY <1>1 DEF Library!ClearCovers, IInv, Library!TypeOK
<1>3. j \in Library!Job /\ j.step = "save" /\ j.cleared = cleared /\ j.row = mediaJob[w].row
  BY <1>1 DEF Library!Job
<1>4. \A t : Library!CoversOf(t)' = Library!CoversOf(t)
  BY <1>2 DEF Library!CoversOf, Library!ActiveOf
<1>5. \A v \in Workers \ {w} : mediaJob[v] # None => mediaJob[v].cleared \cap cleared = {}
  BY DEF Library!ClearCovers, Library!LockedByOther
<1>6. mediaJob[w].row.is_cover /\ ~mediaJob[w].row.archived_at
  BY <1>1 DEF IInv, RoomIsHeld
<1>7. cleared \subseteq Library!CoversOf(mediaJob[w].row.target) OBVIOUS
<1>8. Library!TypeOK' BY <1>2, <1>3 DEF IInv, Library!TypeOK
<1> HIDE DEF cleared, j
<1>9. mediaJob'[w] = j /\ \A v \in Workers \ {w} : mediaJob'[v] = mediaJob[v]
  BY <1>2 DEF IInv, Library!TypeOK
<1>10. RoomIsHeld'
  <2> SUFFICES ASSUME NEW v \in Workers, mediaJob'[v] # None
               PROVE  /\ mediaJob'[v].step \in {"see", "clear"} \/ mediaJob'[v].cleared # {} =>
                            mediaJob'[v].row.is_cover /\ ~mediaJob'[v].row.archived_at
                      /\ mediaJob'[v].cleared \subseteq Library!CoversOf(mediaJob[v].row.target)'
                      /\ \A u \in Workers \ {v} :
                            mediaJob'[u] # None =>
                                mediaJob'[u].cleared \cap mediaJob'[v].cleared = {}
    BY DEF RoomIsHeld
  <2>1. CASE v = w
    BY <1>3, <1>4, <1>5, <1>6, <1>7, <1>9, <2>1
  <2>2. CASE v # w
    BY <1>3, <1>4, <1>5, <1>9, <2>2 DEF IInv, RoomIsHeld
  <2> QED BY <2>1, <2>2
<1>11. ArchivesARow'
  BY <1>2, <1>3, <1>9 DEF IInv, ArchivesARow, Library!At
<1> QED BY <1>8, <1>10, <1>11 DEF IInv

(* A commit changes no row that another request holds.                      *)
LEMMA CommitKeeps ==
    ASSUME IInv, NEW w \in Workers, mediaJob' = [mediaJob EXCEPT ![w] = None],
           media' \in [Media -> Library!Row \cup {None}],
           \A m \in Media : media[m] \in Library!Row => media'[m] \in Library!Row,
           \A v \in Workers \ {w}, m \in Media :
               mediaJob[v] # None /\ m \in mediaJob[v].cleared => media'[m] = media[m]
    PROVE  IInv'
<1>1. Library!TypeOK' BY DEF IInv, Library!TypeOK
<1>2. RoomIsHeld'
  <2> SUFFICES ASSUME NEW v \in Workers, mediaJob'[v] # None
               PROVE  /\ mediaJob'[v].step \in {"see", "clear"} \/ mediaJob'[v].cleared # {} =>
                            mediaJob'[v].row.is_cover /\ ~mediaJob'[v].row.archived_at
                      /\ mediaJob'[v].cleared \subseteq Library!CoversOf(mediaJob[v].row.target)'
                      /\ \A u \in Workers \ {v} :
                            mediaJob'[u] # None =>
                                mediaJob'[u].cleared \cap mediaJob'[v].cleared = {}
    BY DEF RoomIsHeld
  <2>1. v # w /\ mediaJob'[v] = mediaJob[v] /\ mediaJob[v] # None BY DEF IInv, Library!TypeOK
  <2>2. mediaJob[v].cleared \subseteq Library!CoversOf(mediaJob[v].row.target)
    BY <2>1 DEF IInv, RoomIsHeld
  <2>3. mediaJob[v].cleared \subseteq Library!CoversOf(mediaJob[v].row.target)'
    BY <2>1, <2>2 DEF Library!CoversOf, Library!ActiveOf
  <2>4. \A u \in Workers \ {v} :
            mediaJob'[u] # None => mediaJob'[u].cleared \cap mediaJob'[v].cleared = {}
    BY <2>1 DEF IInv, Library!TypeOK, RoomIsHeld
  <2>5. mediaJob[v].step \in {"see", "clear"} \/ mediaJob[v].cleared # {} =>
            mediaJob[v].row.is_cover /\ ~mediaJob[v].row.archived_at
    BY <2>1 DEF IInv, RoomIsHeld
  <2> QED BY <2>1, <2>3, <2>4, <2>5
<1>3. ArchivesARow'
  <2> SUFFICES ASSUME NEW v \in Workers, mediaJob'[v] # None, mediaJob'[v].step = "archive"
               PROVE  media'[mediaJob'[v].media] \in Library!Row
    BY DEF ArchivesARow, Library!At
  <2>1. mediaJob'[v] = mediaJob[v] /\ mediaJob[v] \in Library!Job BY DEF IInv, Library!TypeOK
  <2>2. mediaJob[v].media \in Media /\ media[mediaJob[v].media] \in Library!Row
    BY <2>1 DEF Library!Job, IInv, ArchivesARow, Library!At
  <2> QED BY <2>1, <2>2
<1> QED BY <1>1, <1>2, <1>3 DEF IInv

LEMMA SaveKeeps ==
    ASSUME IInv, NEW w \in Workers, Library!Save(w)
    PROVE  IInv'
<1>1. mediaJob[w] # None /\ mediaJob[w] \in Library!Job
  BY DEF Library!Save, Library!At, IInv, Library!TypeOK
<1>2. mediaJob' = [mediaJob EXCEPT ![w] = None] BY DEF Library!Save
<1>3. \A m \in Media : media[m] # None =>
          media[m] \in Library!Row /\ [media[m] EXCEPT !.is_cover = FALSE] \in Library!Row
  BY DEF IInv, Library!TypeOK, Library!Row
<1>4. \A m \in mediaJob[w].cleared : media[m] # None
  BY <1>1 DEF IInv, RoomIsHeld, Library!CoversOf, Library!ActiveOf
<1>5. media' \in [Media -> Library!Row \cup {None}]
  BY <1>1, <1>3, <1>4 DEF Library!Save, Library!Job, IInv, Library!TypeOK
<1>6. \A m \in Media : media[m] \in Library!Row => media'[m] \in Library!Row
  BY <1>1, <1>3, <1>4 DEF Library!Save, Library!Job, Library!Row
<1>7. ASSUME NEW v \in Workers \ {w}, NEW m \in Media,
             mediaJob[v] # None, m \in mediaJob[v].cleared
      PROVE  media'[m] = media[m]
  <2>1. m # mediaJob[w].media BY <1>7 DEF Library!Save, Library!LockedByOther
  <2>2. m \notin mediaJob[w].cleared BY <1>1, <1>7 DEF IInv, RoomIsHeld
  <2> QED BY <2>1, <2>2 DEF Library!Save
<1> QED BY <1>2, <1>5, <1>6, <1>7, CommitKeeps

LEMMA ArchiveKeeps ==
    ASSUME IInv, NEW w \in Workers, Library!Archive(w)
    PROVE  IInv'
<1>1. mediaJob[w] # None /\ mediaJob[w] \in Library!Job
  BY DEF Library!Archive, Library!At, IInv, Library!TypeOK
<1> DEFINE m == mediaJob[w].media
           row == [media[m] EXCEPT !.archived_at = TRUE, !.is_cover = FALSE]
<1>2. m \in Media /\ media[m] \in Library!Row
  BY <1>1 DEF Library!Job, Library!Archive, IInv, ArchivesARow
<1>3. row \in Library!Row BY <1>2 DEF Library!Row
<1>4. media' = [media EXCEPT ![m] = row] BY <1>2 DEF Library!Archive, IInv, Library!TypeOK
<1>5. media' \in [Media -> Library!Row \cup {None}] BY <1>3, <1>4 DEF IInv, Library!TypeOK
<1>6. mediaJob' = [mediaJob EXCEPT ![w] = None] BY DEF Library!Archive
<1>7. \A v \in Workers \ {w}, n \in Media :
          mediaJob[v] # None /\ n \in mediaJob[v].cleared => media'[n] = media[n]
  BY <1>2, <1>4 DEF Library!Archive, Library!LockedByOther, IInv, Library!TypeOK
<1>8. \A n \in Media : media[n] \in Library!Row => media'[n] \in Library!Row
  BY <1>2, <1>3, <1>4 DEF IInv, Library!TypeOK
<1> HIDE DEF m, row
<1> QED BY <1>5, <1>6, <1>7, <1>8, CommitKeeps

-----------------------------------------------------------------------------
LEMMA Initially == Library!Init => IInv
BY DEF Library!Init, IInv, Library!TypeOK, RoomIsHeld, ArchivesARow, Library!At

LEMMA StepKeeps == IInv /\ [Library!Next]_(Library!vars) => IInv'
<1> SUFFICES ASSUME IInv, [Library!Next]_(Library!vars) PROVE IInv' OBVIOUS
<1>1. CASE UNCHANGED Library!vars
  BY <1>1
     DEF Library!vars, IInv, Library!TypeOK, RoomIsHeld, ArchivesARow, Library!At,
         Library!CoversOf, Library!ActiveOf
<1>2. ASSUME NEW w \in Workers, NEW m \in Media, NEW t \in Targets, NEW k \in Library!Kind,
             NEW c \in BOOLEAN, Library!StartSave(w, m, t, k, c)
      PROVE  IInv'
  <2> DEFINE row == [target |-> t, kind |-> k, is_cover |-> c,
                     archived_at |-> media[m] # None /\ media[m].archived_at]
             j == [step |-> IF c THEN "see" ELSE "save", media |-> m, row |-> row,
                   seen |-> {}, cleared |-> {}]
  <2>1. (media[m] # None /\ media[m].archived_at) \in BOOLEAN
    BY DEF IInv, Library!TypeOK, Library!Row
  <2>2. row \in Library!Row BY <2>1 DEF Library!Row
  <2>3. j \in Library!Job BY <2>2 DEF Library!Job
  <2>4. Library!Clean(row) /\ mediaJob' = [mediaJob EXCEPT ![w] = j] /\ UNCHANGED media
    BY <1>2 DEF Library!StartSave, Library!Begin
  <2>5. c => row.is_cover /\ ~row.archived_at BY <2>4 DEF Library!Clean
  <2>6. j.cleared = {} /\ j.step # "archive" /\ j.row = row OBVIOUS
  <2>7. j.step \in {"see", "clear"} => c OBVIOUS
  <2> HIDE DEF row, j
  <2> QED BY <2>3, <2>4, <2>5, <2>6, <2>7, WaitKeeps
<1>3. ASSUME NEW w \in Workers, NEW m \in Media, Library!StartArchive(w, m)
      PROVE  IInv'
  <2> DEFINE j == [step |-> "archive", media |-> m, row |-> media[m],
                   seen |-> {}, cleared |-> {}]
  <2>1. media[m] \in Library!Row BY <1>3 DEF Library!StartArchive, IInv, Library!TypeOK
  <2>2. j \in Library!Job BY <2>1 DEF Library!Job
  <2>3. mediaJob' = [mediaJob EXCEPT ![w] = j] /\ UNCHANGED media
    BY <1>3 DEF Library!StartArchive, Library!Begin
  <2>4. j.cleared = {} /\ j.media = m /\ j.step = "archive" OBVIOUS
  <2> HIDE DEF j
  <2> QED BY <2>1, <2>2, <2>3, <2>4, WaitKeeps
<1>4. ASSUME NEW w \in Workers, Library!SeeCovers(w)
      PROVE  IInv'
  <2> DEFINE seen == Library!CoversOf(mediaJob[w].row.target) \ {mediaJob[w].media}
             j == [mediaJob[w] EXCEPT !.step = "clear", !.seen = seen]
  <2>1. mediaJob[w] # None /\ mediaJob[w] \in Library!Job /\ mediaJob[w].step = "see"
    BY <1>4 DEF Library!SeeCovers, Library!At, IInv, Library!TypeOK
  <2>2. seen \in SUBSET Media BY DEF Library!CoversOf, Library!ActiveOf
  <2>3. j \in Library!Job BY <2>1, <2>2 DEF Library!Job
  <2>4. /\ j.step = "clear" /\ j.row = mediaJob[w].row /\ j.cleared = mediaJob[w].cleared
    BY <2>1 DEF Library!Job
  <2>5. mediaJob' = [mediaJob EXCEPT ![w] = j] /\ UNCHANGED media
    BY <1>4 DEF Library!SeeCovers, IInv, Library!TypeOK
  <2>6. mediaJob[w].row.is_cover /\ ~mediaJob[w].row.archived_at
    BY <2>1 DEF IInv, RoomIsHeld
  <2> HIDE DEF j, seen
  <2>7. mediaJob'[w] = j /\ \A v \in Workers \ {w} : mediaJob'[v] = mediaJob[v]
    BY <2>5 DEF IInv, Library!TypeOK
  <2>8. Library!TypeOK' BY <2>3, <2>5 DEF IInv, Library!TypeOK
  <2>9. \A t : Library!CoversOf(t)' = Library!CoversOf(t)
    BY <2>5 DEF Library!CoversOf, Library!ActiveOf
  <2>10. RoomIsHeld' BY <2>1, <2>4, <2>6, <2>7, <2>9 DEF IInv, RoomIsHeld
  <2>11. ArchivesARow' BY <2>4, <2>5, <2>7 DEF IInv, ArchivesARow, Library!At
  <2> QED BY <2>8, <2>10, <2>11 DEF IInv
<1>5. ASSUME NEW w \in Workers, Library!Abort(w)
      PROVE  IInv'
  BY <1>5, WaitKeeps DEF Library!Abort
<1> QED
  BY <1>1, <1>2, <1>3, <1>4, <1>5, ClearCoversKeeps, SaveKeeps, ArchiveKeeps DEF Library!Next

LEMMA Inductive == Library!Spec => []IInv
BY Initially, StepKeeps, PTL DEF Library!Spec

(* One step leaves a record without the cover it had only by a commit of    *)
(* that cover itself.                                                       *)
LEMMA StepReplaces ==
    ASSUME None \notin Library!Row, IInv, [Library!Next]_(Library!vars), NEW t \in Targets,
           Library!CoversOf(t) # {}, Library!CoversOf(t)' = {}
    PROVE  \E w \in Workers : /\ mediaJob[w] # None /\ mediaJob[w].media \in Library!CoversOf(t)
                              /\ mediaJob'[w] = None
<1>1. PICK c \in Library!CoversOf(t) : c \notin Library!CoversOf(t)' OBVIOUS
<1>2. media' # media BY <1>1 DEF Library!CoversOf, Library!ActiveOf
<1>3. PICK w \in Workers : Library!Save(w) \/ Library!Archive(w)
  BY <1>2
     DEF Library!Next, Library!vars, Library!StartSave, Library!StartArchive, Library!Begin,
         Library!SeeCovers, Library!ClearCovers, Library!Abort
<1>4. mediaJob[w] # None /\ mediaJob[w] \in Library!Job
  BY <1>3 DEF Library!Save, Library!Archive, Library!At, IInv, Library!TypeOK
<1>5. mediaJob'[w] = None
  BY <1>3 DEF Library!Save, Library!Archive, IInv, Library!TypeOK
<1>6. c \in Media /\ media[c] # None /\ media[c].target = t
  BY DEF Library!CoversOf, Library!ActiveOf
<1>7. mediaJob[w].media \in Library!CoversOf(t)
  <2>1. CASE Library!Archive(w)
    <3>1. c = mediaJob[w].media
      BY <1>1, <1>6, <2>1
         DEF Library!Archive, Library!CoversOf, Library!ActiveOf, IInv, Library!TypeOK
    <3> QED BY <3>1
  <2>2. CASE Library!Save(w) /\ mediaJob[w].media # c
    <3>1. c \in mediaJob[w].cleared
      BY <1>1, <1>6, <2>2 DEF Library!Save, Library!CoversOf, Library!ActiveOf
    <3>2. /\ c \in Library!CoversOf(mediaJob[w].row.target)
          /\ mediaJob[w].row.is_cover /\ ~mediaJob[w].row.archived_at
      BY <1>4, <3>1 DEF IInv, RoomIsHeld
    <3>3. mediaJob[w].row.target = t
      BY <1>6, <3>2 DEF Library!CoversOf, Library!ActiveOf
    <3>4. /\ media'[mediaJob[w].media] = mediaJob[w].row
          /\ mediaJob[w].media \in Media /\ mediaJob[w].row \in Library!Row
      BY <1>4, <2>2 DEF Library!Save, Library!Job
    <3>5. mediaJob[w].media \in Library!CoversOf(t)'
      BY <3>2, <3>3, <3>4 DEF Library!CoversOf, Library!ActiveOf
    <3> QED BY <3>5
  <2>3. CASE mediaJob[w].media = c
    BY <2>3
  <2> QED BY <1>3, <2>1, <2>2, <2>3
<1> QED BY <1>4, <1>5, <1>7

-----------------------------------------------------------------------------
(* Every reachable state holds media and jobs of their kinds.               *)
THEOREM TypeCorrect == Library!Spec => []Library!TypeOK
<1>1. IInv => Library!TypeOK BY DEF IInv
<1> QED BY <1>1, Inductive, PTL

(* However saves race, a record keeps a cover once it has one, until that   *)
(* cover itself is edited or archived: CatalogueMedia.save clears and saves  *)
(* in one transaction.                                                      *)
THEOREM CoversAreAlwaysReplaced ==
    ASSUME None \notin Library!Row
    PROVE  Library!Spec => CoverIsReplaced
<1> DEFINE Replaced ==
        \A t \in Targets : Library!CoversOf(t) # {} /\ Library!CoversOf(t)' = {} =>
            \E w \in Workers : mediaJob[w] # None /\ mediaJob[w].media \in Library!CoversOf(t)
                              /\ mediaJob'[w] = None
<1>1. IInv /\ [Library!Next]_(Library!vars) => Replaced
  BY StepReplaces
<1>2. IInv /\ [Library!Next]_(Library!vars) => [Replaced]_(Library!vars)
  BY <1>1
<1>3. Library!Spec => [][Replaced]_(Library!vars)
  BY <1>2, Inductive, PTL DEF Library!Spec
<1> QED BY <1>3 DEF CoverIsReplaced, Library!CoverIsReplaced

-----------------------------------------------------------------------------
(* Every row that is stored, and every row that a form is about to save,    *)
(* has passed CatalogueMedia.clean: an active cover is a photo.             *)
RowsAreClean ==
    /\ \A m \in Media : media[m] # None => Library!Clean(media[m])
    /\ \A w \in Workers :
          mediaJob[w] # None /\ mediaJob[w].step # "archive" => Library!Clean(mediaJob[w].row)

LEMMA CleanStep == IInv /\ RowsAreClean /\ [Library!Next]_(Library!vars) => RowsAreClean'
<1> SUFFICES ASSUME IInv, RowsAreClean, [Library!Next]_(Library!vars) PROVE RowsAreClean' OBVIOUS
<1>1. CASE UNCHANGED Library!vars
  BY <1>1 DEF Library!vars, RowsAreClean
<1>2. ASSUME NEW w \in Workers, NEW j, UNCHANGED media, mediaJob' = [mediaJob EXCEPT ![w] = j],
             j # None /\ j.step # "archive" => Library!Clean(j.row)
      PROVE  RowsAreClean'
  <2>1. mediaJob'[w] = j /\ \A v \in Workers \ {w} : mediaJob'[v] = mediaJob[v]
    BY <1>2 DEF IInv, Library!TypeOK
  <2> QED BY <1>2, <2>1 DEF RowsAreClean
<1>3. ASSUME NEW w \in Workers, NEW m \in Media, NEW t \in Targets, NEW k \in Library!Kind,
             NEW c \in BOOLEAN, Library!StartSave(w, m, t, k, c)
      PROVE  RowsAreClean'
  <2>1. PICK row : /\ Library!Clean(row)
                   /\ row = [target |-> t, kind |-> k, is_cover |-> c,
                             archived_at |-> media[m] # None /\ media[m].archived_at]
    BY <1>3 DEF Library!StartSave
  <2>2. PICK j : j = [step |-> IF c THEN "see" ELSE "save", media |-> m, row |-> row,
                      seen |-> {}, cleared |-> {}]
    OBVIOUS
  <2>3. mediaJob' = [mediaJob EXCEPT ![w] = j] /\ UNCHANGED media /\ j.row = row
    BY <1>3, <2>1, <2>2 DEF Library!StartSave, Library!Begin
  <2> QED BY <1>2, <2>1, <2>3
<1>4. ASSUME NEW w \in Workers, NEW m \in Media, Library!StartArchive(w, m)
      PROVE  RowsAreClean'
  <2>1. PICK j : j = [step |-> "archive", media |-> m, row |-> media[m],
                      seen |-> {}, cleared |-> {}]
    OBVIOUS
  <2>2. mediaJob' = [mediaJob EXCEPT ![w] = j] /\ UNCHANGED media /\ j.step = "archive"
    BY <1>4, <2>1 DEF Library!StartArchive, Library!Begin
  <2> QED BY <1>2, <2>2
<1>5. ASSUME NEW w \in Workers, Library!SeeCovers(w) \/ Library!ClearCovers(w)
      PROVE  RowsAreClean'
  <2>1. mediaJob[w] \in Library!Job /\ mediaJob[w] # None /\ mediaJob[w].step \in {"see", "clear"}
    BY <1>5 DEF Library!SeeCovers, Library!ClearCovers, Library!At, IInv, Library!TypeOK
  <2>2. PICK j : mediaJob' = [mediaJob EXCEPT ![w] = j] /\ j.row = mediaJob[w].row
    <3>1. CASE Library!SeeCovers(w)
      <4>1. PICK j : j = [mediaJob[w] EXCEPT
                              !.step = "clear",
                              !.seen = Library!CoversOf(mediaJob[w].row.target)
                                         \ {mediaJob[w].media}]
        OBVIOUS
      <4>2. mediaJob' = [mediaJob EXCEPT ![w] = j]
        BY <2>1, <3>1, <4>1 DEF Library!SeeCovers, IInv, Library!TypeOK
      <4>3. j.row = mediaJob[w].row BY <2>1, <4>1 DEF Library!Job
      <4> QED BY <4>2, <4>3
    <3>2. CASE Library!ClearCovers(w)
      <4>1. PICK j : j = [mediaJob[w] EXCEPT
                              !.step = "save",
                              !.cleared = mediaJob[w].seen
                                            \cap Library!CoversOf(mediaJob[w].row.target)]
        OBVIOUS
      <4>2. mediaJob' = [mediaJob EXCEPT ![w] = j]
        BY <2>1, <3>2, <4>1 DEF Library!ClearCovers, IInv, Library!TypeOK
      <4>3. j.row = mediaJob[w].row BY <2>1, <4>1 DEF Library!Job
      <4> QED BY <4>2, <4>3
    <3> QED BY <1>5, <3>1, <3>2
  <2>3. UNCHANGED media /\ Library!Clean(mediaJob[w].row)
    BY <1>5, <2>1 DEF Library!SeeCovers, Library!ClearCovers, RowsAreClean
  <2>4. Library!Clean(j.row)
    BY <2>2, <2>3 DEF Library!Clean
  <2> QED BY <1>2, <2>2, <2>3, <2>4
<1>6. ASSUME NEW w \in Workers, Library!Save(w)
      PROVE  RowsAreClean'
  <2>1. /\ mediaJob[w] \in Library!Job /\ mediaJob[w] # None
        /\ Library!Clean(mediaJob[w].row) /\ mediaJob' = [mediaJob EXCEPT ![w] = None]
    BY <1>6 DEF Library!Save, Library!At, IInv, Library!TypeOK, RowsAreClean
  <2>2. ASSUME NEW m \in Media, media'[m] # None
        PROVE  Library!Clean(media'[m])
    <3>1. CASE m = mediaJob[w].media
      BY <1>6, <2>1, <3>1 DEF Library!Save
    <3>2. CASE m # mediaJob[w].media /\ m \in mediaJob[w].cleared
      <4>1. media[m] \in Library!Row
        BY <2>1, <3>2 DEF IInv, Library!TypeOK, RoomIsHeld, Library!CoversOf, Library!ActiveOf
      <4>2. media'[m] = [media[m] EXCEPT !.is_cover = FALSE]
        BY <1>6, <3>2 DEF Library!Save
      <4>3. ~media'[m].is_cover
        BY <4>1, <4>2 DEF Library!Row
      <4> QED BY <4>3 DEF Library!Clean
    <3>3. CASE m # mediaJob[w].media /\ m \notin mediaJob[w].cleared
      BY <1>6, <2>2, <3>3 DEF Library!Save, RowsAreClean
    <3> QED BY <3>1, <3>2, <3>3
  <2> QED BY <2>1, <2>2 DEF RowsAreClean, IInv, Library!TypeOK
<1>7. ASSUME NEW w \in Workers, Library!Archive(w)
      PROVE  RowsAreClean'
  <2>1. /\ mediaJob[w] \in Library!Job /\ mediaJob' = [mediaJob EXCEPT ![w] = None]
        /\ media[mediaJob[w].media] \in Library!Row /\ mediaJob[w].media \in Media
    BY <1>7 DEF Library!Archive, Library!At, IInv, Library!TypeOK, ArchivesARow, Library!Job
  <2>2. ASSUME NEW m \in Media, media'[m] # None
        PROVE  Library!Clean(media'[m])
    <3>1. CASE m = mediaJob[w].media
      <4>1. media'[m] = [media[m] EXCEPT !.archived_at = TRUE, !.is_cover = FALSE]
        BY <1>7, <2>1, <3>1 DEF Library!Archive, IInv, Library!TypeOK
      <4>2. ~media'[m].is_cover
        BY <2>1, <3>1, <4>1 DEF Library!Row
      <4> QED BY <4>2 DEF Library!Clean
    <3>2. CASE m # mediaJob[w].media
      BY <1>7, <2>2, <3>2 DEF Library!Archive, IInv, Library!TypeOK, RowsAreClean
    <3> QED BY <3>1, <3>2
  <2> QED BY <2>1, <2>2 DEF RowsAreClean, IInv, Library!TypeOK
<1>8. ASSUME NEW w \in Workers, Library!Abort(w)
      PROVE  RowsAreClean'
  BY <1>2, <1>8 DEF Library!Abort
<1> QED BY <1>1, <1>3, <1>4, <1>5, <1>6, <1>7, <1>8 DEF Library!Next

(* The listing's first photo is the cover of its record, whatever races:    *)
(* media_for_listing orders the covers before the other photos.             *)
THEOREM CoverAlwaysShown == Library!Spec => []CoverIsShown
<1>1. Library!Init => RowsAreClean
  BY DEF Library!Init, RowsAreClean
<1>2. RowsAreClean => CoverIsShown
  <2> SUFFICES ASSUME RowsAreClean, NEW t \in Targets, Library!CoversOf(t) # {}
               PROVE  Library!First(Library!MediaForListing(<<t>>, "PHOTO")) = Library!CoversOf(t)
    BY DEF CoverIsShown, Library!CoverIsShown
  <2>1. Library!MediaForListing(<<t>>, "PHOTO")
            = {m \in Library!ActiveOf(t) : media[m].kind = "PHOTO"}
    <3>1. DOMAIN <<t>> = {1} /\ <<t>>[1] = t /\ 1..(1 - 1) = {}
      OBVIOUS
    <3> QED BY <3>1 DEF Library!MediaForListing, Library!ActiveOf
  <2>2. Library!CoversOf(t) \subseteq {m \in Library!ActiveOf(t) : media[m].kind = "PHOTO"}
    BY DEF RowsAreClean, Library!Clean, Library!CoversOf, Library!ActiveOf
  <2> QED BY <2>1, <2>2 DEF Library!First, Library!CoversOf
<1> QED BY <1>1, <1>2, Inductive, CleanStep, PTL DEF Library!Spec

-----------------------------------------------------------------------------
(* One request after another, the rows that a save is going to clear are    *)
(* all the covers there are.                                                *)
RoomIsMade ==
    \A w \in Workers :
        /\ Library!At(w, "clear") =>
              mediaJob[w].seen = Library!CoversOf(mediaJob[w].row.target) \ {mediaJob[w].media}
        /\ Library!At(w, "save") /\ mediaJob[w].row.is_cover =>
              Library!CoversOf(mediaJob[w].row.target) \ {mediaJob[w].media}
                  \subseteq mediaJob[w].cleared

(* A job that is put where none was, and is none.                           *)
LEMMA SameJobs ==
    ASSUME Library!TypeOK, NEW w \in Workers, mediaJob[w] = None,
           mediaJob' = [mediaJob EXCEPT ![w] = None]
    PROVE  mediaJob' = mediaJob
BY DEF Library!TypeOK

LEMMA RoomStep ==
    IInv /\ RoomIsMade /\ OneMediaBusy /\ OneMediaBusy' /\ [Library!Next]_(Library!vars)
       => RoomIsMade'
<1> SUFFICES ASSUME IInv, RoomIsMade, OneMediaBusy, OneMediaBusy', [Library!Next]_(Library!vars)
             PROVE  RoomIsMade'
  OBVIOUS
<1>1. CASE UNCHANGED Library!vars
  BY <1>1 DEF Library!vars, RoomIsMade, Library!At, Library!CoversOf, Library!ActiveOf
<1>2. ASSUME NEW w \in Workers, NEW j, mediaJob' = [mediaJob EXCEPT ![w] = j],
             mediaJob[w] # None \/ j # None,
             j # None => UNCHANGED media,
             j # None /\ j.step = "clear" => j.seen = Library!CoversOf(j.row.target) \ {j.media},
             j # None /\ j.step = "save" /\ j.row.is_cover =>
                 Library!CoversOf(j.row.target) \ {j.media} \subseteq j.cleared
      PROVE  RoomIsMade'
  <2>1. mediaJob'[w] = j /\ \A v \in Workers \ {w} : mediaJob'[v] = None
    BY <1>2 DEF OneMediaBusy, IInv, Library!TypeOK
  <2>2. j # None => \A t : Library!CoversOf(t)' = Library!CoversOf(t)
    BY <1>2 DEF Library!CoversOf, Library!ActiveOf
  <2> QED BY <1>2, <2>1, <2>2 DEF RoomIsMade, Library!At
<1>3. ASSUME NEW w \in Workers, NEW m \in Media, NEW t \in Targets, NEW k \in Library!Kind,
             NEW c \in BOOLEAN, Library!StartSave(w, m, t, k, c)
      PROVE  RoomIsMade'
  <2>1. PICK row : row = [target |-> t, kind |-> k, is_cover |-> c,
                          archived_at |-> media[m] # None /\ media[m].archived_at]
    OBVIOUS
  <2>2. PICK j : j = [step |-> IF c THEN "see" ELSE "save", media |-> m, row |-> row,
                      seen |-> {}, cleared |-> {}]
    OBVIOUS
  <2>3. mediaJob' = [mediaJob EXCEPT ![w] = j] /\ UNCHANGED media /\ mediaJob[w] = None
    BY <1>3, <2>1, <2>2 DEF Library!StartSave, Library!Begin
  <2>4. j.step # "clear" /\ (j.step = "save" => ~j.row.is_cover)
    BY <2>1, <2>2
  <2>5. CASE j = None
    BY <1>1, <2>3, <2>5, SameJobs DEF Library!vars, IInv
  <2>6. CASE j # None
    BY <1>2, <2>3, <2>4, <2>6
  <2> QED BY <2>5, <2>6
<1>4. ASSUME NEW w \in Workers, NEW m \in Media, Library!StartArchive(w, m)
      PROVE  RoomIsMade'
  <2>1. PICK j : j = [step |-> "archive", media |-> m, row |-> media[m],
                      seen |-> {}, cleared |-> {}]
    OBVIOUS
  <2>2. /\ mediaJob' = [mediaJob EXCEPT ![w] = j] /\ UNCHANGED media
        /\ j.step = "archive" /\ mediaJob[w] = None
    BY <1>4, <2>1 DEF Library!StartArchive, Library!Begin
  <2>3. CASE j = None
    BY <1>1, <2>2, <2>3, SameJobs DEF Library!vars, IInv
  <2>4. CASE j # None
    BY <1>2, <2>2, <2>4
  <2> QED BY <2>3, <2>4
<1>5. ASSUME NEW w \in Workers, Library!SeeCovers(w)
      PROVE  RoomIsMade'
  <2>1. mediaJob[w] \in Library!Job /\ mediaJob[w] # None
    BY <1>5 DEF Library!SeeCovers, Library!At, IInv, Library!TypeOK
  <2>2. PICK j : j = [mediaJob[w] EXCEPT
                          !.step = "clear",
                          !.seen = Library!CoversOf(mediaJob[w].row.target) \ {mediaJob[w].media}]
    OBVIOUS
  <2>3. mediaJob' = [mediaJob EXCEPT ![w] = j] /\ UNCHANGED media
    BY <1>5, <2>1, <2>2 DEF Library!SeeCovers, IInv, Library!TypeOK
  <2>4. /\ j.step = "clear" /\ j.row = mediaJob[w].row /\ j.media = mediaJob[w].media
        /\ j.seen = Library!CoversOf(mediaJob[w].row.target) \ {mediaJob[w].media}
    BY <2>1, <2>2 DEF Library!Job
  <2> QED BY <1>2, <2>1, <2>3, <2>4
<1>6. ASSUME NEW w \in Workers, Library!ClearCovers(w)
      PROVE  RoomIsMade'
  <2>1. /\ mediaJob[w] \in Library!Job /\ mediaJob[w] # None
        /\ mediaJob[w].seen = Library!CoversOf(mediaJob[w].row.target) \ {mediaJob[w].media}
    BY <1>6 DEF Library!ClearCovers, Library!At, IInv, Library!TypeOK, RoomIsMade
  <2>2. PICK j : j = [mediaJob[w] EXCEPT
                              !.step = "save",
                              !.cleared = mediaJob[w].seen
                                            \cap Library!CoversOf(mediaJob[w].row.target)]
    OBVIOUS
  <2>3. mediaJob' = [mediaJob EXCEPT ![w] = j] /\ UNCHANGED media
    BY <1>6, <2>1, <2>2 DEF Library!ClearCovers, IInv, Library!TypeOK
  <2>4. /\ j.step = "save" /\ j.row = mediaJob[w].row /\ j.media = mediaJob[w].media
        /\ j.cleared = mediaJob[w].seen \cap Library!CoversOf(mediaJob[w].row.target)
    BY <2>1, <2>2 DEF Library!Job
  <2> QED BY <1>2, <2>1, <2>3, <2>4
<1>7. ASSUME NEW w \in Workers, Library!Save(w) \/ Library!Archive(w) \/ Library!Abort(w)
      PROVE  RoomIsMade'
  BY <1>2, <1>7 DEF Library!Save, Library!Archive, Library!Abort, Library!At
<1> QED BY <1>1, <1>3, <1>4, <1>5, <1>6, <1>7 DEF Library!Next

LEMMA RoomIsEnough == RoomIsMade => Library!SavesSucceed
BY DEF RoomIsMade, Library!SavesSucceed, Library!Refused

(* One request after another, CatalogueMedia.save clears every cover that   *)
(* the unique index would refuse the new one for.                           *)
THEOREM OneAfterAnother == Library!Spec /\ []OneMediaBusy => []Library!SavesSucceed
<1>1. Library!Init => RoomIsMade
  BY DEF Library!Init, RoomIsMade, Library!At
<1>2. IInv /\ RoomIsMade /\ OneMediaBusy /\ OneMediaBusy' /\ [Library!Next]_(Library!vars)
       => RoomIsMade'
  BY RoomStep
<1> QED BY <1>1, <1>2, RoomIsEnough, Inductive, PTL DEF Library!Spec

(* The same of the instance that TLC checks.                                *)
THEOREM SerialSaves == MCSpec => []SerialSavesSucceed
<1> DEFINE Room == racing \/ (RoomIsMade /\ OneMediaBusy)
<1>1. MCInit => IInv /\ Room
  BY Initially DEF MCInit, Library!Init, RoomIsMade, Library!At, OneMediaBusy
<1>2. [MCNext]_<<vars, media, mediaJob, part, racing>> => [Library!Next]_(Library!vars)
  BY DEF MCNext, Library!vars
<1>3. IInv /\ Room /\ [MCNext]_<<vars, media, mediaJob, part, racing>> => (IInv /\ Room)'
  <2> SUFFICES ASSUME IInv, Room, [MCNext]_<<vars, media, mediaJob, part, racing>>
               PROVE  (IInv /\ Room)'
    OBVIOUS
  <2>1. IInv' BY <1>2, StepKeeps
  <2>2. UNCHANGED racing /\ (racing \/ OneMediaBusy \/ OneMediaBusy')
    BY DEF MCNext, Bounded
  <2>3. racing' \/ OneMediaBusy'
    BY <2>2 DEF MCNext, Bounded, OneMediaBusy
  <2> QED BY <1>2, <2>1, <2>2, <2>3, RoomStep
<1>4. Room => SerialSavesSucceed
  BY RoomIsEnough DEF SerialSavesSucceed
<1> HIDE DEF Room
<1> QED BY <1>1, <1>3, <1>4, PTL DEF MCSpec
=============================================================================
