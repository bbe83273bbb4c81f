------------------------------ MODULE MCRecords ------------------------------
(* Small instances of AuditTrail and MediaLibrary.  They share no variable   *)
(* and no step; a behaviour moves one of them.  Either requests overlap     *)
(* (racing; those that write history, all about one row), or one request    *)
(* follows another (history: about a location and a listing, whose entries  *)
(* are numbered, or about one of the other rows).                           *)
EXTENDS AuditTrail, FiniteSets, TLC

CONSTANTS Media, Targets
VARIABLES media, mediaJob, part, racing

Library == INSTANCE MediaLibrary WITH job <- mediaJob

OneBusy == \A v, w \in Workers : job[v] # None /\ job[w] # None => v = w
OneMediaBusy == \A v, w \in Workers : mediaJob[v] # None /\ mediaJob[w] # None => v = w
Used == {e \in Records : past[e] # {}}
Bounded ==
    IF racing THEN Cardinality(Used) <= 1
    ELSE /\ OneBusy /\ OneMediaBusy
         /\ Cardinality(Used) <= IF Used \subseteq Locations \cup Listings THEN 2 ELSE 1

MCInit == Init /\ Library!Init /\ part \in {"history", "media"} /\ racing \in BOOLEAN
MCNext ==
    /\ \/ part = "history" /\ Next /\ UNCHANGED <<media, mediaJob>>
       \/ part = "media" /\ Library!Next /\ UNCHANGED vars
    /\ UNCHANGED <<part, racing>>
    /\ Bounded'
MCSpec == MCInit /\ [][MCNext]_<<vars, media, mediaJob, part, racing>>

Symmetric ==
    Permutations(Workers) \cup Permutations(Media) \cup Permutations(Targets)

(* One request after another, the history is complete, and the unique index *)
(* of the covers refuses nothing.                                           *)
SerialHistoryIsComplete == racing \/ HistoryIsComplete
SerialSavesSucceed == racing \/ Library!SavesSucceed

CoverIsReplaced == Library!CoverIsReplaced
CoverIsShown == Library!CoverIsShown
=============================================================================
