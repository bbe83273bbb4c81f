---------------------------- MODULE MCStorefront ----------------------------
(* Small instances of ListingSearch and Articles.  They share no state and   *)
(* no step; a behaviour moves one of them, so each goes through all of its   *)
(* states.                                                                  *)
EXTENDS ListingSearch, TLC

CONSTANTS Pages, ResourcesPage, Categories
VARIABLES page, active, restricted, part

Site == INSTANCE Articles

SomeFacts ==
    {[target |-> "property", property_type |-> "house", bedrooms |-> 2,
      public_status |-> "AVAILABLE"],
     [target |-> "variant", property_type |-> "lot", bedrooms |-> None,
      public_status |-> "RESERVED"]}

MCInit == Init /\ Site!Init /\ part \in {"offers", "articles"}
MCNext ==
    \/ part = "offers" /\ Next /\ UNCHANGED <<page, active, restricted, part>>
    \/ part = "articles" /\ Site!Next /\ UNCHANGED <<vars, part>>
MCSpec == MCInit /\ [][MCNext]_<<offer, fact, page, active, restricted, part>>

Symmetric == Permutations(Offers) \cup Permutations(Pages) \cup Permutations(Categories)

ListsAgreeWithPages == Site!ListsAgreeWithPages
ArchivedIsHidden == Site!ArchivedIsHidden
=============================================================================
