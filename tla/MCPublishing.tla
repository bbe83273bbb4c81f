---------------------------- MODULE MCPublishing ----------------------------
(* Small instances of Publishing: which staff operations meet in each run.  *)
EXTENDS Publishing, TLC

(* The Listing pages against each other: every save of a Listing row. *)
ListingOperations ==
    {"publish", "archive", "restore", "set_public_status", "listing_create",
     "listing_edit", "guided_create", "guided_edit", "offer_save",
     "property_save"}

(* Publishing against the catalogue it depends on. *)
DependencyOperations ==
    {"publish", "archive", "listing_create", "offer_save", "property_save",
     "development_edit", "variant_edit"}

=============================================================================
