---------------------------- MODULE ListingSearch ----------------------------
(***************************************************************************)
(* The price of a listing and how visitors find it: the Offer rows that the *)
(* snippet form and the guided form save, and the filters and cards of      *)
(* listing_index.  Listings are public throughout (Publishing says which    *)
(* are); what their filters compare does not change here.                   *)
(*                                                                         *)
(* Both forms validate and save in one step: the only other row they look   *)
(* at is the other active offer, which a unique index decides about.        *)
(***************************************************************************)
EXTENDS Integers

CONSTANTS
    Listings,
    Offers,
    Amounts,         \* prices, in half pesos, positive
    Pesos,           \* the whole pesos that a filter asks for
    Bedrooms,        \* numbers of bedrooms that a filter asks for
    Facts,           \* what the cards say of the property or house model
    None

ASSUME NumbersAssumption ==
    Amounts \subseteq Nat /\ Pesos \subseteq Nat /\ Bedrooms \subseteq Nat

VARIABLES
    offer,           \* the Offer rows
    fact             \* of each listing

vars == <<offer, fact>>

TransactionType == {"SALE", "RENT"}
PriceDisplay == {"EXACT", "STARTING_AT", "RANGE", "NEGOTIABLE", "CONTACT"}
PublicStatus == {"AVAILABLE", "RESERVED"}
Price == Amounts \cup {None}

Fact ==
    [target: {"property", "variant"}, property_type: {"house", "lot"},
     bedrooms: Nat \cup {None}, public_status: PublicStatus]

ASSUME FactsAssumption == Facts \subseteq Fact

(* The columns that the guided form shows; those of lease and reservation   *)
(* (set or not), which only the snippet form does.                          *)
Quote ==
    [transaction_type: TransactionType, price_display: PriceDisplay,
     price_min: Price, price_max: Price, rent_period: BOOLEAN]
Row ==
    [listing: Listings, quote: Quote, lease_terms: BOOLEAN, reservation_fee: BOOLEAN,
     active: BOOLEAN]

Init ==
    /\ offer = [o \in Offers |-> None]
    /\ fact \in [Listings -> Facts]

OffersOf(l) == {o \in Offers : offer[o] # None /\ offer[o].listing = l}
Active(l) == {o \in OffersOf(l) : offer[o].active}

-----------------------------------------------------------------------------
(* The part of Offer.clean about the price.                                 *)
CleanPrice(q) ==
    CASE q.price_display \in {"EXACT", "STARTING_AT"} ->
            q.price_min # None /\ q.price_max = None
      [] q.price_display = "RANGE" -> q.price_min # None /\ q.price_max # None
      [] q.price_display = "CONTACT" -> q.price_min = None /\ q.price_max = None
      [] OTHER -> TRUE

(* The constraint listings_offer_price_range_ordered.                       *)
RangeIsOrdered(q) == q.price_min # None /\ q.price_max # None => q.price_max >= q.price_min

(* The rows that Offer.clean and the constraints on one row accept.         *)
CleanRows ==
    {row \in Row :
        /\ CleanPrice(row.quote)
        /\ RangeIsOrdered(row.quote)
        /\ IF row.quote.transaction_type = "RENT"
           THEN row.quote.rent_period /\ ~row.reservation_fee
           ELSE ~row.quote.rent_period /\ ~row.lease_terms}

(* Offer.full_clean, with listings_unique_active_offer_per_listing.         *)
OfferClean(o, row) ==
    /\ row \in CleanRows
    /\ row.active => Active(row.listing) \subseteq {o}

(* Mutant of GuidedClean: it asks for one price of a range.                 *)
GuidedCleanOfOnePrice(q) ==
    /\ q.price_display # "CONTACT" => q.price_min # None
    /\ q.price_display \in {"EXACT", "STARTING_AT", "CONTACT"} => q.price_max = None
    /\ q.price_display = "CONTACT" => q.price_min = None
    /\ q.price_display = "RANGE" => RangeIsOrdered(q)
    /\ q.rent_period <=> q.transaction_type = "RENT"

(* GuidedListingForm.clean                                                  *)
GuidedClean(q) ==
    /\ q.price_display \in {"EXACT", "STARTING_AT", "RANGE"} => q.price_min # None
    /\ q.price_display \in {"EXACT", "STARTING_AT", "CONTACT"} => q.price_max = None
    /\ q.price_display = "RANGE" => q.price_max # None /\ RangeIsOrdered(q)
    /\ q.price_display = "CONTACT" => q.price_min = None
    /\ q.rent_period <=> q.transaction_type = "RENT"

-----------------------------------------------------------------------------
(* The create and edit forms of an offer hold all its columns.              *)
SaveOffer(o, row) ==
    /\ OfferClean(o, row)
    /\ offer' = [offer EXCEPT ![o] = row]
    /\ UNCHANGED fact

(* The offer the guided form edits: the active one, or one that is not.     *)
GuidedChoice(l) == IF Active(l) # {} THEN Active(l) ELSE OffersOf(l)

GuidedRow(o, l, q) ==
    [listing |-> l, quote |-> q, active |-> TRUE,
     lease_terms |-> offer[o] # None /\ offer[o].lease_terms,
     reservation_fee |-> offer[o] # None /\ offer[o].reservation_fee]

(* GuidedListingForm.save; nothing is saved when Offer.clean refuses.       *)
GuidedSave(o, l, q) ==
    /\ GuidedClean(q)
    /\ IF OffersOf(l) = {} THEN offer[o] = None ELSE o \in GuidedChoice(l)
    /\ OfferClean(o, GuidedRow(o, l, q))
    /\ offer' = [offer EXCEPT ![o] = GuidedRow(o, l, q)]
    /\ UNCHANGED fact

Next ==
    \E o \in Offers :
        \/ \E row \in CleanRows : SaveOffer(o, row)
        \/ \E l \in Listings, q \in Quote : GuidedSave(o, l, q)

Spec == Init /\ [][Next]_vars

-----------------------------------------------------------------------------
(* ListingFilterForm, an empty field being None.  property_type stands for   *)
(* region, province and city too, which listing_index compares in the same  *)
(* way.                                                                     *)
Filter ==
    [transaction: TransactionType \cup {None}, property_type: {"house", "lot", None},
     min_price: Pesos \cup {None}, max_price: Pesos \cup {None}, bedrooms: Bedrooms \cup {None},
     status: PublicStatus \cup {None}]

FilterIsValid(f) == f.min_price # None /\ f.max_price # None => f.min_price <= f.max_price

(* The columns of a listing's property, and those of its variant: one of    *)
(* the two joins finds nothing.                                             *)
Joined(l, target) == IF fact[l].target = target THEN {fact[l]} ELSE {}

(* Mutant of ListingIndex: the filters on the price look at any offer.      *)
ListingIndexOfAnyOffer(f) ==
    IF ~FilterIsValid(f) THEN Listings
    ELSE {l \in Listings :
        LET joined == Joined(l, "property") \cup Joined(l, "variant")
        IN /\ f.transaction # None =>
                 \E o \in Active(l) : offer[o].quote.transaction_type = f.transaction
           /\ f.property_type # None => \E t \in joined : t.property_type = f.property_type
           /\ f.bedrooms # None =>
                 \E t \in joined : t.bedrooms # None /\ t.bedrooms >= f.bedrooms
           /\ f.min_price # None => \E o \in OffersOf(l) :
                 offer[o].quote.price_min # None /\ offer[o].quote.price_min >= 2 * f.min_price
           /\ f.max_price # None => \E o \in OffersOf(l) :
                 offer[o].quote.price_min # None /\ offer[o].quote.price_min <= 2 * f.max_price
           /\ f.status # None => fact[l].public_status = f.status}

(* listing_index: each filter() call on the offers is a join of its own, so *)
(* nothing in the query makes them speak of the same offer.                 *)
ListingIndex(f) ==
    IF ~FilterIsValid(f) THEN Listings
    ELSE {l \in Listings :
        LET joined == Joined(l, "property") \cup Joined(l, "variant")
        IN /\ f.transaction # None =>
                 \E o \in Active(l) : offer[o].quote.transaction_type = f.transaction
           /\ f.property_type # None => \E t \in joined : t.property_type = f.property_type
           /\ f.bedrooms # None =>
                 \E t \in joined : t.bedrooms # None /\ t.bedrooms >= f.bedrooms
           /\ f.min_price # None => \E o \in Active(l) :
                 offer[o].quote.price_min # None /\ offer[o].quote.price_min >= 2 * f.min_price
           /\ f.max_price # None => \E o \in Active(l) :
                 offer[o].quote.price_min # None /\ offer[o].quote.price_min <= 2 * f.max_price
           /\ f.status # None => fact[l].public_status = f.status}

(* _format_amount: whole pesos, a half going to the even one.               *)
Rounded(price) ==
    LET below == price \div 2
    IN IF price % 2 = 1 /\ below % 2 = 1 THEN below + 1 ELSE below

(* What the card of a listing shows of its price: display_price of the      *)
(* first active offer.                                                      *)
Shown(o) ==
    LET q == offer[o].quote
    IN CASE q.price_display = "CONTACT" -> {}
         [] q.price_display = "RANGE" -> {Rounded(q.price_min), Rounded(q.price_max)}
         [] OTHER -> {Rounded(p) : p \in {q.price_min} \ {None}}

(* The card of a listing answers a filter: one offer has the asked type, and *)
(* the lowest price it shows is within what was asked.                      *)
CardAnswers(l, f) ==
    /\ f.transaction # None \/ f.min_price # None \/ f.max_price # None =>
          \E o \in Active(l) :
             /\ f.transaction \in {None, offer[o].quote.transaction_type}
             /\ f.min_price # None \/ f.max_price # None => \E p \in Shown(o) :
                   /\ \A other \in Shown(o) : p <= other
                   /\ f.min_price # None => p >= f.min_price
                   /\ f.max_price # None => p <= f.max_price
    /\ f.property_type \in {None, fact[l].property_type}
    /\ f.bedrooms # None => fact[l].bedrooms # None /\ fact[l].bedrooms >= f.bedrooms
    /\ f.status \in {None, fact[l].public_status}

-----------------------------------------------------------------------------
TypeOK ==
    /\ offer \in [Offers -> Row \cup {None}]
    /\ fact \in [Listings -> Facts]

(* The index lists only listings whose cards answer what was asked: no      *)
(* filter meets an offer, or a price, that the card does not show.  And it  *)
(* lists all of them, but those whose price the card rounds to the limit.   *)
ResultsMatchCards ==
    \A f \in Filter : FilterIsValid(f) => \A l \in Listings :
        /\ l \in ListingIndex(f) => CardAnswers(l, f)
        /\ CardAnswers(l, f) =>
              \/ l \in ListingIndex(f)
              \/ \E o \in Active(l) :
                    /\ offer[o].quote.price_min % 2 = 1
                    /\ {f.min_price, f.max_price} \cap Shown(o) # {}

(* What the guided form accepts, the offer accepts too, with two exceptions *)
(* that end in an error page: a negotiable price above its maximum, and     *)
(* lease terms or a reservation fee, which the form does not show, left     *)
(* from before a change between sale and rent.                              *)
GuidedFormIsSaved ==
    \A l \in Listings : \A o \in GuidedChoice(l) : \A q \in Quote :
        GuidedClean(q) =>
            \/ OfferClean(o, GuidedRow(o, l, q))
            \/ q.price_display = "NEGOTIABLE" /\ ~RangeIsOrdered(q)
            \/ /\ q.transaction_type # offer[o].quote.transaction_type
               /\ offer[o].lease_terms \/ offer[o].reservation_fee

=============================================================================
