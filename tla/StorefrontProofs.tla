--------------------------- MODULE StorefrontProofs ---------------------------
(***************************************************************************)
(* What visitors find, for all amounts, filters and articles.  Two rules    *)
(* hold about the offers in every state: a row is as Offer.clean wants it,  *)
(* and a listing has one active offer (the unique index).                   *)
(***************************************************************************)
EXTENDS MCStorefront, TLAPS

OffersAreClean == \A o \in Offers : offer[o] # None => offer[o] \in CleanRows
OneActiveOffer == \A l \in Listings : \A o, other \in Active(l) : o = other
OffersInv == TypeOK /\ OffersAreClean /\ OneActiveOffer

(* A save that Offer.full_clean accepts keeps them.                         *)
LEMMA SavedOffer ==
  ASSUME OffersInv, NEW o \in Offers, NEW row, OfferClean(o, row),
         offer' = [offer EXCEPT ![o] = row], UNCHANGED fact
  PROVE  OffersInv'
  <1>1. row \in CleanRows /\ row \in Row /\ row.listing \in Listings
    BY DEF OfferClean, CleanRows, Row
  <1>2. \A other \in Offers : offer'[other] = IF other = o THEN row ELSE offer[other]
    BY DEF OffersInv, TypeOK
  <1>3. TypeOK'
    BY <1>1 DEF OffersInv, TypeOK
  <1>4. OffersAreClean'
    BY <1>1, <1>2 DEF OffersInv, OffersAreClean, CleanRows, Row
  <1>5. OneActiveOffer'
    <2>1. SUFFICES ASSUME NEW l \in Listings, NEW x \in Active(l)', NEW y \in Active(l)'
                   PROVE  x = y
      BY DEF OneActiveOffer
    <2>2. ASSUME NEW z \in Active(l)', z # o
          PROVE  z \in Active(l)
      BY <1>2, <2>2 DEF Active, OffersOf
    <2>3. ASSUME o \in Active(l)'
          PROVE  Active(l) \subseteq {o}
      BY <1>2, <2>3 DEF Active, OffersOf, OfferClean
    <2>4. QED
      BY <2>1, <2>2, <2>3 DEF OffersInv, OneActiveOffer
  <1>6. QED
    BY <1>3, <1>4, <1>5 DEF OffersInv

LEMMA OffersInvariance == Spec => []OffersInv
  <1>1. Init => OffersInv
    BY DEF Init, OffersInv, TypeOK, OffersAreClean, OneActiveOffer, Active, OffersOf
  <1>2. OffersInv /\ [Next]_vars => OffersInv'
    <2>1. SUFFICES ASSUME OffersInv, [Next]_vars
                   PROVE  OffersInv'
      OBVIOUS
    <2>2. ASSUME NEW o \in Offers, NEW row \in CleanRows, SaveOffer(o, row)
          PROVE  OffersInv'
      BY <2>1, <2>2, SavedOffer DEF SaveOffer
    <2>3. ASSUME NEW o \in Offers, NEW l \in Listings, NEW q \in Quote, GuidedSave(o, l, q)
          PROVE  OffersInv'
      BY <2>1, <2>3, SavedOffer DEF GuidedSave
    <2>4. CASE UNCHANGED vars
      BY <2>1, <2>4
         DEF vars, OffersInv, TypeOK, OffersAreClean, OneActiveOffer, Active, OffersOf
    <2>5. QED
      BY <2>1, <2>2, <2>3, <2>4 DEF Next
  <1>3. QED
    BY <1>1, <1>2, PTL DEF Spec

-----------------------------------------------------------------------------
(* _format_amount is off by half a peso at most, and keeps the order.       *)
LEMMA RoundedIsNear ==
  ASSUME NEW p \in Nat
  PROVE  /\ Rounded(p) \in Nat
         /\ p % 2 # 1 => 2 * Rounded(p) = p
         /\ p % 2 = 1 => 2 * Rounded(p) \in {p - 1, p + 1}
  <1>1. p \div 2 \in Nat /\ p = 2 * (p \div 2) + (p % 2) /\ p % 2 \in {0, 1}
    OBVIOUS
  <1>2. QED
    BY <1>1 DEF Rounded

LEMMA RoundedIsMonotone ==
  ASSUME NEW p \in Nat, NEW q \in Nat, p <= q
  PROVE  Rounded(p) <= Rounded(q)
  <1>1. CASE p = q
    BY <1>1, RoundedIsNear
  <1>2. CASE p # q
    BY <1>2, RoundedIsNear
  <1>3. QED
    BY <1>1, <1>2

(* What listing_index compares and what the card shows are one price.       *)
LEMMA ShownPrice ==
  ASSUME OffersInv, NEW l \in Listings, NEW o \in Active(l)
  PROVE  LET q == offer[o].quote
         IN /\ q \in Quote
            /\ q.price_min = None => Shown(o) = {}
            /\ q.price_min # None => /\ q.price_min \in Nat
                                     /\ Rounded(q.price_min) \in Shown(o)
                                     /\ \A p \in Shown(o) : Rounded(q.price_min) <= p
  <1> DEFINE q == offer[o].quote
  <1>1. /\ o \in Offers /\ offer[o] \in CleanRows /\ q \in Quote
        /\ CleanPrice(q) /\ RangeIsOrdered(q)
    BY DEF OffersInv, OffersAreClean, Active, OffersOf, CleanRows, Row
  <1>2. q.price_min # None => q.price_min \in Nat /\ Rounded(q.price_min) \in Nat
    BY <1>1, NumbersAssumption, RoundedIsNear DEF Quote, Price
  <1>3. CASE q.price_display = "CONTACT"
    BY <1>1, <1>3 DEF Shown, CleanPrice
  <1>4. CASE q.price_display = "RANGE"
    <2>1. /\ q.price_min # None /\ q.price_max # None
          /\ q.price_min \in Nat /\ q.price_max \in Nat /\ q.price_min <= q.price_max
      BY <1>1, <1>4, NumbersAssumption DEF Quote, Price, CleanPrice, RangeIsOrdered
    <2>2. Shown(o) = {Rounded(q.price_min), Rounded(q.price_max)}
      BY <1>4 DEF Shown
    <2>3. Rounded(q.price_min) <= Rounded(q.price_max)
      BY <2>1, RoundedIsMonotone
    <2>4. QED
      BY <1>1, <1>2, <2>1, <2>2, <2>3
  <1>5. CASE q.price_display \notin {"CONTACT", "RANGE"}
    <2>1. Shown(o) = {Rounded(p) : p \in {q.price_min} \ {None}}
      BY <1>5 DEF Shown
    <2>2. QED
      BY <1>1, <1>2, <2>1
  <1>6. QED
    BY <1>3, <1>4, <1>5

(* The prices a card shows are numbers.                                     *)
LEMMA ShownPricesAreNumbers ==
  ASSUME OffersInv, NEW l \in Listings, NEW o \in Active(l), NEW p \in Shown(o)
  PROVE  p \in Nat
  <1> DEFINE q == offer[o].quote
  <1>1. q \in Quote /\ CleanPrice(q)
    BY DEF OffersInv, OffersAreClean, Active, OffersOf, CleanRows, Row
  <1>2. /\ q.price_min # None => q.price_min \in Nat
        /\ q.price_max # None => q.price_max \in Nat
    BY <1>1, NumbersAssumption DEF Quote, Price
  <1>3. \E price \in {q.price_min, q.price_max} \ {None} : p = Rounded(price)
    BY <1>1 DEF Shown, CleanPrice
  <1>4. QED
    BY <1>2, <1>3, RoundedIsNear

(* A price and a limit, as the query and as the card compare them.          *)
LEMMA LimitsAgree ==
  ASSUME NEW p \in Nat, NEW limit \in Nat
  PROVE  /\ p >= 2 * limit => Rounded(p) >= limit
         /\ p <= 2 * limit => Rounded(p) <= limit
         /\ Rounded(p) >= limit => p >= 2 * limit \/ (p % 2 = 1 /\ limit = Rounded(p))
         /\ Rounded(p) <= limit => p <= 2 * limit \/ (p % 2 = 1 /\ limit = Rounded(p))
  <1>1. Rounded(p) \in Nat /\ p % 2 \in {0, 1}
    BY RoundedIsNear
  <1>2. CASE p % 2 = 1
    BY <1>1, <1>2, RoundedIsNear
  <1>3. CASE p % 2 = 0
    BY <1>1, <1>3, RoundedIsNear
  <1>4. QED
    BY <1>1, <1>2, <1>3

(* The filters on the price, of the one active offer.                       *)
PriceListed(o, f) ==
    LET price == offer[o].quote.price_min
    IN /\ f.min_price # None => price # None /\ price >= 2 * f.min_price
       /\ f.max_price # None => price # None /\ price <= 2 * f.max_price
PriceShown(o, f) ==
    f.min_price # None \/ f.max_price # None => \E p \in Shown(o) :
        /\ \A other \in Shown(o) : p <= other
        /\ f.min_price # None => p >= f.min_price
        /\ f.max_price # None => p <= f.max_price
RoundedToLimit(o, f) ==
    /\ offer[o].quote.price_min % 2 = 1
    /\ {f.min_price, f.max_price} \cap Shown(o) # {}

LEMMA PricesAgree ==
  ASSUME OffersInv, NEW l \in Listings, NEW o \in Active(l), NEW f \in Filter
  PROVE  /\ PriceListed(o, f) => PriceShown(o, f)
         /\ PriceShown(o, f) => PriceListed(o, f) \/ RoundedToLimit(o, f)
  <1> DEFINE price == offer[o].quote.price_min
  <1>1. /\ f.min_price # None => f.min_price \in Nat
        /\ f.max_price # None => f.max_price \in Nat
    BY NumbersAssumption DEF Filter
  <1>2. CASE price = None
    BY <1>2, ShownPrice DEF PriceListed, PriceShown
  <1>3. CASE price # None
    <2>1. /\ price \in Nat /\ Rounded(price) \in Nat /\ Rounded(price) \in Shown(o)
          /\ \A p \in Shown(o) : Rounded(price) <= p
      BY <1>3, ShownPrice, RoundedIsNear
    <2>2. /\ f.min_price # None =>
                /\ price >= 2 * f.min_price => Rounded(price) >= f.min_price
                /\ Rounded(price) >= f.min_price =>
                      price >= 2 * f.min_price \/ (price % 2 = 1 /\ f.min_price = Rounded(price))
          /\ f.max_price # None =>
                /\ price <= 2 * f.max_price => Rounded(price) <= f.max_price
                /\ Rounded(price) <= f.max_price =>
                      price <= 2 * f.max_price \/ (price % 2 = 1 /\ f.max_price = Rounded(price))
      BY <1>1, <2>1, LimitsAgree
    <2>3. ASSUME PriceListed(o, f)
          PROVE  PriceShown(o, f)
      BY <1>3, <2>1, <2>2, <2>3 DEF PriceListed, PriceShown
    <2>4. ASSUME PriceShown(o, f), ~RoundedToLimit(o, f)
          PROVE  PriceListed(o, f)
      <3>1. ASSUME f.min_price # None \/ f.max_price # None
            PROVE  /\ f.min_price # None => Rounded(price) >= f.min_price
                   /\ f.max_price # None => Rounded(price) <= f.max_price
        <4>1. PICK p \in Shown(o) :
                 /\ \A other \in Shown(o) : p <= other
                 /\ f.min_price # None => p >= f.min_price
                 /\ f.max_price # None => p <= f.max_price
          BY <2>4, <3>1 DEF PriceShown
        <4>2. p <= Rounded(price) /\ Rounded(price) <= p
          BY <2>1, <4>1
        <4>3. p \in Nat
          BY <4>1, ShownPricesAreNumbers
        <4>4. p = Rounded(price)
          BY <2>1, <4>2, <4>3
        <4>5. QED
          BY <4>1, <4>4
      <3>2. f.min_price # Rounded(price) \/ price % 2 # 1
        BY <2>1, <2>4 DEF RoundedToLimit
      <3>3. f.max_price # Rounded(price) \/ price % 2 # 1
        BY <2>1, <2>4 DEF RoundedToLimit
      <3>4. QED
        BY <1>3, <2>2, <3>1, <3>2, <3>3 DEF PriceListed
    <2>5. QED
      BY <2>3, <2>4
  <1>4. QED
    BY <1>2, <1>3

(* Every listing that listing_index returns has a card that answers the     *)
(* filter, and every listing with such a card is returned, but for a limit  *)
(* that the card's price was rounded to.                                    *)
LEMMA IndexMatchesCards == OffersInv => ResultsMatchCards
  <1>1. SUFFICES ASSUME OffersInv, NEW f \in Filter, FilterIsValid(f), NEW l \in Listings
                 PROVE  /\ l \in ListingIndex(f) => CardAnswers(l, f)
                        /\ CardAnswers(l, f) =>
                              \/ l \in ListingIndex(f)
                              \/ \E o \in Active(l) : RoundedToLimit(o, f)
    BY DEF ResultsMatchCards, RoundedToLimit
  <1> DEFINE joined == Joined(l, "property") \cup Joined(l, "variant")
             SaysTheSame ==
                 /\ f.property_type \in {None, fact[l].property_type}
                 /\ f.bedrooms # None =>
                       fact[l].bedrooms # None /\ fact[l].bedrooms >= f.bedrooms
                 /\ f.status \in {None, fact[l].public_status}
  <1>2. joined = {fact[l]}
    BY <1>1, FactsAssumption DEF OffersInv, TypeOK, Fact, Joined
  <1>3. l \in ListingIndex(f) <=>
           /\ SaysTheSame
           /\ f.transaction # None =>
                 \E o \in Active(l) : offer[o].quote.transaction_type = f.transaction
           /\ f.min_price # None => \E o \in Active(l) :
                 offer[o].quote.price_min # None /\ offer[o].quote.price_min >= 2 * f.min_price
           /\ f.max_price # None => \E o \in Active(l) :
                 offer[o].quote.price_min # None /\ offer[o].quote.price_min <= 2 * f.max_price
    <2> HIDE DEF joined
    <2>1. /\ (f.property_type # None => \E t \in joined : t.property_type = f.property_type)
                 <=> f.property_type \in {None, fact[l].property_type}
          /\ (f.bedrooms # None =>
                 \E t \in joined : t.bedrooms # None /\ t.bedrooms >= f.bedrooms)
                 <=> (f.bedrooms # None =>
                       fact[l].bedrooms # None /\ fact[l].bedrooms >= f.bedrooms)
      BY <1>2
    <2>2. QED
      BY <1>1, <2>1 DEF ListingIndex, joined
  <1>4. CardAnswers(l, f) <=>
           /\ SaysTheSame
           /\ f.transaction # None \/ f.min_price # None \/ f.max_price # None =>
                 \E o \in Active(l) :
                    f.transaction \in {None, offer[o].quote.transaction_type} /\ PriceShown(o, f)
    BY DEF CardAnswers, PriceShown
  <1> HIDE DEF SaysTheSame
  <1>5. CASE Active(l) = {}
    BY <1>3, <1>4, <1>5
  <1>6. ASSUME NEW o \in Active(l)
        PROVE  /\ l \in ListingIndex(f) => CardAnswers(l, f)
               /\ CardAnswers(l, f) =>
                     l \in ListingIndex(f) \/ RoundedToLimit(o, f)
    <2>1. Active(l) = {o}
      BY <1>1, <1>6 DEF OffersInv, OneActiveOffer
    <2>2. l \in ListingIndex(f) <=>
             /\ SaysTheSame
             /\ f.transaction \in {None, offer[o].quote.transaction_type}
             /\ PriceListed(o, f)
      BY <1>3, <2>1 DEF PriceListed
    <2>3. CardAnswers(l, f) <=>
             /\ SaysTheSame
             /\ f.transaction \in {None, offer[o].quote.transaction_type}
             /\ PriceShown(o, f)
      BY <1>4, <2>1 DEF PriceShown
    <2>4. QED
      BY <1>1, <1>6, <2>2, <2>3, PricesAgree
  <1>7. QED
    BY <1>5, <1>6

(* In every reachable state and for every filter, listing_index finds the   *)
(* listings whose cards answer it, but for a price rounded onto its limit.  *)
THEOREM SearchMatchesCards == Spec => []ResultsMatchCards
  BY OffersInvariance, IndexMatchesCards, PTL

(* What the guided form accepts is saved, or it is one of the two           *)
(* exceptions that GuidedFormIsSaved names (GuidedListingForm.clean against *)
(* Offer.clean and the constraints of the table).                           *)
LEMMA GuidedFormAccepts == OffersInv => GuidedFormIsSaved
  <1>1. SUFFICES ASSUME OffersInv, NEW l \in Listings, NEW o \in GuidedChoice(l),
                        NEW q \in Quote, GuidedClean(q),
                        ~(q.price_display = "NEGOTIABLE" /\ ~RangeIsOrdered(q)),
                        ~(/\ q.transaction_type # offer[o].quote.transaction_type
                          /\ offer[o].lease_terms \/ offer[o].reservation_fee)
                 PROVE  OfferClean(o, GuidedRow(o, l, q))
    BY DEF GuidedFormIsSaved
  <1>2. /\ o \in Offers /\ offer[o] # None /\ offer[o] \in CleanRows /\ offer[o] \in Row
        /\ Active(l) \subseteq {o}
    BY <1>1
       DEF OffersInv, OffersAreClean, OneActiveOffer, GuidedChoice, Active, OffersOf, CleanRows
  <1>3. GuidedRow(o, l, q) \in Row
    BY <1>1, <1>2 DEF GuidedRow, Row
  <1>4. CleanPrice(q) /\ RangeIsOrdered(q)
    <2>1. q.price_display \in PriceDisplay
      BY <1>1 DEF Quote
    <2>2. CleanPrice(q)
      BY <1>1, <2>1 DEF PriceDisplay, GuidedClean, CleanPrice
    <2>3. RangeIsOrdered(q)
      BY <1>1, <2>1 DEF PriceDisplay, GuidedClean, RangeIsOrdered
    <2>4. QED
      BY <2>2, <2>3
  <1>5. IF q.transaction_type = "RENT" THEN q.rent_period /\ ~offer[o].reservation_fee
        ELSE ~q.rent_period /\ ~offer[o].lease_terms
    BY <1>1, <1>2 DEF GuidedClean, CleanRows, Row, Quote, TransactionType
  <1>6. QED
    BY <1>2, <1>3, <1>4, <1>5 DEF OfferClean, CleanRows, GuidedRow

(* In every reachable state the offer accepts what GuidedListingForm has    *)
(* accepted, but for the two cases of GuidedFormIsSaved.                    *)
THEOREM GuidedFormSaves == Spec => []GuidedFormIsSaved
  BY OffersInvariance, GuidedFormAccepts, PTL

-----------------------------------------------------------------------------
(* ArticlePage.save keeps the two columns together, and archive() goes      *)
(* through it; the row it writes is live only if it is published.           *)
ColumnsAgree ==
    \A a \in Pages : page[a] # None => page[a].archived_at = page[a].content.archived
ArticlesInv == Site!TypeOK /\ ColumnsAgree

LEMMA ArticlesInvariance == Site!Spec => []ArticlesInv
  <1>1. Site!Init => ArticlesInv
    BY DEF Site!Init, ArticlesInv, Site!TypeOK, ColumnsAgree
  <1>2. ArticlesInv /\ [Site!Next]_(Site!vars) => ArticlesInv'
    <2>1. SUFFICES ASSUME ArticlesInv, [Site!Next]_(Site!vars)
                   PROVE  ArticlesInv'
      OBVIOUS
    <2>2. ASSUME NEW a \in Pages, NEW content \in Site!Content, NEW live \in BOOLEAN,
                 page' = [page EXCEPT ![a] = Site!Saved(a, content, live)],
                 UNCHANGED <<active, restricted>>
          PROVE  ArticlesInv'
      <3>1. /\ Site!Saved(a, content, live) \in Site!Row
            /\ Site!Saved(a, content, live).archived_at
                  = Site!Saved(a, content, live).content.archived
        BY DEF Site!Saved, Site!Row, Site!Content
      <3>2. QED
        BY <2>1, <2>2, <3>1 DEF ArticlesInv, Site!TypeOK, ColumnsAgree
    <2>3. ASSUME NEW a \in Pages, NEW content \in Site!Content, Site!SaveDraft(a, content)
          PROVE  ArticlesInv'
      BY <2>2, <2>3 DEF Site!SaveDraft
    <2>4. ASSUME NEW a \in Pages, NEW content \in Site!Content, Site!Publish(a, content)
          PROVE  ArticlesInv'
      BY <2>2, <2>4 DEF Site!Publish
    <2>5. ASSUME NEW a \in Pages, Site!Unpublish(a)
          PROVE  ArticlesInv'
      <3>1. page[a] \in Site!Row /\ page[a] # None
        BY <2>1, <2>5 DEF ArticlesInv, Site!TypeOK, Site!Unpublish, Site!Live
      <3>2. /\ [page[a] EXCEPT !.live = FALSE] \in Site!Row
            /\ [page[a] EXCEPT !.live = FALSE].archived_at = page[a].archived_at
            /\ [page[a] EXCEPT !.live = FALSE].content = page[a].content
        BY <3>1 DEF Site!Row
      <3>3. page' = [page EXCEPT ![a] = [page[a] EXCEPT !.live = FALSE]]
        BY <2>5 DEF Site!Unpublish
      <3>4. QED
        BY <2>1, <2>5, <3>1, <3>2, <3>3
           DEF ArticlesInv, Site!TypeOK, ColumnsAgree, Site!Unpublish
    <2>6. ASSUME NEW a \in Pages, Site!Delete(a)
          PROVE  ArticlesInv'
      BY <2>1, <2>6 DEF ArticlesInv, Site!TypeOK, ColumnsAgree, Site!Delete
    <2>7. ASSUME NEW a \in Pages, Site!Archive(a)
          PROVE  ArticlesInv'
      <3>1. page[a] \in Site!Row
        BY <2>1, <2>7 DEF ArticlesInv, Site!TypeOK, Site!Archive, Site!Live
      <3>2. [page[a].content EXCEPT !.archived = TRUE] \in Site!Content
        BY <3>1 DEF Site!Row, Site!Content
      <3>3. QED
        BY <2>2, <2>7, <3>2 DEF Site!Archive
    <2>8. ASSUME NEW c \in Categories, Site!EditCategory(c)
          PROVE  ArticlesInv'
      BY <2>1, <2>8 DEF ArticlesInv, Site!TypeOK, ColumnsAgree, Site!EditCategory
    <2>p. ASSUME NEW x \in Pages \cup {ResourcesPage}, Site!SetPrivacy(x)
          PROVE  ArticlesInv'
      BY <2>1, <2>p DEF ArticlesInv, Site!TypeOK, ColumnsAgree, Site!SetPrivacy
    <2>9. CASE UNCHANGED Site!vars
      BY <2>1, <2>9 DEF Site!vars, ArticlesInv, Site!TypeOK, ColumnsAgree
    <2>10. QED
      BY <2>1, <2>3, <2>4, <2>5, <2>6, <2>7, <2>8, <2>p, <2>9 DEF Site!Next
  <1>3. QED
    BY <1>1, <1>2, PTL DEF Site!Spec

(* The lists of articles, which ask for archived_at and for the pages       *)
(* without a restriction, and the page, which asks for archived, speak of   *)
(* the same articles to a visitor who passes no restriction.                *)
THEOREM ArticleListsAgree == Site!Spec => []ListsAgreeWithPages
  <1>1. ArticlesInv => ListsAgreeWithPages
    <2>1. SUFFICES ASSUME ArticlesInv
                   PROVE  ListsAgreeWithPages
      OBVIOUS
    <2>2. \A a \in Site!Live :
             /\ a \in Pages /\ page[a] \in Site!Row /\ page[a].content.category \in Categories
             /\ page[a].archived_at = page[a].content.archived
      BY <2>1 DEF ArticlesInv, Site!TypeOK, ColumnsAgree, Site!Live, Site!Row, Site!Content
    <2>3. Site!ResourceIndex(None) = Site!ServedToAll
      BY <2>2 DEF Site!ResourceIndex, Site!ServedToAll, Site!Served
    <2>4. \A c \in Categories : Site!ResourceIndex(c) \subseteq Site!ServedToAll
      BY <2>2 DEF Site!ResourceIndex, Site!ServedToAll, Site!Served
    <2>5. Site!FeaturedArticles \subseteq UNION {Site!ResourceIndex(c) : c \in Categories}
      <3>1. SUFFICES ASSUME NEW a \in Site!FeaturedArticles
                     PROVE  a \in Site!ResourceIndex(page[a].content.category)
        BY <2>2 DEF Site!FeaturedArticles
      <3>2. QED
        BY <2>2 DEF Site!FeaturedArticles, Site!ResourceIndex
    <2>6. QED
      BY <2>3, <2>4, <2>5 DEF ListsAgreeWithPages, Site!ListsAgreeWithPages
  <1>2. QED
    BY <1>1, ArticlesInvariance, PTL

=============================================================================
