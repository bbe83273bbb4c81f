------------------------------- MODULE Articles -------------------------------
(***************************************************************************)
(* The articles of the site, apps/sitecontent.  A draft of a live page is a  *)
(* revision that nothing but the editor reads, so it is left out: what is   *)
(* published is whatever the editor's form holds.  A request saves in one   *)
(* step.                                                                    *)
(*                                                                         *)
(* Wagtail lets an editor restrict who may see a page, by a password or a   *)
(* sign-in; the pages below are restricted with it.                         *)
(***************************************************************************)
CONSTANTS
    Pages,           \* the articles
    ResourcesPage,   \* their parent
    Categories,
    None

VARIABLES
    page,            \* the ArticlePage rows
    active,          \* the categories that are active
    restricted       \* the pages with a PageViewRestriction of their own

vars == <<page, active, restricted>>

Content == [category: Categories, featured: BOOLEAN, archived: BOOLEAN]
Row == [content: Content, archived_at: BOOLEAN, live: BOOLEAN]

Init ==
    /\ page = [a \in Pages |-> None]
    /\ active = Categories
    /\ restricted = {}

Live == {a \in Pages : page[a] # None /\ page[a].live}

(* Mutant of Saved: archived_at stays once it is set.                       *)
SavedOnce(a, content, live) ==
    [content |-> content, live |-> live,
     archived_at |-> content.archived \/ (page[a] # None /\ page[a].archived_at)]

(* ArticlePage.save: archived_at follows archived.                          *)
Saved(a, content, live) ==
    [content |-> content, live |-> live, archived_at |-> content.archived]

-----------------------------------------------------------------------------
(* "Save draft" of the page editor, of a page that is not live.             *)
SaveDraft(a, content) ==
    /\ a \notin Live
    /\ page' = [page EXCEPT ![a] = Saved(a, content, FALSE)]
    /\ UNCHANGED <<active, restricted>>

(* "Publish" of the page editor.                                            *)
Publish(a, content) ==
    /\ page' = [page EXCEPT ![a] = Saved(a, content, TRUE)]
    /\ UNCHANGED <<active, restricted>>

(* prevent_essential_page_unpublish lets articles through.                  *)
Unpublish(a) ==
    /\ a \in Live
    /\ page' = [page EXCEPT ![a].live = FALSE]
    /\ UNCHANGED <<active, restricted>>

Delete(a) ==
    /\ page[a] # None
    /\ page' = [page EXCEPT ![a] = None]
    /\ restricted' = restricted \ {a}
    /\ UNCHANGED active

(* ArticlePage.archive of a live page; of another one it only writes a      *)
(* revision, and the row stays as it is.                                    *)
Archive(a) ==
    /\ a \in Live
    /\ ~page[a].content.archived
    /\ page' = [page EXCEPT ![a] = Saved(a, [page[a].content EXCEPT !.archived = TRUE], FALSE)]
    /\ UNCHANGED <<active, restricted>>

(* The active flag of a category, in its snippet form.                      *)
EditCategory(c) ==
    /\ active' = IF c \in active THEN active \ {c} ELSE active \cup {c}
    /\ UNCHANGED <<page, restricted>>

(* The privacy of a page, in the page editor.                               *)
SetPrivacy(x) ==
    /\ x # ResourcesPage => page[x] # None
    /\ restricted' = IF x \in restricted THEN restricted \ {x} ELSE restricted \cup {x}
    /\ UNCHANGED <<page, active>>

Next ==
    \/ \E a \in Pages :
          \/ \E content \in Content : SaveDraft(a, content) \/ Publish(a, content)
          \/ Unpublish(a)
          \/ Delete(a)
          \/ Archive(a)
    \/ \E c \in Categories : EditCategory(c)
    \/ \E x \in Pages \cup {ResourcesPage} : SetPrivacy(x)

Spec == Init /\ [][Next]_vars

-----------------------------------------------------------------------------
(* PageQuerySet.public: no restriction on the page or on one above it.      *)
Public == {a \in Pages : restricted \cap {a, ResourcesPage} = {}}

(* ResourceIndexPage.get_context; None is no category in the query.         *)
ResourceIndex(category) ==
    {a \in Live \cap Public :
        /\ ~page[a].archived_at
        /\ category # None => page[a].content.category = category /\ category \in active}

(* HomePage.get_context, before it keeps the first three.                   *)
FeaturedArticles ==
    {a \in Live \cap Public :
        /\ page[a].content.featured
        /\ ~page[a].archived_at
        /\ page[a].content.category \in active}

(* ArticlePage.serve does not raise Http404; of a restricted page, for      *)
(* visitors who pass the restriction.                                       *)
Served == {a \in Live : ~page[a].content.archived}
ServedToAll == Served \cap Public

(* search.views.search, of a text that the article contains.                *)
SearchResults == Live

-----------------------------------------------------------------------------
TypeOK ==
    /\ page \in [Pages -> Row \cup {None}]
    /\ active \subseteq Categories
    /\ restricted \subseteq Pages \cup {ResourcesPage}

(* Every article that any visitor can open is on the Resources page, and    *)
(* every one that is listed there, under its category or on the home page,  *)
(* opens for any visitor: the lists ask for archived_at and for the         *)
(* restrictions, the page itself for archived.                              *)
ListsAgreeWithPages ==
    /\ ResourceIndex(None) = ServedToAll
    /\ \A c \in Categories : ResourceIndex(c) \subseteq ServedToAll
    /\ FeaturedArticles \subseteq UNION {ResourceIndex(c) : c \in Categories}

(* An archived article is hidden from the public site.                      *)
ArchivedIsHidden == SearchResults \subseteq Served

=============================================================================
