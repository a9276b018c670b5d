---- MODULE DocsSite ----
(***************************************************************************)
(* The documentation website (website/lib/docs.ts, website/components,     *)
(* website/app): the catalogue it builds from the content files, the links *)
(* each page shows, the search dialogs and the mobile menu.                *)
(*                                                                         *)
(* The header mounts one search dialog, and the mobile menu a second one   *)
(* while it is open.  Both listen to the window's keys and both lock the   *)
(* scrolling of the same document body, each as if it were alone.          *)
(*                                                                         *)
(* An action is one event of the reader with every render and effect it    *)
(* causes; a navigation is taken to finish with the event.  Which dialog   *)
(* and which link are visible depends on the width of the window, which    *)
(* the reader may change at any time: the model lets every mounted one be  *)
(* used.                                                                   *)
(***************************************************************************)
EXTENDS DocsContent, Integers, FiniteSets, SequencesExt

CONSTANTS
  Queries,  \* what a reader types, blanks aside
  Score     \* Score[q][slug]: what the search scores the page at slug for q

-----------------------------------------------------------------------------
(* The catalogue: lib/docs.ts                                              *)

categoryOrder ==
  <<"Getting started", "Core concepts", "Reliability", "Transports",
    "Integrations", "Operations", "Reference">>

docs_IntegrationsFirst ==
  GettingStartedDocs \o CoreConceptDocs \o ReliabilityDocs \o IntegrationDocs
    \o TransportDocs \o OperationsDocs \o ReferenceDocs

docs ==
  GettingStartedDocs \o CoreConceptDocs \o ReliabilityDocs \o TransportDocs
    \o IntegrationDocs \o OperationsDocs \o ReferenceDocs

Slugs == {docs[i].slug : i \in DOMAIN docs}

(* useState(''): what a dialog starts with.                                 *)
NoQuery == ""

ASSUME QueriesScored ==
  /\ NoQuery \in Queries
  /\ Score \in [Queries -> [Slugs -> Nat]]

(* sort(): the members of S by weight, those of equal weight by index.      *)
Precedes(j, i, weight) == weight[j] < weight[i] \/ (weight[j] = weight[i] /\ j < i)

Sorted(S, weight) ==
  [k \in 1..Cardinality(S) |->
    CHOOSE i \in S : Cardinality({j \in S : Precedes(j, i, weight)}) = k - 1]

(* The pages of each category, in their order. *)
docCategories ==
  [c \in DOMAIN categoryOrder |->
    LET pages == {i \in DOMAIN docs : docs[i].category = categoryOrder[c]}
        sorted == Sorted(pages, [i \in pages |-> docs[i].order])
    IN [k \in DOMAIN sorted |-> docs[sorted[k]]]]

CategorySlugs(c) == {docCategories[c][i].slug : i \in DOMAIN docCategories[c]}

(* findIndex(): where the page is, if it is in the catalogue.               *)
IndexOf(slug) ==
  {i \in DOMAIN docs : docs[i].slug = slug /\ \A j \in 1..(i - 1) : docs[j].slug # slug}

getAdjacentDocs(slug) ==
  [previous |-> {docs[i - 1].slug : i \in IndexOf(slug) \ {1}},
   next |-> {docs[i + 1].slug : i \in IndexOf(slug) \ {Len(docs)}}]

-----------------------------------------------------------------------------
(* Search: components/search-dialog.tsx                                    *)

(* The best twelve pages, those of equal score in the order of the         *)
(* catalogue; the first ten pages when nothing is typed.                   *)
Ranked(q) ==
  LET score == [i \in DOMAIN docs |-> Score[q][docs[i].slug]]
      found == {i \in DOMAIN docs : score[i] > 0}
      listed == IF Cardinality(found) > 12 THEN 12 ELSE Cardinality(found)
  IN SubSeq(Sorted(found, [i \in found |-> -score[i]]), 1, listed)

Results ==
  [q \in Queries |->
    IF q = NoQuery THEN [i \in 1..10 |-> docs[i].slug]
    ELSE LET ranked == Ranked(q) IN [i \in DOMAIN ranked |-> docs[ranked[i]].slug]]

-----------------------------------------------------------------------------
(* The links each page shows                                               *)

Home == "/"
Overview == "/docs"
NotFound == "/404"

(* Every page the static export writes. *)
generateStaticParams == Slugs
Served == {Home, Overview} \cup generateStaticParams

HeaderLinks == {Home, Overview}

FooterLinks ==
  {"introduction", "quick-start", "delivery-semantics", "api-reference",
   "nats-core", "jetstream", "rabbitmq", "kafka"}

SidebarLinks == {Overview} \cup UNION {CategorySlugs(c) : c \in DOMAIN docCategories}

HomeLinks ==
  {"quick-start", "capabilities", "delivery-semantics", "introduction",
   "nats-core", "jetstream", "rabbitmq", "kafka"}
    \cup UNION {{docCategories[c][i].slug : i \in DOMAIN docCategories[c] \cap 1..5} :
                  c \in DOMAIN docCategories}

OverviewLinks ==
  {"quick-start", "delivery-semantics", "capability-matrix", "production-deployment"}
    \cup UNION {CategorySlugs(c) : c \in DOMAIN docCategories}

PaginationLinks(slug) == getAdjacentDocs(slug).previous \cup getAdjacentDocs(slug).next

Links(path) ==
  HeaderLinks \cup FooterLinks \cup
    CASE path = Home -> HomeLinks
      [] path = NotFound -> {Home, Overview}
      [] path = Overview -> SidebarLinks \cup OverviewLinks
      [] OTHER -> SidebarLinks \cup PaginationLinks(path)

LinksOf == [path \in Served \cup {NotFound} |-> Links(path)]

-----------------------------------------------------------------------------
(* The reader's session                                                    *)

Mounts == {"header", "menu"}

VARIABLES
  pathname,    \* the page shown
  menuOpen,    \* the mobile menu, and the search dialog in it, are mounted
  dialog,      \* dialog[m]: the search dialog of mount m
  dialogClass  \* the body has the class dialog-open, which stops its scrolling

vars == <<pathname, menuOpen, dialog, dialogClass>>

(* A dialog: whether it is shown, what is typed in it and which of its     *)
(* results is highlighted, counted from 0.                                 *)
Fresh == [open |-> FALSE, query |-> NoQuery, selected |-> 0]

Mounted == IF menuOpen THEN Mounts ELSE {"header"}
IsOpen(m) == dialog[m].open
results(m) == Results[dialog[m].query]

Init ==
  /\ pathname \in Served
  /\ menuOpen = FALSE
  /\ dialog = [m \in Mounts |-> Fresh]
  /\ dialogClass = FALSE

(* The effect on the query and on open starts the selection over.          *)
RestartSelection_Forgotten(d) == d

RestartSelection(d) == [d EXCEPT !.selected = 0]

SetOpen(d, value) == RestartSelection([d EXCEPT !.open = value])

(* A dialog that stops being shown, or is unmounted, takes the class off   *)
(* the body; one that starts being shown puts it on.                       *)
Unlock_OnlyWhenAsked(m) == UNCHANGED dialogClass

Unlock(m) == dialogClass' = (dialogClass /\ ~IsOpen(m))

OpenDialog(m) ==
  /\ m \in Mounted /\ ~IsOpen(m)
  /\ dialog' = [dialog EXCEPT ![m] = SetOpen(@, TRUE)]
  /\ dialogClass' = TRUE
  /\ UNCHANGED <<pathname, menuOpen>>

(* close(): the overlay or the close button; the query is forgotten.       *)
Close(m) ==
  /\ IsOpen(m)
  /\ dialog' = [dialog EXCEPT ![m] = Fresh]
  /\ Unlock(m)
  /\ UNCHANGED <<pathname, menuOpen>>

(* Ctrl+K toggles every mounted dialog.  When the header's opens while the *)
(* menu's closes, the class is left by whichever effect runs last: the two *)
(* renders may be one batch, where it is added last, or two in the order   *)
(* of the listeners, where the menu's dialog removes it.                   *)
SearchKey ==
  /\ dialog' = [m \in Mounts |->
                 IF m \in Mounted THEN SetOpen(dialog[m], ~IsOpen(m)) ELSE dialog[m]]
  /\ \/ /\ \E m \in Mounts : dialog'[m].open
        /\ dialogClass' = TRUE
     \/ /\ IsOpen("menu") \/ \A m \in Mounts : ~dialog'[m].open
        /\ dialogClass' = FALSE
  /\ UNCHANGED <<pathname, menuOpen>>

(* Escape hides every dialog and keeps what was typed.                     *)
EscapeKey ==
  /\ \E m \in Mounts : IsOpen(m)
  /\ dialog' = [m \in Mounts |-> SetOpen(dialog[m], FALSE)]
  /\ dialogClass' = FALSE
  /\ UNCHANGED <<pathname, menuOpen>>

Type(m, q) ==
  /\ IsOpen(m) /\ q # dialog[m].query
  /\ dialog' = [dialog EXCEPT ![m] = RestartSelection([@ EXCEPT !.query = q])]
  /\ UNCHANGED <<pathname, menuOpen, dialogClass>>

Select(m, index) ==
  /\ dialog' = [dialog EXCEPT ![m].selected = index]
  /\ UNCHANGED <<pathname, menuOpen, dialogClass>>

(* The arrow keys move through the results and wrap around.                *)
Arrow(m, step) ==
  /\ IsOpen(m) /\ results(m) # <<>>
  /\ Select(m, (dialog[m].selected + step) % Len(results(m)))

ArrowDown(m) == Arrow(m, 1)
ArrowUp(m) == Arrow(m, -1)

(* The pointer selects the result it enters.                               *)
PointAt(m, index) ==
  /\ IsOpen(m) /\ index \in 0..(Len(results(m)) - 1)
  /\ Select(m, index)

(* The page a link leads to: the 404 page when nothing was exported there. *)
PageAt(link) == IF link \in Served THEN link ELSE NotFound

(* A change of the pathname closes the menu, which unmounts the dialog in  *)
(* it with its state.  A dialog in the header outlives the navigation.     *)
Navigate(link, shown, locked) ==
  LET unmount == menuOpen /\ PageAt(link) # pathname
  IN /\ pathname' = PageAt(link)
     /\ menuOpen' = (menuOpen /\ ~unmount)
     /\ dialog' = IF unmount THEN [shown EXCEPT !["menu"] = Fresh] ELSE shown
     /\ dialogClass' = (locked /\ ~(unmount /\ shown["menu"].open))

(* Enter and a click on a result close the dialog, then open the page.     *)
OpenResult(m, index) ==
  /\ IsOpen(m) /\ index \in 0..(Len(results(m)) - 1)
  /\ Navigate(results(m)[index + 1], [dialog EXCEPT ![m] = Fresh], FALSE)

EnterKey(m) == OpenResult(m, dialog[m].selected)
ClickResult(m) == \E index \in 0..11 : OpenResult(m, index)

FollowLink == \E link \in LinksOf[pathname] : Navigate(link, dialog, dialogClass)

(* The menu button.  Closing the menu unmounts the dialog in it.           *)
ToggleMenu ==
  /\ menuOpen' = ~menuOpen
  /\ dialog' = [dialog EXCEPT !["menu"] = Fresh]
  /\ Unlock("menu")
  /\ UNCHANGED pathname

Next ==
  \/ \E m \in Mounts : \/ OpenDialog(m) \/ Close(m)
                       \/ \E q \in Queries : Type(m, q)
                       \/ ArrowDown(m) \/ ArrowUp(m)
                       \/ \E index \in 0..11 : PointAt(m, index)
                       \/ EnterKey(m) \/ ClickResult(m)
  \/ SearchKey \/ EscapeKey
  \/ FollowLink \/ ToggleMenu

Spec == Init /\ [][Next]_vars

-----------------------------------------------------------------------------
(* Properties                                                              *)

(* The variables have their types; a dialog that is not mounted has no     *)
(* state, and the highlighted result of a dialog is one of its results,    *)
(* whatever was typed, pointed at or toggled before: Enter always opens    *)
(* what is highlighted (search-dialog.tsx, selectedIndex and results).     *)
TypeOK ==
  /\ pathname \in Served \cup {NotFound}
  /\ menuOpen \in BOOLEAN /\ dialogClass \in BOOLEAN
  /\ dialog \in [Mounts -> [open : BOOLEAN, query : Queries, selected : 0..11]]
  /\ ~menuOpen => dialog["menu"] = Fresh
  /\ \A m \in Mounts : dialog[m].selected \in 0..(Len(results(m)) - 1) \cup {0}

(* The page scrolls unless a dialog is shown: however the dialogs are      *)
(* opened, closed, toggled together or unmounted by a navigation, none     *)
(* leaves the body locked behind it (search-dialog.tsx, the effect on      *)
(* open).                                                                  *)
ScrollLockNeedsDialog == dialogClass => \E m \in Mounts : IsOpen(m)

NoDeadLinks == pathname # NotFound

SidebarOrder ==
  docCategories[1] \o docCategories[2] \o docCategories[3] \o docCategories[4]
    \o docCategories[5] \o docCategories[6] \o docCategories[7]

PaginationFollowsSidebar ==
  \A i \in DOMAIN SidebarOrder :
    SidebarOrder[i].slug = pathname =>
      /\ getAdjacentDocs(pathname).previous =
           IF i = 1 THEN {} ELSE {SidebarOrder[i - 1].slug}
      /\ getAdjacentDocs(pathname).next =
           IF i = Len(SidebarOrder) THEN {} ELSE {SidebarOrder[i + 1].slug}

(* No link, search result or pagination arrow of the site leads to a page  *)
(* the export did not write, and the arrows of a page lead to its          *)
(* neighbours in the sidebar, although the two are built from different    *)
(* lists (lib/docs.ts: docs, docCategories; the links written by hand in   *)
(* the footer, the home page and the overview).                            *)
NavigationIsSound == NoDeadLinks /\ PaginationFollowsSidebar

====
