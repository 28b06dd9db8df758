------------------------------ MODULE ListPages ------------------------------
(***************************************************************************)
(* The lists of companies and of contacts: views, filters, a debounced     *)
(* search and the page, all kept in the URL, the page of rows that is      *)
(* asked for with them, and the menus of the rows.                         *)
(*                                                                         *)
(* A behaviour is about one list.  A change of the URL is seen by the next *)
(* render before the next event.  The dialogs' forms are module Forms'.    *)
(***************************************************************************)
EXTENDS Naturals

CONSTANTS
    Rows,      \* bound: records of a list
    LastPage   \* bound: pages

ASSUME ListsAssumption == 0 \notin Rows /\ LastPage \in Nat \ {0}

VARIABLES
    listing,      \* which list, away once it is left
    url,          \* the route's search: what is missing there is "" or the default
    deferred,     \* the search text the rows are asked for with
    pageRows,     \* the query of the present filters and page
    listOverlay,  \* the menu or dialog that is open, for which row
    inline,       \* the mutation of the inline menu
    toggle        \* the mutation of the actions menu

listVars == <<listing, url, deferred, pageRows, listOverlay, inline, toggle>>

COMPANY_VIEWS == {"active", "mine", "unassigned", "archived"}
CONTACT_VIEWS == {"active", "all", "archived"}
CompanyOwners == {"", "unassigned", "me", "other"}
Filters == [q : {"", "text"}, view : COMPANY_VIEWS \cup CONTACT_VIEWS, stage : {"", "lead"},
            owner : CompanyOwners, sort : {"", "name"}, company : {"", "one"}]
NoFilters == [q |-> "", view |-> "active", stage |-> "", owner |-> "", sort |-> "",
              company |-> ""]

\* of: the filters; open: the record whose profile is shown.
Url == [of : Filters, page : 1..LastPage, open : Rows \cup {0}]
FirstUrl == [of |-> NoFilters, page |-> 1, open |-> 0]
Overlays == {"none", "filters", "inline", "actions", "create", "edit", "confirm"}
NoOverlay == [name |-> "none", row |-> 0]
Mutating == {"idle", "sent", "done", "refused"}

ListsTypeOK ==
    /\ listing \in {"none", "companies", "contacts", "away"}
    /\ url \in Url
    /\ deferred \in {"", "text"}
    /\ pageRows \in {"none", "pending", "some", "empty", "failed"}
    /\ listOverlay \in [name : Overlays, row : Rows \cup {0}]
    /\ inline \in Mutating /\ toggle \in Mutating
    \* Each list has its own filters.
    /\ listing = "companies" => url.of.company = "" /\ url.of.view \in COMPANY_VIEWS
    /\ listing = "contacts" => /\ url.of.stage = "" /\ url.of.owner = "" /\ url.of.sort = ""
                            /\ url.of.view \in CONTACT_VIEWS

ListsInit ==
    /\ listing = "none"
    /\ url = FirstUrl
    /\ deferred = ""
    /\ pageRows = "none"
    /\ listOverlay = NoOverlay
    /\ inline = "idle" /\ toggle = "idle"

Visited == listing \in {"companies", "contacts"}
Free == Visited /\ listOverlay.name = "none" /\ url.open = 0

-----------------------------------------------------------------------------
(* The filters that the rows are asked for with. *)

assignedTo(f) ==
    IF f.view = "mine" THEN "me"
    ELSE IF f.view = "unassigned" \/ f.owner = "unassigned" THEN "unassigned"
    ELSE f.owner

companyFilters(f, text) ==
    [search |-> text, stage |-> f.stage,
     archived |-> IF f.view = "archived" THEN "archived" ELSE "active",
     assignedTo |-> assignedTo(f), ordering |-> f.sort, company |-> ""]

contactFilters(f, text) ==
    [search |-> text, stage |-> "", archived |-> f.view, assignedTo |-> "", ordering |-> "",
     company |-> f.company]

\* useCompanyPage, useContactPage: the key of the rows.
PageKey(u, text) ==
    <<IF listing = "companies" THEN companyFilters(u.of, text) ELSE contactFilters(u.of, text),
      u.page>>

\* Another key: its rows are cached, or asked for.
Render(u, text) ==
    /\ url' = u /\ deferred' = text
    /\ IF PageKey(u, text) = PageKey(url, deferred) THEN UNCHANGED pageRows
       ELSE pageRows' \in {"pending", "some", "empty"}

-----------------------------------------------------------------------------
\* From the navigation, or with a dialog or a record open.
OpenList(name) ==
    /\ listing = "none"
    /\ listing' = name
    /\ pageRows' \in {"pending", "some", "empty"}
    /\ \/ UNCHANGED <<url, listOverlay>>
       \/ listOverlay' = [NoOverlay EXCEPT !.name = "create"] /\ UNCHANGED url
       \/ \E r \in Rows : url' = [FirstUrl EXCEPT !.open = r] /\ UNCHANGED listOverlay
    /\ UNCHANGED <<deferred, inline, toggle>>

LeaveList ==
    /\ Visited
    /\ listing' = "away"
    /\ url' = FirstUrl /\ deferred' = "" /\ pageRows' = "none" /\ listOverlay' = NoOverlay
    /\ inline' = "idle" /\ toggle' = "idle"

RowsArrive ==
    /\ pageRows = "pending"
    /\ pageRows' \in {"some", "empty", "failed"}
    /\ UNCHANGED <<listing, url, deferred, listOverlay, inline, toggle>>

RetryRows ==
    /\ pageRows = "failed" /\ Free
    /\ pageRows' = "pending"
    /\ UNCHANGED <<listing, url, deferred, listOverlay, inline, toggle>>

\* The text has not changed for 300 ms.
useDebouncedValue ==
    /\ Visited /\ deferred # url.of.q
    /\ Render(url, url.of.q)
    /\ UNCHANGED <<listing, listOverlay, inline, toggle>>

\* updateSearch with other filters, back on the first page.
updateSearch(f) ==
    /\ Render([url EXCEPT !.of = f, !.page = 1], deferred)
    /\ UNCHANGED <<listing, listOverlay, inline, toggle>>

EntityListToolbar(text) ==
    /\ Free /\ text # url.of.q
    /\ updateSearch([url.of EXCEPT !.q = text])

\* Mutant: the owner stays when another view is selected.
selectView_Only(v) ==
    /\ Free
    /\ v \in IF listing = "companies" THEN COMPANY_VIEWS ELSE CONTACT_VIEWS
    /\ updateSearch([url.of EXCEPT !.view = v])

selectView(v) ==
    /\ Free
    /\ v \in IF listing = "companies" THEN COMPANY_VIEWS ELSE CONTACT_VIEWS
    /\ updateSearch([url.of EXCEPT !.view = v, !.owner = ""])

OpenFilters ==
    /\ Free
    /\ listOverlay' = [NoOverlay EXCEPT !.name = "filters"]
    /\ UNCHANGED <<listing, url, deferred, pageRows, inline, toggle>>

changeStage(s) ==
    /\ listing = "companies" /\ s # url.of.stage
    /\ listOverlay.name = "filters" \/ (Free /\ s = "")
    /\ updateSearch([url.of EXCEPT !.stage = s])

\* The views that are about an owner give way to the filter.
changeOwner(o) ==
    /\ listing = "companies" /\ listOverlay.name = "filters" /\ o # url.of.owner
    /\ updateSearch([url.of EXCEPT !.owner = o,
                       !.view = IF @ \in {"mine", "unassigned"} THEN "active" ELSE @])

ClearOwner ==
    /\ listing = "companies" /\ Free /\ url.of.owner # ""
    /\ updateSearch([url.of EXCEPT !.owner = ""])

changeSort(s) ==
    /\ listing = "companies" /\ s # url.of.sort
    /\ listOverlay.name = "filters" \/ (Free /\ s = "")
    /\ updateSearch([url.of EXCEPT !.sort = s])

changeCompany(c) ==
    /\ listing = "contacts" /\ c # url.of.company
    /\ listOverlay.name = "filters" \/ (Free /\ c = "")
    /\ updateSearch([url.of EXCEPT !.company = c])

\* From the chips of the active filters, or the button under an empty list.
clearFilters ==
    /\ Free /\ url.of # NoFilters
    /\ \/ pageRows = "empty"
       \/ url.of.stage # "" \/ url.of.owner # "" \/ url.of.sort # "" \/ url.of.company # ""
    /\ updateSearch(NoFilters)

\* On the rows that are shown, which in the 300 ms after a change of the text
\* are those of the text before it.
ListPagination(p) ==
    /\ Free /\ pageRows \in {"some", "empty"} /\ p # url.page
    /\ Render([url EXCEPT !.page = p], deferred)
    /\ UNCHANGED <<listing, listOverlay, inline, toggle>>

-----------------------------------------------------------------------------
(* A row's record, its menus and dialogs. *)

OpenRow(r) ==
    /\ Free /\ pageRows = "some"
    /\ url' = [url EXCEPT !.open = r]
    /\ UNCHANGED <<listing, deferred, pageRows, listOverlay, inline, toggle>>

CloseRow ==
    /\ Visited /\ url.open # 0 /\ listOverlay.name = "none"
    /\ url' = [url EXCEPT !.open = 0]
    /\ UNCHANGED <<listing, deferred, pageRows, listOverlay, inline, toggle>>

Overlay(name, r) ==
    /\ listOverlay' = [name |-> name, row |-> r]
    /\ UNCHANGED <<listing, url, deferred, pageRows, inline, toggle>>

openInlineEdit(r) ==
    /\ listing = "companies" /\ Free /\ pageRows = "some"
    /\ inline = "idle"
    /\ Overlay("inline", r)

OpenActions(r) == Free /\ pageRows = "some" /\ Overlay("actions", r)
OpenCreate == Free /\ Overlay("create", 0)
CloseOverlay == Visited /\ listOverlay.name # "none" /\ Overlay("none", 0)

\* Edit, and the confirmation of a company's archiving or a contact's deletion.
FromActions(name) ==
    /\ listOverlay.name = "actions" /\ name \in {"edit", "confirm"}
    /\ Overlay(name, listOverlay.row)

\* The menu stays open until the answer, so that another value can be chosen:
\* the callbacks are those of the last choice.
updateInline ==
    /\ listOverlay.name = "inline"
    /\ inline' = "sent"
    /\ UNCHANGED <<listing, url, deferred, pageRows, listOverlay, toggle>>

\* Archive and restore of a contact, whose menu waits for the answer and whose
\* item is disabled meanwhile; restore of a company, whose menu closes.
runToggle ==
    /\ listOverlay.name = "actions"
    /\ listing = "contacts" => toggle = "idle"
    /\ toggle' = "sent"
    /\ listOverlay' = IF listing = "companies" THEN NoOverlay ELSE listOverlay
    /\ UNCHANGED <<listing, url, deferred, pageRows, inline>>

ServeRow ==
    /\ \/ inline = "sent" /\ UNCHANGED toggle
          /\ \E a \in {"done", "refused"} : inline' = a
       \/ toggle = "sent" /\ UNCHANGED inline
          /\ \E a \in {"done", "refused"} : toggle' = a
    /\ UNCHANGED <<listing, url, deferred, pageRows, listOverlay>>

\* The callbacks close whatever menu of their kind is open; the rows are read
\* again while the old ones are shown.
InlineAnswered ==
    /\ inline \in {"done", "refused"}
    /\ listOverlay' = IF inline = "done" /\ listOverlay.name = "inline"
                      THEN NoOverlay ELSE listOverlay
    /\ inline' = "idle"
    /\ IF inline = "done" /\ pageRows \in {"some", "empty"} THEN pageRows' \in {"some", "empty"}
       ELSE UNCHANGED pageRows
    /\ UNCHANGED <<listing, url, deferred, toggle>>

closeActions ==
    /\ toggle \in {"done", "refused"}
    /\ listOverlay' = IF toggle = "done" /\ listing = "contacts" /\ listOverlay.name = "actions"
                  THEN NoOverlay ELSE listOverlay
    /\ toggle' = "idle"
    /\ IF toggle = "done" /\ pageRows \in {"some", "empty"} THEN pageRows' \in {"some", "empty"}
       ELSE UNCHANGED pageRows
    /\ UNCHANGED <<listing, url, deferred, inline>>

-----------------------------------------------------------------------------
ListsNext ==
    \/ \E name \in {"companies", "contacts"} : OpenList(name)
    \/ LeaveList \/ RowsArrive \/ RetryRows \/ useDebouncedValue
    \/ \E text \in {"", "text"} : EntityListToolbar(text)
    \/ \E v \in COMPANY_VIEWS \cup CONTACT_VIEWS : selectView(v)
    \/ OpenFilters \/ ClearOwner \/ clearFilters
    \/ \E s \in {"", "lead"} : changeStage(s)
    \/ \E o \in CompanyOwners : changeOwner(o)
    \/ \E s \in {"", "name"} : changeSort(s)
    \/ \E c \in {"", "one"} : changeCompany(c)
    \/ \E p \in 1..LastPage : ListPagination(p)
    \/ \E r \in Rows : OpenRow(r) \/ openInlineEdit(r) \/ OpenActions(r)
    \/ CloseRow \/ OpenCreate \/ CloseOverlay
    \/ \E name \in {"edit", "confirm"} : FromActions(name)
    \/ updateInline \/ runToggle \/ ServeRow \/ InlineAnswered \/ closeActions

ListsSpec == ListsInit /\ [][ListsNext]_listVars

-----------------------------------------------------------------------------
\* The owner that the filter and its chip show is the one the rows are asked
\* for with, whatever view was selected before or after it.
OwnerShownIsApplied ==
    listing = "companies" /\ url.of.owner # ""
        => companyFilters(url.of, deferred).assignedTo = url.of.owner
=============================================================================
