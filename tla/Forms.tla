-------------------------------- MODULE Forms --------------------------------
(***************************************************************************)
(* The drawers, dialogs and forms of the web frontend: when they can be    *)
(* left, what a pending mutation disables, what its answer does to the     *)
(* form, and which fields depend on one another.                           *)
(*                                                                         *)
(* A behaviour is about one kind of form.  Of the fields the model keeps   *)
(* the record they were filled from, a parent (a company, a collaborator)  *)
(* with a child that belongs to it (a contact, a deal, a service; child i  *)
(* belongs to parent i), and how often the rest has been edited.           *)
(***************************************************************************)
EXTENDS Integers

CONSTANTS
    Submissions,   \* bound: requests in a behaviour
    MaxOpens,      \* bound: how often a form is opened
    MaxEdits       \* bound: edits of the other fields

ASSUME FormsAssumption == MaxOpens \in Nat /\ MaxEdits \in Nat

-----------------------------------------------------------------------------
(* actions: the mutations, each with those whose pending state disables its *)
(*   button; exits: the ways out, each with the mutations that block it     *)
(*   while pending;                                                        *)
(* page: the mutation's observer is in the page and outlives the form;      *)
(* awaits: mutateAsync, whose continuation runs without an observer too;    *)
(* after: what a success does to the form;                                  *)
(* follows: its record is the one its page shows, and another may be shown  *)
(*   under the open form, which has no key;                                 *)
(* holders: what unmounts it while another record loads: the page, which    *)
(*   keeps the state that opened it, or a panel, which goes with it;        *)
(* adds: what is submitted is added to the record.                          *)

Guarded(names) ==
    [actions |-> [n \in names |-> names],
     exits   |-> [e \in {"backdrop", "button"} |-> names],
     page |-> FALSE, awaits |-> FALSE, after |-> "close", follows |-> FALSE,
     holders |-> {}, adds |-> FALSE]

\* A form for the record of a page whose route or search names the record:
\* the search and the browser's history change it behind any modal.
Routed(frame, holder) == [frame EXCEPT !.follows = TRUE, !.holders = {holder}]
AddedTo(frame) == [Routed(frame, "panel") EXCEPT !.adds = TRUE]

\* locked: the fields are disabled while a mutation is pending; parent, child:
\* the form has them, and a choice of the parent resets the child; needed: the
\* parent must be chosen; fetched: the child's options are fetched per parent.
Plain == [locked |-> TRUE, parent |-> FALSE, child |-> FALSE, needed |-> FALSE,
          fetched |-> FALSE]
Open == [Plain EXCEPT !.locked = FALSE]

DealDrawer == Routed([Guarded({"save"}) EXCEPT !.awaits = TRUE], "page")
DealFields == [Plain EXCEPT !.parent = TRUE, !.child = TRUE, !.needed = TRUE]

\* The page's and the panels' drawer for a task, which is state of theirs.
TaskDrawer == [Guarded({"save", "delete"}) EXCEPT !.awaits = TRUE,
                                                  !.holders = {"page", "panel"}]
TaskFields == [Plain EXCEPT !.parent = TRUE, !.child = TRUE, !.needed = TRUE]

CompanyDialog == Routed([Guarded({"save"}) EXCEPT !.awaits = TRUE], "page")
MoreDetails == Plain
CompanyFields == MoreDetails

ContactDrawer == Routed([Guarded({"save"}) EXCEPT !.awaits = TRUE], "panel")
ContactFields == [Plain EXCEPT !.parent = TRUE, !.needed = TRUE]

\* The header's close button of these drawers is never disabled.
HeaderCloses(names) == [Guarded(names) EXCEPT !.exits["button"] = {}]

SubscriptionDrawer ==
    [HeaderCloses({"save", "cancel", "pause", "resume"}) EXCEPT
        !.actions = [save   |-> {"save", "cancel", "resume"}, cancel |-> {"cancel"},
                     pause  |-> {"pause"},                    resume |-> {"resume"}],
        !.exits["backdrop"] = {"save"}]
SubscriptionFields == [Open EXCEPT !.parent = TRUE, !.needed = TRUE]

CatalogDrawer == HeaderCloses({"save"})
PaymentDrawer == HeaderCloses({"record"})
CollaboratorDrawer == HeaderCloses({"save"})
CollaboratorServiceDrawer == HeaderCloses({"save"})

DealCostDrawer == AddedTo(HeaderCloses({"save"}))
DealCostFields ==
    [locked |-> FALSE, parent |-> TRUE, child |-> TRUE, needed |-> TRUE, fetched |-> TRUE]

CompanyCommunicationDialog == AddedTo([Guarded({"add"}) EXCEPT !.awaits = TRUE])
CreateDialog == Guarded({"create"})

\* Confirmations: the mutation is the page's.
Confirmation(name) == [Guarded({name}) EXCEPT !.page = TRUE]
DeleteDealDialog == Confirmation("delete")
DeleteContactDialog == Confirmation("delete")
ArchiveCompanyDialog == Confirmation("archive")
DeleteCostDialog ==
    Routed([Confirmation("delete") EXCEPT !.exits["button"] = {}], "panel")
Unguarded(name) == [Confirmation(name) EXCEPT !.exits = [e \in {"backdrop", "button"} |-> {}]]
DealActionsMenu == Unguarded("archive")
CancelPendingDialog == Unguarded("cancel")
DeleteAccountDialog == [Unguarded("delete") EXCEPT !.awaits = TRUE, !.after = "stay"]

\* Forms of a page, which nothing closes.
InPage(name, after) ==
    [Guarded({name}) EXCEPT !.exits = << >>, !.awaits = TRUE, !.after = after]
WorkspaceSettingsForm == InPage("save", "stay")
ProfileSection == [InPage("save", "stay") EXCEPT !.page = TRUE]
InstallationEmailSection == [InPage("save", "clear") EXCEPT !.page = TRUE]
PasswordSection == [InPage("change", "clear") EXCEPT !.page = TRUE]
InstallationAdministratorsSection == [InPage("invite", "clear") EXCEPT !.page = TRUE]
InviteForm == [InPage("invite", "clear") EXCEPT !.page = TRUE]
CompanyNoteComposer == AddedTo([InPage("add", "close") EXCEPT !.exits = [button |-> {"add"}]])

\* The page's own Edit of another connection replaces the record under the form;
\* another section of the settings unmounts it.
EmailAccountForm ==
    [InPage("save", "close") EXCEPT !.exits = [button |-> {"save"}, section |-> {}],
                                    !.follows = TRUE]

\* A form: how it is left and answered, and its fields.
Dialog(frame, fields) ==
    [actions |-> frame.actions, exits |-> frame.exits, page |-> frame.page,
     awaits |-> frame.awaits, after |-> frame.after, follows |-> frame.follows,
     holders |-> frame.holders, adds |-> frame.adds,
     locked |-> fields.locked, parent |-> fields.parent, child |-> fields.child,
     needed |-> fields.needed, fetched |-> fields.fetched]

Dialogs ==
    [DealDrawer |-> Dialog(DealDrawer, DealFields), TaskDrawer |-> Dialog(TaskDrawer, TaskFields),
     CompanyDialog |-> Dialog(CompanyDialog, CompanyFields),
     ContactDrawer |-> Dialog(ContactDrawer, ContactFields),
     SubscriptionDrawer |-> Dialog(SubscriptionDrawer, SubscriptionFields),
     CatalogDrawer |-> Dialog(CatalogDrawer, Open), PaymentDrawer |-> Dialog(PaymentDrawer, Open),
     CollaboratorDrawer |-> Dialog(CollaboratorDrawer, Open),
     CollaboratorServiceDrawer |-> Dialog(CollaboratorServiceDrawer, Open),
     DealCostDrawer |-> Dialog(DealCostDrawer, DealCostFields),
     CompanyCommunicationDialog |-> Dialog(CompanyCommunicationDialog, Open),
     CreateDialog |-> Dialog(CreateDialog, Plain),
     DeleteDealDialog |-> Dialog(DeleteDealDialog, Plain),
     DeleteContactDialog |-> Dialog(DeleteContactDialog, Plain),
     ArchiveCompanyDialog |-> Dialog(ArchiveCompanyDialog, Plain),
     DeleteCostDialog |-> Dialog(DeleteCostDialog, Plain),
     DealActionsMenu |-> Dialog(DealActionsMenu, Plain),
     CancelPendingDialog |-> Dialog(CancelPendingDialog, Plain),
     DeleteAccountDialog |-> Dialog(DeleteAccountDialog, Open),
     WorkspaceSettingsForm |-> Dialog(WorkspaceSettingsForm, Plain),
     ProfileSection |-> Dialog(ProfileSection, Open),
     InstallationEmailSection |-> Dialog(InstallationEmailSection, Open),
     PasswordSection |-> Dialog(PasswordSection, Open),
     InstallationAdministratorsSection |-> Dialog(InstallationAdministratorsSection, Open),
     InviteForm |-> Dialog(InviteForm, Open),
     CompanyNoteComposer |-> Dialog(CompanyNoteComposer, Plain),
     EmailAccountForm |-> Dialog(EmailAccountForm, Plain)]

-----------------------------------------------------------------------------
VARIABLES
    kind,      \* the form this behaviour is about, away once the page is left
    shown,     \* whether it is open, for which record (0 a new one), and which
               \* of its instances it is
    draft,     \* its fields
    options,   \* the parents whose children the form can offer
    request    \* the mutations

formsVars == <<kind, shown, draft, options, request>>

Parents == 1..2
Draft == [of : 0..2, parent : 0..2, child : 0..2, edits : 0..MaxEdits]
NoDraft == [of |-> 0, parent |-> 0, child |-> 0, edits |-> 0]
Closed == [open |-> FALSE, record |-> 0, instance |-> 0]
Names == {"none"} \cup UNION {DOMAIN Dialogs[k].actions : k \in DOMAIN Dialogs}
Unsent == [at |-> "unsent", name |-> "none", instance |-> 0, record |-> 0, draft |-> NoDraft,
           outcome |-> "none"]

FormsTypeOK ==
    /\ kind \in DOMAIN Dialogs \cup {"none", "away"}
    /\ shown \in [open : BOOLEAN, record : 0..2, instance : 0..MaxOpens]
    /\ draft \in Draft
    /\ options \subseteq Parents
    /\ request \in [Submissions ->
          [at : {"unsent", "sent", "answered", "over"}, name : Names, instance : 0..MaxOpens,
           record : 0..2, draft : Draft,
           outcome : {"none", "ok", "refused", "unseen"}]]

FormsInit ==
    /\ kind = "none"
    /\ shown = Closed
    /\ draft = NoDraft
    /\ options = {}
    /\ request = [q \in Submissions |-> Unsent]

Form == Dialogs[kind]

Visit(k) ==
    /\ kind = "none"
    /\ kind' = k
    /\ UNCHANGED <<shown, draft, options, request>>

\* The mutation's observer is mounted.
Observed(q) == Form.page \/ (shown.open /\ request[q].instance = shown.instance)

\* isPending, or isSubmitting, as the open form sees it.
Pending(n) == \E q \in Submissions :
    request[q].at \in {"sent", "answered"} /\ request[q].name = n /\ Observed(q)
Busy == \E n \in DOMAIN Form.actions : Pending(n)

\* Mutant: a field of a new record has no default.
Filled_Undefined(rec) ==
    [of |-> rec, parent |-> IF ~Form.parent THEN 0 ELSE rec - 1,
     child |-> IF Form.child THEN rec ELSE 0, edits |-> 0]

\* The default values: those of the record, whose child belongs to its parent.
Filled(rec) == [of |-> rec, parent |-> IF Form.parent THEN rec ELSE 0,
                child |-> IF Form.child THEN rec ELSE 0, edits |-> 0]

\* A new instance of the form; of what is added to a record, a new one or one
\* that was added before.
Mount(rec) ==
    /\ shown.instance < MaxOpens
    /\ shown' = [open |-> TRUE, record |-> rec, instance |-> shown.instance + 1]
    /\ \/ draft' = Filled(rec)
       \/ Form.adds /\ draft' = [Filled(0) EXCEPT !.of = rec]

\* Mutant: a drawer that is open takes another record.
OpenForm_Over(rec) ==
    /\ kind \in DOMAIN Dialogs
    /\ IF shown.open
       THEN rec # shown.record /\ shown' = [shown EXCEPT !.record = rec] /\ UNCHANGED draft
       ELSE Mount(rec)
    /\ UNCHANGED <<kind, options, request>>

OpenForm(rec) ==
    /\ kind \in DOMAIN Dialogs /\ ~shown.open
    /\ Form.adds => rec # 0
    /\ Mount(rec)
    /\ UNCHANGED <<kind, options, request>>

Hide == shown' = [shown EXCEPT !.open = FALSE, !.record = 0] /\ draft' = NoDraft

\* Another record that the cache holds is shown where the form is open: useState
\* and useForm take the default values of the first render only, so that the
\* form keeps its fields, and its mutation is the other record's.
ShowAnother(rec) ==
    /\ shown.open /\ Form.follows
    /\ 0 \notin {rec, shown.record} /\ rec # shown.record
    /\ shown' = [shown EXCEPT !.record = rec]
    /\ UNCHANGED <<kind, draft, options, request>>

\* Another record that must be loaded first: the page shows that it loads, and
\* then, with what opened the form still in its state, the form anew (OpenForm).
\* What a panel's form has under way finds nothing of it any more.
Unload ==
    /\ shown.open
    /\ Form.follows => shown.record # 0
    /\ Hide
    /\ \/ "page" \in Form.holders /\ UNCHANGED request
       \/ "panel" \in Form.holders /\ request' = [q \in Submissions |-> Unsent]
    /\ UNCHANGED <<kind, options>>

\* Fields disabled while a mutation is pending.
Editable == shown.open /\ ~(Form.locked /\ Busy)

Edit ==
    /\ Editable /\ draft.edits < MaxEdits
    /\ draft' = [draft EXCEPT !.edits = @ + 1]
    /\ UNCHANGED <<kind, shown, options, request>>

ChooseParent(p) ==
    /\ Editable /\ Form.parent /\ p # draft.parent
    /\ draft' = [draft EXCEPT !.parent = p, !.child = 0]
    /\ UNCHANGED <<kind, shown, options, request>>

\* The list of all children, or of those of the chosen parent, arrives.
LoadOptions ==
    /\ shown.open /\ Form.child
    /\ options' = IF Form.fetched THEN options \cup ({draft.parent} \cap Parents) ELSE Parents
    /\ UNCHANGED <<kind, shown, draft, request>>

\* None, or one of the options, which are the parent's.
ChooseChild(c) ==
    /\ Editable /\ Form.child /\ draft.parent # 0
    /\ c # draft.child
    /\ c = 0 \/ (c = draft.parent /\ c \in options)
    /\ draft' = [draft EXCEPT !.child = c]
    /\ UNCHANGED <<kind, shown, options, request>>

\* Mutant: the button is enabled while the mutation is pending.
Press_Twice(q, n) ==
    /\ shown.open /\ n \in DOMAIN Form.actions
    /\ Form.needed => draft.parent # 0
    /\ request[q].at = "unsent"
    /\ request' = [request EXCEPT ![q] =
         [at |-> "sent", name |-> n, instance |-> shown.instance, record |-> shown.record,
          draft |-> draft, outcome |-> "none"]]
    /\ UNCHANGED <<kind, shown, draft, options>>

Press(q, n) ==
    /\ shown.open /\ n \in DOMAIN Form.actions
    /\ \A b \in Form.actions[n] : ~Pending(b)
    /\ Form.needed => draft.parent # 0
    /\ request[q].at = "unsent"
    /\ request' = [request EXCEPT ![q] =
         [at |-> "sent", name |-> n, instance |-> shown.instance, record |-> shown.record,
          draft |-> draft, outcome |-> "none"]]
    /\ UNCHANGED <<kind, shown, draft, options>>

\* Carried out; not carried out, refused or lost on the way; or carried out with
\* the answer lost.  What it carried is not needed any more.
Served(q) ==
    /\ request[q].at = "sent"
    /\ \E o \in {"ok", "refused", "unseen"} :
          request' = [request EXCEPT ![q] = [@ EXCEPT
                        !.at = "answered", !.outcome = o, !.record = 0, !.draft = NoDraft]]
    /\ UNCHANGED <<kind, shown, draft, options>>

\* An error is shown, a success closes the form, whichever record it is open
\* for, or empties it.
Answer(q) ==
    LET runs == request[q].outcome = "ok" /\ (Observed(q) \/ Form.awaits)
        after == IF runs THEN Form.after ELSE "stay"
    IN
    /\ request[q].at = "answered"
    /\ CASE after = "close" -> Hide
         [] after = "clear" -> draft' = Filled(shown.record) /\ UNCHANGED shown
         [] after = "stay"  -> UNCHANGED <<shown, draft>>
    /\ request' = [request EXCEPT ![q].at = "over"]
    /\ UNCHANGED <<kind, options>>

Exit(e) ==
    /\ shown.open /\ e \in DOMAIN Form.exits
    /\ \A n \in Form.exits[e] : ~Pending(n)
    /\ Hide
    /\ UNCHANGED <<kind, options, request>>

\* A page of another route, which the browser's back button and the search reach
\* from under any form.  The answers that are due find nothing to close.  (From
\* one record to another of the same route the page stays: ShowAnother, Unload.)
LeavePage ==
    /\ kind \in DOMAIN Dialogs
    /\ kind' = "away"
    /\ Hide
    /\ options' = {}
    /\ request' = [q \in Submissions |-> Unsent]

FormsNext ==
    \/ \E k \in DOMAIN Dialogs : Visit(k)
    \/ \E rec \in 0..2 : OpenForm(rec) \/ ShowAnother(rec)
    \/ Unload \/ Edit \/ LoadOptions
    \/ \E p \in Parents : ChooseParent(p)
    \/ \E c \in 0..2 : ChooseChild(c)
    \/ \E q \in Submissions : (\E n \in Names : Press(q, n)) \/ Served(q) \/ Answer(q)
    \/ \E e \in {"backdrop", "button", "section"} : Exit(e)
    \/ LeavePage

FormsSpec == FormsInit /\ [][FormsNext]_formsVars

-----------------------------------------------------------------------------
\* What is submitted belongs together: the child to the parent, however the
\* parent changes while its children are read, and the fields to the record
\* they are saved to.  (The latter not in the forms that follow their page:
\* those save the fields of one record to another that is shown under them.)
SubmittedBelongTogether ==
    \A q \in Submissions :
        /\ request[q].draft.child \in {0, request[q].draft.parent}
        /\ request[q].at # "unsent" /\ kind \in DOMAIN Dialogs /\ ~Form.follows
           => request[q].draft.of = request[q].record

CarriedOut(q) == request[q].outcome \in {"ok", "unseen"}

\* However often its buttons are pressed and in whatever order the answers
\* arrive, a form that closes on success is carried out again only by a user
\* who was told that it failed: of two requests that were carried out for the
\* same mutation of the same instance, the answer of one was lost, and that had
\* ended it.  (Nothing tells the server that the other repeats it.)
CarriedOutOnce ==
    \A q, o \in Submissions :
        /\ kind \in DOMAIN Dialogs /\ Form.after = "close"
        /\ q # o /\ CarriedOut(q) /\ CarriedOut(o)
        /\ request[q].instance = request[o].instance /\ request[q].name = request[o].name
        => \E f \in {q, o} : request[f].at = "over" /\ request[f].outcome = "unseen"
=============================================================================
