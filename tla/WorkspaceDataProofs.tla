--------------------------- MODULE WorkspaceDataProofs ---------------------------
(***************************************************************************)
(* Machine-checked proofs about what the browser keeps of a workspace's    *)
(* data: the forms (Forms), for any number of submissions, openings and    *)
(* edits, the query cache (QueryCache), for any number of mutations, the   *)
(* deal board (DealBoard), for any deals, stages and moves, the lists of   *)
(* companies and contacts (ListPages), for any records and pages, and the  *)
(* search (GlobalSearch), for any number of answers.                       *)
(***************************************************************************)
EXTENDS MCWorkspaceData, RankingProofs

(***************************************************************************)
(* The forms.  What the proofs need of the inventory of dialogs: a pending *)
(* mutation disables its own button, and a form with a child has a parent. *)
(***************************************************************************)
Frame(d) ==
    /\ d.after \in {"close", "clear", "stay"}
    /\ \A n \in DOMAIN d.actions : n \in d.actions[n]

\* The drawers and dialogs.
LEMMA DrawerFrames ==
    /\ Frame(DealDrawer)
    /\ Frame(TaskDrawer)
    /\ Frame(CompanyDialog)
    /\ Frame(ContactDrawer)
    /\ Frame(SubscriptionDrawer)
    /\ Frame(CatalogDrawer)
    /\ Frame(PaymentDrawer)
    /\ Frame(CollaboratorDrawer)
    /\ Frame(CollaboratorServiceDrawer)
    /\ Frame(DealCostDrawer)
    /\ Frame(CompanyCommunicationDialog)
    /\ Frame(CreateDialog)
BY DEF Frame, Guarded, Routed, AddedTo, HeaderCloses, DealDrawer, TaskDrawer, CompanyDialog, ContactDrawer,
       SubscriptionDrawer, CatalogDrawer, PaymentDrawer, CollaboratorDrawer,
       CollaboratorServiceDrawer, DealCostDrawer, CompanyCommunicationDialog, CreateDialog

\* The confirmations.
LEMMA ConfirmationFrames ==
    /\ Frame(DeleteDealDialog)
    /\ Frame(DeleteContactDialog)
    /\ Frame(ArchiveCompanyDialog)
    /\ Frame(DeleteCostDialog)
    /\ Frame(DealActionsMenu)
    /\ Frame(CancelPendingDialog)
    /\ Frame(DeleteAccountDialog)
BY DEF Frame, Guarded, Routed, Confirmation, Unguarded, DeleteDealDialog, DeleteContactDialog,
       ArchiveCompanyDialog, DeleteCostDialog, DealActionsMenu, CancelPendingDialog,
       DeleteAccountDialog

\* The forms of a page.
LEMMA PageFrames ==
    /\ Frame(WorkspaceSettingsForm)
    /\ Frame(ProfileSection)
    /\ Frame(InstallationEmailSection)
    /\ Frame(PasswordSection)
    /\ Frame(InstallationAdministratorsSection)
    /\ Frame(InviteForm)
    /\ Frame(CompanyNoteComposer)
    /\ Frame(EmailAccountForm)
BY DEF Frame, Guarded, Routed, AddedTo, InPage, WorkspaceSettingsForm, ProfileSection,
       InstallationEmailSection, PasswordSection, InstallationAdministratorsSection,
       InviteForm, CompanyNoteComposer, EmailAccountForm

\* The fields.
LEMMA FieldsBelong ==
    /\ CompanyFields.child => CompanyFields.parent
    /\ ContactFields.child => ContactFields.parent
    /\ DealCostFields.child => DealCostFields.parent
    /\ DealFields.child => DealFields.parent
    /\ Open.child => Open.parent
    /\ Plain.child => Plain.parent
    /\ SubscriptionFields.child => SubscriptionFields.parent
    /\ TaskFields.child => TaskFields.parent
BY DEF MoreDetails, CompanyFields, ContactFields, DealCostFields, DealFields, Open, Plain,
       SubscriptionFields, TaskFields

\* A form of such a frame and such fields.
LEMMA Assembled ==
    ASSUME NEW f, NEW g, Frame(f), g.child => g.parent
    PROVE  Frame(Dialog(f, g)) /\ (Dialog(f, g).child => Dialog(f, g).parent)
BY DEF Frame, Dialog

\* Every kind of form.
LEMMA Inventory ==
    ASSUME NEW k \in DOMAIN Dialogs
    PROVE  Frame(Dialogs[k]) /\ (Dialogs[k].child => Dialogs[k].parent)
<1>1. /\ Dialogs["DealDrawer"] = Dialog(DealDrawer, DealFields)
      /\ Dialogs["TaskDrawer"] = Dialog(TaskDrawer, TaskFields)
      /\ Dialogs["CompanyDialog"] = Dialog(CompanyDialog, CompanyFields)
      /\ Dialogs["ContactDrawer"] = Dialog(ContactDrawer, ContactFields)
      /\ Dialogs["SubscriptionDrawer"] = Dialog(SubscriptionDrawer, SubscriptionFields)
      /\ Dialogs["CatalogDrawer"] = Dialog(CatalogDrawer, Open)
      /\ Dialogs["PaymentDrawer"] = Dialog(PaymentDrawer, Open)
      /\ Dialogs["CollaboratorDrawer"] = Dialog(CollaboratorDrawer, Open)
      /\ Dialogs["CollaboratorServiceDrawer"] = Dialog(CollaboratorServiceDrawer, Open)
    BY DEF Dialogs
<1>2. /\ Dialogs["DealCostDrawer"] = Dialog(DealCostDrawer, DealCostFields)
      /\ Dialogs["CompanyCommunicationDialog"] = Dialog(CompanyCommunicationDialog, Open)
      /\ Dialogs["CreateDialog"] = Dialog(CreateDialog, Plain)
      /\ Dialogs["DeleteDealDialog"] = Dialog(DeleteDealDialog, Plain)
      /\ Dialogs["DeleteContactDialog"] = Dialog(DeleteContactDialog, Plain)
      /\ Dialogs["ArchiveCompanyDialog"] = Dialog(ArchiveCompanyDialog, Plain)
      /\ Dialogs["DeleteCostDialog"] = Dialog(DeleteCostDialog, Plain)
      /\ Dialogs["DealActionsMenu"] = Dialog(DealActionsMenu, Plain)
      /\ Dialogs["CancelPendingDialog"] = Dialog(CancelPendingDialog, Plain)
    BY DEF Dialogs
<1>3. /\ Dialogs["DeleteAccountDialog"] = Dialog(DeleteAccountDialog, Open)
      /\ Dialogs["WorkspaceSettingsForm"] = Dialog(WorkspaceSettingsForm, Plain)
      /\ Dialogs["ProfileSection"] = Dialog(ProfileSection, Open)
      /\ Dialogs["InstallationEmailSection"] = Dialog(InstallationEmailSection, Open)
      /\ Dialogs["PasswordSection"] = Dialog(PasswordSection, Open)
      /\ Dialogs["InstallationAdministratorsSection"] = Dialog(InstallationAdministratorsSection, Open)
      /\ Dialogs["InviteForm"] = Dialog(InviteForm, Open)
      /\ Dialogs["CompanyNoteComposer"] = Dialog(CompanyNoteComposer, Plain)
      /\ Dialogs["EmailAccountForm"] = Dialog(EmailAccountForm, Plain)
    BY DEF Dialogs
<1>4. CASE k \in {"DealDrawer", "TaskDrawer", "CompanyDialog", "ContactDrawer",
                "SubscriptionDrawer", "CatalogDrawer", "PaymentDrawer",
                "CollaboratorDrawer", "CollaboratorServiceDrawer"}
    BY <1>1, <1>4, Assembled, DrawerFrames, ConfirmationFrames, PageFrames, FieldsBelong
<1>5. CASE k \in {"DealCostDrawer", "CompanyCommunicationDialog", "CreateDialog",
                "DeleteDealDialog", "DeleteContactDialog", "ArchiveCompanyDialog",
                "DeleteCostDialog", "DealActionsMenu", "CancelPendingDialog"}
    BY <1>2, <1>5, Assembled, DrawerFrames, ConfirmationFrames, PageFrames, FieldsBelong
<1>6. CASE k \in {"DeleteAccountDialog", "WorkspaceSettingsForm", "ProfileSection",
                "InstallationEmailSection", "PasswordSection",
                "InstallationAdministratorsSection", "InviteForm", "CompanyNoteComposer",
                "EmailAccountForm"}
    BY <1>3, <1>6, Assembled, DrawerFrames, ConfirmationFrames, PageFrames, FieldsBelong
<1>7. QED
    BY <1>4, <1>5, <1>6 DEF Dialogs

\* A behaviour that has not chosen its form, or has left its page.
LEMMA NoForm == {"none", "away"} \cap DOMAIN Dialogs = {}
BY DEF Dialogs

(***************************************************************************)
(* The inductive invariant adds to the types: only a form that was chosen  *)
(* is open or has sent anything; a child in the fields, and in every       *)
(* submission, is its parent's; the fields of a form that does not follow  *)
(* its page are those of its record; and, of a form that closes on         *)
(* success, an instance that is open has not succeeded, and of two         *)
(* requests for the same mutation of the same instance that have been, or  *)
(* may yet be, carried out, one has ended without its answer.              *)
(***************************************************************************)
ShownRecord == [open : BOOLEAN, record : 0..2, instance : 0..MaxOpens]
RequestRecord ==
    [at : {"unsent", "sent", "answered", "over"}, name : Names, instance : 0..MaxOpens,
     record : 0..2, draft : Draft, outcome : {"none", "ok", "refused", "unseen"}]

Chosen ==
    /\ shown.open => kind \in DOMAIN Dialogs
    /\ \A q \in Submissions : request[q].at # "unsent" => kind \in DOMAIN Dialogs

ChildIsTheParents(d) == d.child \in {0, d.parent}
Belongs ==
    /\ ChildIsTheParents(draft)
    /\ \A q \in Submissions : ChildIsTheParents(request[q].draft)

FilledForItsRecord ==
    kind \in DOMAIN Dialogs /\ ~Form.follows =>
        /\ shown.open => draft.of = shown.record
        /\ \A q \in Submissions :
              request[q].at # "unsent" => request[q].draft.of = request[q].record

Outcomes ==
    \A q \in Submissions :
        /\ request[q].at \in {"unsent", "sent"} => request[q].outcome = "none"
        /\ request[q].instance <= shown.instance

MayBeCarriedOut(q) == request[q].at = "sent" \/ CarriedOut(q)
Unanswered(q) == request[q].at = "over" /\ request[q].outcome = "unseen"
RepeatedUnanswered ==
    kind \in DOMAIN Dialogs /\ Form.after = "close" =>
        /\ \A q \in Submissions :
              request[q].at = "over" /\ request[q].outcome = "ok"
              => ~ (shown.open /\ request[q].instance = shown.instance)
        /\ \A q, o \in Submissions :
              /\ q # o /\ MayBeCarriedOut(q) /\ MayBeCarriedOut(o)
              /\ request[q].instance = request[o].instance /\ request[q].name = request[o].name
              => Unanswered(q) \/ Unanswered(o)

FormsInv ==
    FormsTypeOK /\ Chosen /\ Belongs /\ FilledForItsRecord /\ Outcomes /\ RepeatedUnanswered

\* The type invariant with its records named.
LEMMA FormsTypes ==
    FormsTypeOK <=>
        /\ kind \in DOMAIN Dialogs \cup {"none", "away"}
        /\ shown \in ShownRecord /\ draft \in Draft /\ options \subseteq Parents
        /\ request \in [Submissions -> RequestRecord]
BY DEF FormsTypeOK, ShownRecord, RequestRecord

\* And after a step.
LEMMA FormsTypesNext ==
    ASSUME kind' \in DOMAIN Dialogs \cup {"none", "away"},
           shown' \in ShownRecord, draft' \in Draft, options' \subseteq Parents,
           request' \in [Submissions -> RequestRecord]
    PROVE  FormsTypeOK'
BY DEF FormsTypeOK, ShownRecord, RequestRecord

\* The empty fields, and a request that has not been sent.
LEMMA EmptyForms ==
    /\ NoDraft \in Draft /\ ChildIsTheParents(NoDraft)
    /\ Unsent \in RequestRecord /\ Unsent.at = "unsent" /\ Unsent.outcome = "none"
    /\ Unsent.instance = 0 /\ Unsent.draft = NoDraft
    /\ Closed \in ShownRecord /\ ~ Closed.open
<1>1. NoDraft \in Draft /\ ChildIsTheParents(NoDraft)
    BY FormsAssumption DEF NoDraft, Draft, ChildIsTheParents
<1>2. "none" \in Names
  <2>1. ASSUME NEW S PROVE "none" \in S \cup {"none"}
      OBVIOUS
  <2>2. QED
      BY <2>1 DEF Names
<1>3. /\ Unsent \in RequestRecord /\ Unsent.at = "unsent" /\ Unsent.outcome = "none"
      /\ Unsent.instance = 0 /\ Unsent.draft = NoDraft
    BY <1>1, <1>2, FormsAssumption DEF Unsent, RequestRecord
<1>4. Closed \in ShownRecord /\ ~ Closed.open
    BY FormsAssumption DEF Closed, ShownRecord
<1>5. QED
    BY <1>1, <1>3, <1>4

\* A form that goes, whether left or closed by an answer.
LEMMA Hidden ==
    ASSUME FormsTypeOK, Hide
    PROVE  /\ shown' \in ShownRecord /\ ~ shown'.open /\ shown'.instance = shown.instance
           /\ draft' = NoDraft
<1>1. /\ shown \in ShownRecord /\ draft' = NoDraft
      /\ shown' = [shown EXCEPT !.open = FALSE, !.record = 0]
    BY FormsTypes DEF Hide
<1>2. PICK f \in BOOLEAN : f = FALSE
    OBVIOUS
<1>3. shown' = [open |-> f, record |-> 0, instance |-> shown.instance]
    BY <1>1, <1>2 DEF ShownRecord
<1>4. QED
    BY <1>1, <1>2, <1>3 DEF ShownRecord

\* A new instance, filled from its record.
LEMMA FilledFields ==
    ASSUME kind \in DOMAIN Dialogs, NEW rec \in 0..2
    PROVE  Filled(rec) \in Draft /\ ChildIsTheParents(Filled(rec)) /\ Filled(rec).of = rec
<1>1. PICK p \in 0..2, c \in 0..2 :
          /\ p = IF Form.parent THEN rec ELSE 0
          /\ c = IF Form.child THEN rec ELSE 0
    OBVIOUS
<1>2. Filled(rec) = [of |-> rec, parent |-> p, child |-> c, edits |-> 0]
    BY <1>1 DEF Filled
<1>3. c \in {0, p}
    BY <1>1, Inventory DEF Form
<1>4. QED
    BY <1>2, <1>3, FormsAssumption DEF Draft, ChildIsTheParents

\* Steps of the form on the screen.
LEMMA RequestsStay ==
    ASSUME FormsInv, UNCHANGED <<kind, request>>,
           shown' \in ShownRecord, draft' \in Draft, options' \subseteq Parents,
           ChildIsTheParents(draft'),
           shown'.open => kind \in DOMAIN Dialogs,
           kind \in DOMAIN Dialogs /\ ~Form.follows /\ shown'.open => draft'.of = shown'.record,
           \/ shown'.instance = shown.instance /\ (shown'.open => shown.open)
           \/ shown'.instance = shown.instance + 1
    PROVE  FormsInv'
<1>1. /\ kind \in DOMAIN Dialogs \cup {"none", "away"} /\ shown \in ShownRecord
      /\ request \in [Submissions -> RequestRecord]
    BY FormsTypes DEF FormsInv
<1>2. FormsTypeOK'
    BY <1>1, FormsTypesNext
<1>3. Chosen' /\ Belongs' /\ FilledForItsRecord'
    BY DEF FormsInv, Chosen, Belongs, FilledForItsRecord, Form
<1>4. \A q \in Submissions : request[q].instance \in Nat /\ request[q].instance <= shown.instance
    BY <1>1 DEF FormsInv, Outcomes, RequestRecord
<1>5. Outcomes'
    BY <1>1, <1>4 DEF FormsInv, Outcomes, ShownRecord
<1>6. RepeatedUnanswered'
  <2>1. ASSUME NEW q \in Submissions, shown'.open, request[q].instance = shown'.instance
        PROVE  shown.open /\ request[q].instance = shown.instance
      BY <1>1, <1>4, <2>1 DEF ShownRecord
  <2>2. QED
      BY <2>1 DEF FormsInv, RepeatedUnanswered, MayBeCarriedOut, CarriedOut, Unanswered, Form
<1>7. QED
    BY <1>2, <1>3, <1>5, <1>6 DEF FormsInv

\* The form goes with all that it had under way.
LEMMA AllGone ==
    ASSUME FormsInv, Hide, kind' \in DOMAIN Dialogs \cup {"away"}, options' \subseteq Parents,
           request' = [q \in Submissions |-> Unsent]
    PROVE  FormsInv'
<1>1. /\ shown' \in ShownRecord /\ ~ shown'.open /\ shown'.instance = shown.instance
      /\ draft' = NoDraft /\ shown \in ShownRecord
    BY Hidden, FormsTypes DEF FormsInv
<1>2. \A q \in Submissions : request'[q] = Unsent
    OBVIOUS
<1>3. FormsTypeOK'
    BY <1>1, EmptyForms, FormsTypesNext
<1>4. Chosen' /\ Belongs'
    BY <1>1, <1>2, EmptyForms DEF Chosen, Belongs
<1>5. FilledForItsRecord' /\ RepeatedUnanswered'
    BY <1>1, <1>2, EmptyForms DEF FilledForItsRecord, RepeatedUnanswered, MayBeCarriedOut, CarriedOut
<1>6. Outcomes'
    BY <1>1, <1>2, EmptyForms DEF Outcomes, ShownRecord
<1>7. QED
    BY <1>3, <1>4, <1>5, <1>6 DEF FormsInv

\* The fields of an open form, and a form that is opened or left.
LEMMA FormSteps ==
    ASSUME FormsInv,
           \/ \E rec \in 0..2 : OpenForm(rec) \/ ShowAnother(rec)
           \/ Unload \/ Edit \/ LoadOptions
           \/ \E p \in Parents : ChooseParent(p)
           \/ \E c \in 0..2 : ChooseChild(c)
           \/ \E e \in {"backdrop", "button", "section"} : Exit(e)
    PROVE  FormsInv'
<1>0. /\ kind \in DOMAIN Dialogs \cup {"none", "away"}
      /\ shown \in ShownRecord /\ draft \in Draft /\ options \subseteq Parents
      /\ ChildIsTheParents(draft)
      /\ shown.open => kind \in DOMAIN Dialogs
      /\ kind \in DOMAIN Dialogs /\ ~Form.follows /\ shown.open => draft.of = shown.record
    BY FormsTypes DEF FormsInv, Chosen, Belongs, FilledForItsRecord
<1>1. CASE \E rec \in 0..2 : OpenForm(rec)
  <2>1. PICK rec \in 0..2 : OpenForm(rec)
      BY <1>1
  <2>2. UNCHANGED <<kind, options, request>> /\ kind \in DOMAIN Dialogs
      BY <2>1 DEF OpenForm
  <2>3. /\ shown.instance < MaxOpens
        /\ shown' = [open |-> TRUE, record |-> rec, instance |-> shown.instance + 1]
      BY <2>1 DEF OpenForm, Mount
  <2>4. /\ shown' \in ShownRecord /\ shown'.record = rec
        /\ shown'.instance = shown.instance + 1
      BY <1>0, <2>3, FormsAssumption DEF ShownRecord
  <2>5. draft' \in Draft /\ ChildIsTheParents(draft') /\ draft'.of = rec
    <3>1. draft' = Filled(rec) \/ draft' = [Filled(0) EXCEPT !.of = rec]
        BY <2>1 DEF OpenForm, Mount
    <3>2. CASE draft' = Filled(rec)
        BY <2>2, <3>2, FilledFields
    <3>3. CASE draft' = [Filled(0) EXCEPT !.of = rec]
      <4>1. Filled(0) \in Draft /\ ChildIsTheParents(Filled(0))
          BY <2>2, FilledFields
      <4>2. draft' = [of |-> rec, parent |-> Filled(0).parent, child |-> Filled(0).child,
                      edits |-> Filled(0).edits]
          BY <3>3, <4>1 DEF Draft
      <4>3. QED
          BY <4>1, <4>2 DEF Draft, ChildIsTheParents
    <3>4. QED
        BY <3>1, <3>2, <3>3
  <2>6. QED
      BY <1>0, <2>2, <2>4, <2>5, RequestsStay
<1>2. CASE LoadOptions
  <2>1. UNCHANGED <<kind, shown, draft, request>> /\ options' \subseteq Parents
      BY <1>0, <1>2 DEF LoadOptions
  <2>2. QED
      BY <1>0, <2>1, RequestsStay
<1>3. CASE Edit \/ (\E p \in Parents : ChooseParent(p)) \/ (\E c \in 0..2 : ChooseChild(c))
  <2>1. UNCHANGED <<kind, shown, options, request>>
      BY <1>3 DEF Edit, ChooseParent, ChooseChild
  <2>2. draft' \in Draft /\ ChildIsTheParents(draft') /\ draft'.of = draft.of
    <3>1. CASE Edit
      <4>1. draft.edits < MaxEdits /\ draft' = [draft EXCEPT !.edits = draft.edits + 1]
          BY <3>1 DEF Edit
      <4>2. QED
          BY <1>0, <4>1, FormsAssumption DEF Draft, ChildIsTheParents
    <3>2. CASE \E p \in Parents : ChooseParent(p)
      <4>1. PICK p \in Parents : draft' = [draft EXCEPT !.parent = p, !.child = 0]
          BY <3>2 DEF ChooseParent
      <4>2. draft' = [of |-> draft.of, parent |-> p, child |-> 0, edits |-> draft.edits]
          BY <1>0, <4>1 DEF Draft
      <4>3. p \in 0..2
          BY DEF Parents
      <4>4. QED
          BY <1>0, <4>2, <4>3 DEF Draft, ChildIsTheParents
    <3>3. CASE \E c \in 0..2 : ChooseChild(c)
      <4>1. PICK c \in 0..2 : c \in {0, draft.parent} /\ draft' = [draft EXCEPT !.child = c]
          BY <3>3 DEF ChooseChild
      <4>2. QED
          BY <1>0, <4>1 DEF Draft, ChildIsTheParents
    <3>4. QED
        BY <1>3, <3>1, <3>2, <3>3
  <2>3. QED
      BY <1>0, <2>1, <2>2, RequestsStay
<1>4. CASE \E e \in {"backdrop", "button", "section"} : Exit(e)
  <2>1. Hide /\ UNCHANGED <<kind, options, request>>
      BY <1>4 DEF Exit
  <2>2. /\ shown' \in ShownRecord /\ ~ shown'.open /\ shown'.instance = shown.instance
        /\ draft' = NoDraft
      BY <2>1, Hidden DEF FormsInv
  <2>3. QED
      BY <1>0, <2>1, <2>2, EmptyForms, RequestsStay
<1>5. CASE \E rec \in 0..2 : ShowAnother(rec)
  <2>1. PICK rec \in 0..2 : ShowAnother(rec)
      BY <1>5
  <2>2. /\ shown.open /\ Form.follows /\ shown' = [shown EXCEPT !.record = rec]
        /\ UNCHANGED <<kind, draft, options, request>>
      BY <2>1 DEF ShowAnother
  <2>3. PICK b \in BOOLEAN : b = shown.open
      BY <1>0 DEF ShownRecord
  <2>4. shown' = [open |-> b, record |-> rec, instance |-> shown.instance]
      BY <1>0, <2>2, <2>3 DEF ShownRecord
  <2>5. shown' \in ShownRecord /\ shown'.instance = shown.instance
      BY <1>0, <2>4 DEF ShownRecord
  <2>6. QED
      BY <1>0, <2>2, <2>5, RequestsStay
<1>6. CASE Unload
  <2>1. Hide /\ UNCHANGED <<kind, options>> /\ kind \in DOMAIN Dialogs
      BY <1>0, <1>6 DEF Unload
  <2>2. CASE UNCHANGED request
    <3>1. /\ shown' \in ShownRecord /\ ~ shown'.open /\ shown'.instance = shown.instance
          /\ draft' = NoDraft
        BY <2>1, Hidden DEF FormsInv
    <3>2. QED
        BY <1>0, <2>1, <2>2, <3>1, EmptyForms, RequestsStay
  <2>3. CASE request' = [q \in Submissions |-> Unsent]
      BY <1>0, <2>1, <2>3, AllGone
  <2>4. QED
      BY <1>6, <2>2, <2>3 DEF Unload
<1>7. QED
    BY <1>1, <1>2, <1>3, <1>4, <1>5, <1>6

\* A button is pressed: no other request for this instance's mutation is under
\* way, nor has one been answered with its success.
LEMMA PressKeeps ==
    ASSUME FormsInv, NEW q \in Submissions, NEW n \in Names, Press(q, n)
    PROVE  FormsInv'
<1> DEFINE r == [at |-> "sent", name |-> n, instance |-> shown.instance,
                 record |-> shown.record, draft |-> draft, outcome |-> "none"]
<1>0. /\ kind \in DOMAIN Dialogs /\ shown \in ShownRecord /\ draft \in Draft
      /\ options \subseteq Parents /\ request \in [Submissions -> RequestRecord]
    BY FormsTypes DEF FormsInv, Press, Chosen
<1>1. /\ request' = [request EXCEPT ![q] = r] /\ UNCHANGED <<kind, shown, draft, options>>
      /\ shown.open /\ n \in DOMAIN Form.actions /\ \A b \in Form.actions[n] : ~ Pending(b)
    BY DEF Press
<1>2. ~ Pending(n)
    BY <1>0, <1>1, Inventory DEF Frame, Form
<1>3. /\ r \in RequestRecord /\ r.at = "sent" /\ r.name = n /\ r.instance = shown.instance
      /\ r.record = shown.record /\ r.draft = draft /\ r.outcome = "none"
    BY <1>0 DEF RequestRecord, ShownRecord
<1> HIDE DEF r
<1>4. /\ request' \in [Submissions -> RequestRecord] /\ request'[q] = r
      /\ \A o \in Submissions \ {q} : request'[o] = request[o]
    BY <1>0, <1>1, <1>3
<1>5. FormsTypeOK'
    BY <1>0, <1>1, <1>4, FormsTypesNext
<1>6. Chosen' /\ Belongs'
    BY <1>0, <1>1, <1>3, <1>4 DEF FormsInv, Chosen, Belongs
<1>7. FilledForItsRecord'
  <2>1. Form' = Form
      BY <1>1 DEF Form
  <2>2. QED
      BY <1>1, <1>3, <1>4, <2>1 DEF FormsInv, FilledForItsRecord
<1>8. Outcomes'
    BY <1>0, <1>1, <1>3, <1>4 DEF FormsInv, Outcomes, ShownRecord
<1>9. ASSUME NEW o \in Submissions \ {q}, Form.after = "close", MayBeCarriedOut(o),
             request[o].instance = shown.instance, request[o].name = n
      PROVE  Unanswered(o)
  <2>1. request[o].at \notin {"sent", "answered"}
      BY <1>1, <1>2, <1>9 DEF Pending, Observed
  <2>2. request[o].at = "over" /\ request[o].outcome \in {"ok", "unseen"}
      BY <1>0, <1>9, <2>1 DEF FormsInv, Outcomes, MayBeCarriedOut, CarriedOut, RequestRecord
  <2>3. request[o].outcome # "ok"
      BY <1>0, <1>1, <1>9, <2>2 DEF FormsInv, RepeatedUnanswered
  <2>4. QED
      BY <2>2, <2>3 DEF Unanswered
<1>10. RepeatedUnanswered'
  <2> SUFFICES ASSUME kind \in DOMAIN Dialogs, Form.after = "close"
               PROVE  /\ \A x \in Submissions :
                            request'[x].at = "over" /\ request'[x].outcome = "ok"
                            => ~ (shown.open /\ request'[x].instance = shown.instance)
                      /\ \A x, o \in Submissions :
                            /\ x # o /\ MayBeCarriedOut(x)' /\ MayBeCarriedOut(o)'
                            /\ request'[x].instance = request'[o].instance
                            /\ request'[x].name = request'[o].name
                            => Unanswered(x)' \/ Unanswered(o)'
      BY <1>1 DEF RepeatedUnanswered, Form
  <2>1. ASSUME NEW x \in Submissions, request'[x].at = "over", request'[x].outcome = "ok"
        PROVE  ~ (shown.open /\ request'[x].instance = shown.instance)
      BY <1>3, <1>4, <2>1 DEF FormsInv, RepeatedUnanswered
  <2>2. ASSUME NEW x \in Submissions, NEW o \in Submissions, x # o,
               MayBeCarriedOut(x)', MayBeCarriedOut(o)',
               request'[x].instance = request'[o].instance, request'[x].name = request'[o].name
        PROVE  Unanswered(x)' \/ Unanswered(o)'
    <3>1. CASE x = q
      <4>1. request'[o] = request[o] /\ MayBeCarriedOut(o)
          BY <1>4, <2>2, <3>1 DEF MayBeCarriedOut, CarriedOut
      <4>2. Unanswered(o)
          BY <1>3, <1>4, <1>9, <2>2, <3>1, <4>1
      <4>3. QED
          BY <4>1, <4>2 DEF Unanswered
    <3>2. CASE o = q
      <4>1. request'[x] = request[x] /\ MayBeCarriedOut(x)
          BY <1>4, <2>2, <3>2 DEF MayBeCarriedOut, CarriedOut
      <4>2. Unanswered(x)
          BY <1>3, <1>4, <1>9, <2>2, <3>2, <4>1
      <4>3. QED
          BY <4>1, <4>2 DEF Unanswered
    <3>3. CASE x # q /\ o # q
      <4>1. /\ request'[o] = request[o] /\ request'[x] = request[x]
            /\ MayBeCarriedOut(o) /\ MayBeCarriedOut(x)
          BY <1>4, <2>2, <3>3 DEF MayBeCarriedOut, CarriedOut
      <4>2. Unanswered(x) \/ Unanswered(o)
          BY <2>2, <4>1 DEF FormsInv, RepeatedUnanswered
      <4>3. QED
          BY <4>1, <4>2 DEF Unanswered
    <3>4. QED
        BY <3>1, <3>2, <3>3
  <2>3. QED
      BY <2>1, <2>2
<1>11. QED
    BY <1>5, <1>6, <1>7, <1>8, <1>10 DEF FormsInv

\* A request that was under way is served, or over: what has been carried out
\* after it may have been before.
LEMMA RequestEnds ==
    ASSUME FormsInv, NEW q \in Submissions, NEW r \in RequestRecord,
           request' = [request EXCEPT ![q] = r], UNCHANGED <<kind, options>>,
           request[q].at \in {"sent", "answered"}, r.at \in {"answered", "over"},
           r.name = request[q].name, r.instance = request[q].instance,
           ChildIsTheParents(r.draft),
           kind \in DOMAIN Dialogs /\ ~Form.follows => r.draft.of = r.record,
           r.outcome \in {"ok", "unseen"} => MayBeCarriedOut(q),
           shown' \in ShownRecord, draft' \in Draft, ChildIsTheParents(draft'),
           shown'.instance = shown.instance, shown'.open => shown.open,
           kind \in DOMAIN Dialogs /\ ~Form.follows /\ shown'.open => draft'.of = shown'.record,
           /\ kind \in DOMAIN Dialogs /\ Form.after = "close" /\ r.at = "over" /\ r.outcome = "ok"
           => ~ (shown'.open /\ r.instance = shown.instance)
    PROVE  FormsInv'
<1>0. /\ kind \in DOMAIN Dialogs /\ shown \in ShownRecord
      /\ options \subseteq Parents /\ request \in [Submissions -> RequestRecord]
    BY FormsTypes DEF FormsInv, Chosen
<1>1. /\ request' \in [Submissions -> RequestRecord] /\ request'[q] = r
      /\ \A o \in Submissions \ {q} : request'[o] = request[o]
    BY <1>0
<1>2. FormsTypeOK'
    BY <1>0, <1>1, FormsTypesNext
<1>3. Form' = Form
    BY DEF Form
<1>4. Chosen' /\ Belongs'
    BY <1>0, <1>1 DEF FormsInv, Chosen, Belongs
<1>5. FilledForItsRecord'
    BY <1>1, <1>3 DEF FormsInv, FilledForItsRecord
<1>6. Outcomes'
    BY <1>1 DEF FormsInv, Outcomes
<1>7. \A o \in Submissions :
          /\ MayBeCarriedOut(o)' => MayBeCarriedOut(o)
          /\ Unanswered(o) => Unanswered(o)'
          /\ request'[o].instance = request[o].instance /\ request'[o].name = request[o].name
    BY <1>1 DEF MayBeCarriedOut, CarriedOut, Unanswered
<1>8. RepeatedUnanswered'
  <2> SUFFICES ASSUME Form.after = "close"
               PROVE  /\ \A x \in Submissions :
                            request'[x].at = "over" /\ request'[x].outcome = "ok"
                            => ~ (shown'.open /\ request'[x].instance = shown'.instance)
                      /\ \A x, o \in Submissions :
                            /\ x # o /\ MayBeCarriedOut(x)' /\ MayBeCarriedOut(o)'
                            /\ request'[x].instance = request'[o].instance
                            /\ request'[x].name = request'[o].name
                            => Unanswered(x)' \/ Unanswered(o)'
      BY <1>3 DEF RepeatedUnanswered
  <2>1. ASSUME NEW x \in Submissions, request'[x].at = "over", request'[x].outcome = "ok"
        PROVE  ~ (shown'.open /\ request'[x].instance = shown'.instance)
    <3>1. CASE x = q
        BY <1>0, <1>1, <2>1, <3>1
    <3>2. CASE x # q
        BY <1>0, <1>1, <2>1, <3>2 DEF FormsInv, RepeatedUnanswered
    <3>3. QED
        BY <3>1, <3>2
  <2>2. ASSUME NEW x \in Submissions, NEW o \in Submissions, x # o,
               MayBeCarriedOut(x)', MayBeCarriedOut(o)',
               request'[x].instance = request'[o].instance, request'[x].name = request'[o].name
        PROVE  Unanswered(x)' \/ Unanswered(o)'
      BY <1>0, <1>7, <2>2 DEF FormsInv, RepeatedUnanswered
  <2>3. QED
      BY <2>1, <2>2
<1>9. QED
    BY <1>2, <1>4, <1>5, <1>6, <1>8 DEF FormsInv

\* The server carries a request out or refuses it, or the answer is lost.
LEMMA ServedKeeps ==
    ASSUME FormsInv, NEW q \in Submissions, Served(q)
    PROVE  FormsInv'
<1>0. /\ shown \in ShownRecord /\ draft \in Draft
      /\ request \in [Submissions -> RequestRecord]
    BY FormsTypes DEF FormsInv
<1>1. request[q].at = "sent" /\ UNCHANGED <<kind, shown, draft, options>>
    BY DEF Served
<1>2. PICK o \in {"ok", "refused", "unseen"} :
          request' = [request EXCEPT ![q] = [request[q] EXCEPT
                        !.at = "answered", !.outcome = o, !.record = 0, !.draft = NoDraft]]
    BY DEF Served
<1>3. PICK r : r = [request[q] EXCEPT
                      !.at = "answered", !.outcome = o, !.record = 0, !.draft = NoDraft]
    OBVIOUS
<1>4. request' = [request EXCEPT ![q] = r]
    BY <1>2, <1>3
<1>5. request[q] \in RequestRecord
    BY <1>0
<1>6. r = [at |-> "answered", name |-> request[q].name, instance |-> request[q].instance,
           record |-> 0, draft |-> NoDraft, outcome |-> o]
    BY <1>3, <1>5 DEF RequestRecord
<1>7. /\ r \in RequestRecord /\ r.at = "answered" /\ r.name = request[q].name
      /\ r.instance = request[q].instance
      /\ ChildIsTheParents(r.draft) /\ r.draft.of = r.record
    BY <1>5, <1>6, EmptyForms DEF RequestRecord, NoDraft
<1>8. MayBeCarriedOut(q)
    BY <1>1 DEF MayBeCarriedOut
<1>9. /\ ChildIsTheParents(draft)
      /\ kind \in DOMAIN Dialogs /\ ~Form.follows /\ shown.open => draft.of = shown.record
    BY DEF FormsInv, Belongs, FilledForItsRecord
<1>10. QED
    BY <1>0, <1>1, <1>4, <1>7, <1>8, <1>9, RequestEnds

\* An answer arrives: the success of an instance that closes on one closes it,
\* or finds it gone.
LEMMA AnswerKeeps ==
    ASSUME FormsInv, NEW q \in Submissions, Answer(q)
    PROVE  FormsInv'
<1> DEFINE runs == request[q].outcome = "ok" /\ (Observed(q) \/ Form.awaits)
           after == IF runs THEN Form.after ELSE "stay"
<1>0. /\ shown \in ShownRecord /\ draft \in Draft /\ FormsTypeOK
      /\ request \in [Submissions -> RequestRecord] /\ request[q] \in RequestRecord
    BY FormsTypes DEF FormsInv
<1>1. /\ request[q].at = "answered" /\ UNCHANGED <<kind, options>>
      /\ CASE after = "close" -> Hide
           [] after = "clear" -> draft' = Filled(shown.record) /\ UNCHANGED shown
           [] after = "stay"  -> UNCHANGED <<shown, draft>>
      /\ request' = [request EXCEPT ![q] = [request[q] EXCEPT !.at = "over"]]
  <2>1. request' = [request EXCEPT ![q].at = "over"]
      BY DEF Answer
  <2>2. QED
      BY <2>1 DEF Answer
<1>2. kind \in DOMAIN Dialogs /\ after \in {"close", "clear", "stay"}
  <2>1. kind \in DOMAIN Dialogs
      BY <1>1 DEF FormsInv, Chosen
  <2>2. QED
      BY <2>1, Inventory DEF Frame, Form
<1>3. /\ after = "stay" /\ runs => Form.after = "stay"
      /\ after # "stay" => after = Form.after
    OBVIOUS
<1>4. PICK r : r = [request[q] EXCEPT !.at = "over"]
    OBVIOUS
<1>5. request' = [request EXCEPT ![q] = r]
    BY <1>1, <1>4
<1>6. r = [at |-> "over", name |-> request[q].name, instance |-> request[q].instance,
           record |-> request[q].record, draft |-> request[q].draft,
           outcome |-> request[q].outcome]
    BY <1>0, <1>4 DEF RequestRecord
<1>7. /\ r \in RequestRecord /\ r.at = "over" /\ r.name = request[q].name
      /\ r.instance = request[q].instance /\ r.outcome = request[q].outcome
      /\ r.record = request[q].record /\ r.draft = request[q].draft
    BY <1>0, <1>6 DEF RequestRecord
<1>8. /\ r.outcome \in {"ok", "unseen"} => MayBeCarriedOut(q)
      /\ ChildIsTheParents(r.draft)
      /\ kind \in DOMAIN Dialogs /\ ~Form.follows => r.draft.of = r.record
    BY <1>1, <1>7 DEF FormsInv, Belongs, FilledForItsRecord, MayBeCarriedOut, CarriedOut
<1>9. /\ ChildIsTheParents(draft)
      /\ ~Form.follows /\ shown.open => draft.of = shown.record
    BY <1>2 DEF FormsInv, Belongs, FilledForItsRecord
<1>10. ~ runs /\ request[q].outcome = "ok" => ~ (shown.open /\ request[q].instance = shown.instance)
    BY DEF Observed
<1> HIDE DEF runs
<1>11. CASE after = "close"
  <2>1. Hide
      BY <1>1, <1>11
  <2>2. /\ shown' \in ShownRecord /\ ~ shown'.open /\ shown'.instance = shown.instance
        /\ draft' = NoDraft
      BY <1>0, <2>1, Hidden
  <2>3. QED
      BY <1>1, <1>5, <1>7, <1>8, <2>2, EmptyForms, RequestEnds
<1>12. CASE after = "clear"
  <2>1. draft' = Filled(shown.record) /\ UNCHANGED shown
      BY <1>1, <1>12
  <2>2. draft' \in Draft /\ ChildIsTheParents(draft') /\ draft'.of = shown.record
      BY <1>0, <1>2, <2>1, FilledFields DEF ShownRecord
  <2>3. Form.after # "close"
      BY <1>3, <1>12
  <2>4. QED
      BY <1>0, <1>1, <1>5, <1>7, <1>8, <2>1, <2>2, <2>3, RequestEnds
<1>13. CASE after = "stay"
  <2>1. UNCHANGED <<shown, draft>>
      BY <1>1, <1>13
  <2>2. Form.after = "close" => ~ runs
      BY <1>3, <1>13
  <2>3. QED
      BY <1>0, <1>1, <1>5, <1>7, <1>8, <1>9, <1>10, <2>1, <2>2, RequestEnds
<1>14. QED
    BY <1>2, <1>11, <1>12, <1>13

\* The page is chosen, or left.
LEMMA VisitAndLeave ==
    ASSUME FormsInv, LeavePage \/ \E k \in DOMAIN Dialogs : Visit(k)
    PROVE  FormsInv'
<1>0. /\ shown \in ShownRecord /\ draft \in Draft /\ options \subseteq Parents
      /\ request \in [Submissions -> RequestRecord] /\ FormsTypeOK
    BY FormsTypes DEF FormsInv
<1>1. CASE \E k \in DOMAIN Dialogs : Visit(k)
  <2>1. /\ kind = "none" /\ kind' \in DOMAIN Dialogs
        /\ UNCHANGED <<shown, draft, options, request>>
      BY <1>1 DEF Visit
  <2>2. ~ shown.open /\ \A q \in Submissions : request[q].at = "unsent"
      BY <2>1, NoForm DEF FormsInv, Chosen
  <2>3. \A q \in Submissions : request[q].outcome = "none"
      BY <2>2 DEF FormsInv, Outcomes
  <2>4. FormsTypeOK'
      BY <1>0, <2>1, FormsTypesNext
  <2>5. Chosen' /\ Belongs' /\ FilledForItsRecord' /\ Outcomes' /\ RepeatedUnanswered'
      BY <2>1, <2>2, <2>3 DEF FormsInv, Chosen, Belongs, FilledForItsRecord, Outcomes,
                             RepeatedUnanswered, MayBeCarriedOut, CarriedOut
  <2>6. QED
      BY <2>4, <2>5 DEF FormsInv
<1>2. CASE LeavePage
  <2>1. /\ kind' = "away" /\ Hide /\ options' = {}
        /\ request' = [q \in Submissions |-> Unsent]
      BY <1>2 DEF LeavePage
  <2>2. QED
      BY <2>1, AllGone
<1>3. QED
    BY <1>1, <1>2

\* At first no form has been chosen.
LEMMA InitForms == FormsInit => FormsInv
<1> SUFFICES ASSUME FormsInit PROVE FormsInv
    OBVIOUS
<1>1. /\ kind = "none" /\ shown = Closed /\ draft = NoDraft /\ options = {}
      /\ request = [q \in Submissions |-> Unsent]
    BY DEF FormsInit
<1>2. \A q \in Submissions : request[q] = Unsent
    BY <1>1
<1>3. FormsTypeOK
    BY <1>1, EmptyForms, FormsTypes
<1>4. Chosen /\ Belongs
    BY <1>1, <1>2, EmptyForms DEF Chosen, Belongs
<1>5. FilledForItsRecord /\ RepeatedUnanswered
    BY <1>1, NoForm DEF FilledForItsRecord, RepeatedUnanswered
<1>6. Outcomes
    BY <1>1, <1>2, EmptyForms DEF Outcomes, Closed
<1>7. QED
    BY <1>3, <1>4, <1>5, <1>6 DEF FormsInv

\* Every step keeps the invariant.
LEMMA StepForms == FormsInv /\ [FormsNext]_formsVars => FormsInv'
<1> SUFFICES ASSUME FormsInv, [FormsNext]_formsVars PROVE FormsInv'
    OBVIOUS
<1>1. CASE UNCHANGED formsVars
  <2>1. UNCHANGED <<kind, shown, draft, options, request>>
      BY <1>1 DEF formsVars
  <2>2. /\ shown \in ShownRecord /\ draft \in Draft /\ options \subseteq Parents
        /\ ChildIsTheParents(draft)
        /\ shown.open => kind \in DOMAIN Dialogs
        /\ kind \in DOMAIN Dialogs /\ ~Form.follows /\ shown.open => draft.of = shown.record
      BY FormsTypes DEF FormsInv, Chosen, Belongs, FilledForItsRecord
  <2>3. QED
      BY <2>1, <2>2, RequestsStay
<1>2. CASE \/ \E rec \in 0..2 : OpenForm(rec) \/ ShowAnother(rec)
           \/ Unload \/ Edit \/ LoadOptions
           \/ \E p \in Parents : ChooseParent(p)
           \/ \E c \in 0..2 : ChooseChild(c)
           \/ \E e \in {"backdrop", "button", "section"} : Exit(e)
    BY <1>2, FormSteps
<1>3. CASE \E q \in Submissions : (\E n \in Names : Press(q, n)) \/ Served(q) \/ Answer(q)
    BY <1>3, PressKeeps, ServedKeeps, AnswerKeeps
<1>4. CASE LeavePage \/ \E k \in DOMAIN Dialogs : Visit(k)
    BY <1>4, VisitAndLeave
<1>5. QED
    BY <1>1, <1>2, <1>3, <1>4 DEF FormsNext

\* The inductive invariant of the forms.
THEOREM FormsInvariance == FormsSpec => []FormsInv
BY InitForms, StepForms, PTL DEF FormsSpec

\* The fields and the submissions of a form stay what they are.
THEOREM FormsTypesHold == FormsSpec => []FormsTypeOK
<1>1. FormsInv => FormsTypeOK
    BY DEF FormsInv
<1>2. QED
    BY <1>1, FormsInvariance, PTL

\* The drawers and dialogs: what is submitted belongs together, the child to
\* the parent and, but in the forms that follow their page, the fields to the
\* record.
THEOREM SubmissionsBelongTogether == FormsSpec => []SubmittedBelongTogether
<1>1. FormsInv => SubmittedBelongTogether
    BY DEF FormsInv, Belongs, ChildIsTheParents, FilledForItsRecord, SubmittedBelongTogether
<1>2. QED
    BY <1>1, FormsInvariance, PTL

\* Their pending buttons and their lost answers: a form that closes on success
\* is carried out again, without being opened again, only after an answer that
\* was lost.
THEOREM RepeatsFollowALostAnswer == FormsSpec => []CarriedOutOnce
<1>1. FormsInv => CarriedOutOnce
    BY DEF FormsInv, RepeatedUnanswered, MayBeCarriedOut, Unanswered, CarriedOutOnce
<1>2. QED
    BY <1>1, FormsInvariance, PTL

(***************************************************************************)
(* The deal board.  A list that is not marked for a refetch is the         *)
(* server's whenever no mutation is under way and no archive has failed;   *)
(* the same is true of an answer that is on its way, because rows change   *)
(* only during a mutation, and the end of every mutation marks the lists   *)
(* and asks anew.                                                          *)
(***************************************************************************)
Quiet == \A m \in Moves : moves[m].at \in {"idle", "over"}

\* What a mutation is, whatever its fields hold.
IsMove(m) ==
    m = [at |-> m.at, kind |-> m.kind, deal |-> m.deal, stage |-> m.stage,
         position |-> m.position, copy |-> m.copy, previous |-> m.previous, key |-> m.key]

BoardShape ==
    /\ list = [v \in Views |-> list[v]]
    /\ outdated \in [Views -> BOOLEAN]
    /\ view \in Views \cup {"away"}
    /\ latest \in Moves \cup {"none"}
    /\ moves = [m \in Moves |-> moves[m]]
    /\ \A m \in Moves : IsMove(moves[m])
    /\ \/ fetching \in {NotFetching, ListAsked}
       \/ fetching = [at |-> "answered", data |-> fetching.data] /\ view # "away"

UnmarkedListsAreTheServers ==
    \A v \in Views : list[v] # NoList /\ ~outdated[v] => list[v] = Listed(v)

AnswerIsTheServers == fetching.at = "answered" => fetching.data = Listed(view)

BoardInv ==
    /\ BoardShape
    /\ Quiet => UnmarkedListsAreTheServers /\ AnswerIsTheServers

\* What the endpoint answers from the rows r.
AnsweredFrom(v, r) ==
    LET ids == Sorted(Selected(v, r), r)
    IN  [i \in DOMAIN ids |->
           [deal |-> ids[i], stage |-> r[ids[i]].stage, order |-> r[ids[i]].order]]

\* The list endpoint: its answer depends on the rows alone.
LEMMA SameRows == rows' = rows => \A v \in Views : Listed(v)' = Listed(v)
<1> SUFFICES ASSUME rows' = rows, NEW v \in Views PROVE Listed(v)' = Listed(v)
    OBVIOUS
<1>1. Listed(v) = AnsweredFrom(v, rows)
    BY DEF Listed, AnsweredFrom
<1>2. Listed(v)' = AnsweredFrom(v, rows')
    BY DEF Listed, AnsweredFrom
<1>3. QED
    BY ONLY <1>1, <1>2, rows' = rows

\* Writing a field of a mutation's record leaves its other fields alone.
LEMMA WrittenMove ==
    ASSUME NEW m, IsMove(m), NEW x
    PROVE  /\ IsMove([m EXCEPT !.at = x]) /\ [m EXCEPT !.at = x].at = x
           /\ IsMove([m EXCEPT !.key = x]) /\ [m EXCEPT !.key = x].at = m.at
           /\ IsMove([m EXCEPT !.copy = x]) /\ [m EXCEPT !.copy = x].at = m.at
           /\ IsMove([m EXCEPT !.kind = x]) /\ [m EXCEPT !.kind = x].at = m.at
           /\ IsMove([m EXCEPT !.deal = x]) /\ [m EXCEPT !.deal = x].at = m.at
<1> DEFINE Shape == [at : {m.at, x}, kind : {m.kind, x}, deal : {m.deal, x},
                     stage : {m.stage}, position : {m.position}, copy : {m.copy, x},
                     previous : {m.previous}, key : {m.key, x}]
<1>1. m \in Shape
    BY DEF IsMove
<1>2. /\ [m EXCEPT !.at = x] \in Shape /\ [m EXCEPT !.key = x] \in Shape
      /\ [m EXCEPT !.copy = x] \in Shape /\ [m EXCEPT !.kind = x] \in Shape
      /\ [m EXCEPT !.deal = x] \in Shape
    BY <1>1
<1>3. \A r \in Shape : IsMove(r)
    BY DEF IsMove
<1>4. /\ [m EXCEPT !.at = x].at = x
      /\ [m EXCEPT !.key = x].at = m.at /\ [m EXCEPT !.copy = x].at = m.at
      /\ [m EXCEPT !.kind = x].at = m.at /\ [m EXCEPT !.deal = x].at = m.at
    BY <1>1
<1>5. QED
    BY <1>2, <1>3, <1>4

\* A handler that replaces the record of one mutation leaves the others alone.
LEMMA OneMoveWritten ==
    ASSUME BoardShape, NEW m \in Moves, NEW c, IsMove(c), moves' = [moves EXCEPT ![m] = c]
    PROVE  /\ moves' = [n \in Moves |-> moves'[n]]
           /\ \A n \in Moves : IsMove(moves'[n])
           /\ moves'[m] = c
<1>1. /\ moves = [n \in Moves |-> moves[n]]
      /\ \A n \in Moves : IsMove(moves[n])
    BY DEF BoardShape
<1> HIDE DEF IsMove
<1>2. /\ moves' = [n \in Moves |-> moves'[n]]
      /\ moves'[m] = c
      /\ \A n \in Moves : n # m => moves'[n] = moves[n]
    BY ONLY moves' = [moves EXCEPT ![m] = c], <1>1, m \in Moves
<1>3. QED
    BY <1>1, <1>2

\* Steps that leave rows, lists and marks alone and end no mutation: the list
\* query's failures and refetches, navigation, drags, the card's menu.
LEMMA RestKeeps ==
    ASSUME BoardInv, UNCHANGED <<rows, list, outdated>>,
           Quiet' => Quiet,
           moves' = [n \in Moves |-> moves'[n]], \A n \in Moves : IsMove(moves'[n]),
           view' \in Views \cup {"away"}, latest' \in Moves \cup {"none"},
           fetching' \in {NotFetching, ListAsked} \/ UNCHANGED <<fetching, view>>
    PROVE  BoardInv'
<1>1. BoardShape'
    BY DEF BoardInv, BoardShape
<1>2. ASSUME Quiet' PROVE UnmarkedListsAreTheServers'
  <2>1. UnmarkedListsAreTheServers
      BY <1>2 DEF BoardInv
  <2>2. QED
      BY <2>1, SameRows DEF UnmarkedListsAreTheServers
<1>3. ASSUME Quiet' PROVE AnswerIsTheServers'
  <2>1. AnswerIsTheServers
      BY <1>3 DEF BoardInv
  <2>2. CASE fetching' \in {NotFetching, ListAsked}
      BY <2>2 DEF AnswerIsTheServers, NotFetching, ListAsked
  <2>3. CASE UNCHANGED <<fetching, view>>
    <3>1. ASSUME fetching.at = "answered" PROVE view \in Views
        BY <3>1 DEF BoardInv, BoardShape, NotFetching, ListAsked
    <3>2. QED
        BY <2>1, <2>3, <3>1, SameRows DEF AnswerIsTheServers
  <2>4. QED
      BY <2>2, <2>3
<1>4. QED
    BY <1>1, <1>2, <1>3 DEF BoardInv

\* While a mutation is under way, or after a failed archive, nothing is claimed
\* of the lists.
LEMMA NotQuietKeeps ==
    ASSUME BoardShape', NEW m \in Moves, moves'[m].at \notin {"idle", "over"}
    PROVE  BoardInv'
BY DEF BoardInv, Quiet

\* The list query.
LEMMA ListSteps ==
    ASSUME BoardInv,
           ServeList \/ ListArrives \/ ListFails \/ RefetchList
    PROVE  BoardInv'
<1>1. CASE ServeList
  <2>1. /\ UNCHANGED <<rows, list, outdated, view, latest, moves>>
        /\ fetching' = [at |-> "answered", data |-> Listed(view)] /\ view \in Views
      BY <1>1 DEF ServeList, boardScreen, BoardInv, BoardShape
  <2>2. fetching'.at = "answered" /\ fetching'.data = Listed(view) /\ view # "away"
      BY <1>1, <2>1 DEF ServeList
  <2>3. BoardShape'
      BY <2>1, <2>2 DEF BoardInv, BoardShape
  <2>4. Listed(view)' = Listed(view)
    <3>1. Listed(view') = Listed(view)
        BY <2>1
    <3>2. QED
        BY <2>1, SameRows
  <2>5. Quiet' => UnmarkedListsAreTheServers'
      BY <2>1, SameRows DEF BoardInv, Quiet, UnmarkedListsAreTheServers
  <2>6. AnswerIsTheServers'
      BY <2>2, <2>4 DEF AnswerIsTheServers
  <2>7. QED
      BY <2>3, <2>5, <2>6 DEF BoardInv
<1>2. CASE ListArrives
  <2>1. /\ UNCHANGED <<rows, view, latest, moves>>
        /\ list' = [list EXCEPT ![view] = fetching.data]
        /\ outdated' = [outdated EXCEPT ![view] = FALSE]
        /\ fetching' = NotFetching
        /\ fetching.at = "answered"
      BY <1>2 DEF ListArrives, boardScreen
  <2>2. view \in Views
      BY <2>1 DEF BoardInv, BoardShape, NotFetching, ListAsked
  <2>3. BoardShape'
      BY <2>1, <2>2 DEF BoardInv, BoardShape
  <2>4. ASSUME Quiet' PROVE UnmarkedListsAreTheServers'
    <3>1. UnmarkedListsAreTheServers /\ fetching.data = Listed(view)
        BY <2>1, <2>4 DEF BoardInv, Quiet, AnswerIsTheServers
    <3>2. ASSUME NEW v \in Views
          PROVE  /\ v = view => list'[v] = fetching.data
                 /\ v # view => list'[v] = list[v] /\ outdated'[v] = outdated[v]
        BY <2>1, <2>2 DEF BoardInv, BoardShape
    <3>3. QED
        BY <3>1, <3>2, <2>1, SameRows DEF UnmarkedListsAreTheServers
  <2>5. AnswerIsTheServers'
      BY <2>1 DEF AnswerIsTheServers, NotFetching
  <2>6. QED
      BY <2>3, <2>4, <2>5 DEF BoardInv
<1>3. CASE ListFails \/ RefetchList
  <2>1. /\ UNCHANGED <<rows, list, outdated, view, latest, moves>>
        /\ fetching' \in {NotFetching, ListAsked}
      BY <1>3 DEF ListFails, RefetchList, boardScreen
  <2>2. QED
      BY <2>1, RestKeeps DEF BoardInv, BoardShape, Quiet
<1>4. QED
    BY <1>1, <1>2, <1>3

\* Another view or page: the hook's key follows the filters, the request is
\* given up or asked anew.
LEMMA ViewChanges ==
    ASSUME BoardInv, NEW v \in Views \cup {"away"}, selectBoardView(v)
    PROVE  BoardInv'
<1>1. /\ UNCHANGED <<rows, list, outdated, latest>> \/ UNCHANGED <<rows, list, outdated, moves>>
      /\ UNCHANGED <<rows, list, outdated>>
      /\ view' = v /\ fetching' \in {NotFetching, ListAsked}
      /\ latest' \in {latest, "none"}
    BY DEF selectBoardView
<1>2. CASE UNCHANGED moves
    BY <1>1, <1>2, RestKeeps DEF BoardInv, BoardShape, Quiet
<1>3. CASE latest # "none" /\ moves' = [moves EXCEPT ![latest].key = v]
  <2>1. latest \in Moves /\ IsMove(moves[latest])
      BY <1>3 DEF BoardInv, BoardShape
  <2>2. PICK c : c = [moves[latest] EXCEPT !.key = v]
      OBVIOUS
  <2>3. IsMove(c) /\ c.at = moves[latest].at
      BY <2>1, <2>2, WrittenMove
  <2>4. moves' = [moves EXCEPT ![latest] = c]
      BY <1>3, <2>2
  <2>5. /\ moves' = [n \in Moves |-> moves'[n]]
        /\ \A n \in Moves : IsMove(moves'[n])
        /\ moves'[latest] = c
      BY <2>1, <2>3, <2>4, OneMoveWritten DEF BoardInv
  <2>6. \A n \in Moves : n # latest => moves'[n] = moves[n]
      BY <2>1, <2>4 DEF BoardInv, BoardShape
  <2>7. Quiet' => Quiet
      BY <2>3, <2>5, <2>6 DEF Quiet
  <2>8. view' \in Views \cup {"away"} /\ latest' \in Moves \cup {"none"}
      BY <1>1, <2>1
  <2>9. QED
      BY <1>1, <2>5, <2>7, <2>8, RestKeeps
<1>4. QED
    BY <1>2, <1>3 DEF selectBoardView

\* Picking a card up, putting it back, and its menu.
LEMMA PointerKeeps ==
    ASSUME BoardInv,
           \/ \E d \in Deals : dragStart(d) \/ openActions(d)
           \/ dragCancel \/ closeOverlay
           \/ UNCHANGED boardVars
    PROVE  BoardInv'
<1>1. UNCHANGED <<rows, list, outdated, fetching, view, latest, moves>>
    BY DEF dragStart, openActions, dragCancel, closeOverlay, cache, boardVars
<1>2. QED
    BY <1>1, RestKeeps DEF BoardInv, BoardShape, Quiet

\* The endpoints' steps, a lost request, a submitted archive, a failed one:
\* afterwards the mutation is under way or has failed.
LEMMA UnderWay ==
    ASSUME BoardInv, NEW m \in Moves, NEW c, IsMove(c), c.at \notin {"idle", "over"},
           moves' = [moves EXCEPT ![m] = c],
           UNCHANGED <<list, outdated, fetching, view, latest>>
    PROVE  BoardInv'
<1>1. BoardShape
    BY DEF BoardInv
<1>2. /\ moves' = [n \in Moves |-> moves'[n]]
      /\ \A n \in Moves : IsMove(moves'[n])
      /\ moves'[m] = c
    BY <1>1, OneMoveWritten
<1>3. BoardShape'
    BY <1>1, <1>2 DEF BoardShape
<1>4. QED
    BY <1>2, <1>3, NotQuietKeeps

\* The phase of a mutation is written.
LEMMA MovedOn ==
    ASSUME NEW m, IsMove(m), NEW x, NEW c, c = [m EXCEPT !.at = x]
    PROVE  IsMove(c) /\ c.at = x
<1>1. IsMove([m EXCEPT !.at = x]) /\ [m EXCEPT !.at = x].at = x
    BY ONLY IsMove(m), WrittenMove
<1>2. QED
    BY ONLY <1>1, c = [m EXCEPT !.at = x]

\* What the endpoints do, or a request that is lost or refused, leaves the
\* board as it was: the mutation is under way or has failed.
LEMMA ServerKeeps ==
    ASSUME BoardInv, NEW m \in Moves,
           \/ DealMoveAPIView(m) \/ move_deal(m) \/ MoveLost(m)
           \/ toggleArchive(m) \/ DealArchiveAPIView(m) \/ ArchiveFails(m)
    PROVE  BoardInv'
<1>1. UNCHANGED <<list, outdated, fetching, view, latest>>
    BY DEF DealMoveAPIView, move_deal, MoveLost, toggleArchive, DealArchiveAPIView,
           ArchiveFails, cache, boardScreen
<1>2. IsMove(moves[m])
    BY DEF BoardInv, BoardShape
<1>3. PICK gone, moved, read, sent :
        /\ gone = [moves[m] EXCEPT !.at = "refused"]
        /\ moved = [moves[m] EXCEPT !.at = "moved"]
        /\ read = [moves[m] EXCEPT !.at = "read", !.copy = rows[moves[m].deal]]
        /\ sent = [moves[m] EXCEPT !.at = "sent", !.kind = "archive", !.deal = overlay.deal]
    OBVIOUS
<1>4. /\ IsMove(gone) /\ gone.at = "refused"
      /\ IsMove(moved) /\ moved.at = "moved"
  <2>1. IsMove(gone) /\ gone.at = "refused"
      BY ONLY <1>2, <1>3, MovedOn
  <2>2. IsMove(moved) /\ moved.at = "moved"
      BY ONLY <1>2, <1>3, MovedOn
  <2>3. QED
      BY <2>1, <2>2
<1>5. IsMove(read) /\ read.at = "read"
  <2>1. PICK r : r = [moves[m] EXCEPT !.at = "read"]
      OBVIOUS
  <2>2. IsMove(r) /\ r.at = "read"
      BY ONLY <1>2, <2>1, MovedOn
  <2>3. read = [r EXCEPT !.copy = rows[moves[m].deal]]
      BY <1>3, <2>1
  <2>4. QED
      BY ONLY <2>2, <2>3, WrittenMove
<1>6. IsMove(sent) /\ sent.at = "sent"
  <2>1. PICK r : r = [moves[m] EXCEPT !.at = "sent"]
      OBVIOUS
  <2>2. IsMove(r) /\ r.at = "sent"
      BY ONLY <1>2, <2>1, MovedOn
  <2>3. PICK s : s = [r EXCEPT !.kind = "archive"]
      OBVIOUS
  <2>4. IsMove(s) /\ s.at = r.at
      BY ONLY <2>2, <2>3, WrittenMove
  <2>5. PICK x : x = overlay.deal
      OBVIOUS
  <2>6. sent = [s EXCEPT !.deal = x]
      BY <1>3, <2>1, <2>3, <2>5
  <2>7. IsMove([s EXCEPT !.deal = x]) /\ [s EXCEPT !.deal = x].at = s.at
      BY ONLY <2>4, WrittenMove
  <2>8. QED
      BY ONLY <2>2, <2>4, <2>6, <2>7
<1>7. PICK failed : failed = [NoMove EXCEPT !.at = "failed"]
    OBVIOUS
<1>8. IsMove(failed) /\ failed.at = "failed"
  <2>1. IsMove(NoMove)
      BY DEF NoMove, IsMove
  <2>2. QED
      BY ONLY <1>7, <2>1, MovedOn
<1>9. \E c \in {gone, moved, read, sent, failed} : moves' = [moves EXCEPT ![m] = c]
  <2>1. CASE DealMoveAPIView(m)
      BY <2>1, <1>3 DEF DealMoveAPIView
  <2>2. CASE move_deal(m) \/ MoveLost(m)
      BY <2>2, <1>3 DEF move_deal, MoveLost
  <2>3. CASE toggleArchive(m)
      BY <2>3, <1>3 DEF toggleArchive
  <2>4. CASE DealArchiveAPIView(m)
      BY <2>4, <1>3 DEF DealArchiveAPIView
  <2>5. CASE ArchiveFails(m)
      BY <2>5, <1>7 DEF ArchiveFails
  <2>6. QED
      BY <2>1, <2>2, <2>3, <2>4, <2>5
<1>10. PICK c \in {gone, moved, read, sent, failed} : moves' = [moves EXCEPT ![m] = c]
    BY <1>9
<1>11. IsMove(c) /\ c.at \notin {"idle", "over"}
    BY <1>4, <1>5, <1>6, <1>8
<1>12. QED
    BY <1>1, <1>10, <1>11, UnderWay

\* A card is put down: either the drawer for the reason opens, or the move is
\* sent and shown, which it says nothing about until it is over.
LEMMA DragEndKeeps ==
    ASSUME BoardInv, NEW m \in Moves, NEW s, NEW over, dragEnd(m, s, over)
    PROVE  BoardInv'
<1>1. CASE AsksForReason(dragged, s)
  <2>1. UNCHANGED <<rows, list, outdated, fetching, view, latest, moves>>
      BY <1>1 DEF dragEnd, cache
  <2>2. QED
      BY <2>1, RestKeeps DEF BoardInv, BoardShape, Quiet
<1>2. CASE ~AsksForReason(dragged, s)
  <2>1. PICK c, l :
          /\ c = [at |-> "sent", kind |-> "move", deal |-> dragged, stage |-> s,
                  position |-> Position(dragged, s, over), copy |-> NoRow,
                  previous |-> list[view], key |-> view]
          /\ l = Optimistic(list[view], dragged, s, Position(dragged, s, over))
      OBVIOUS
  <2>2. /\ moves' = [moves EXCEPT ![m] = c]
        /\ list' = [list EXCEPT ![view] = l]
        /\ outdated' = [outdated EXCEPT ![view] = FALSE]
        /\ fetching' = NotFetching /\ latest' = m /\ view' = view
      BY <1>2, <2>1 DEF dragEnd
  <2>3. IsMove(c) /\ c.at = "sent"
      BY <2>1 DEF IsMove
  <2>4. BoardShape
      BY DEF BoardInv
  <2>5. /\ moves' = [n \in Moves |-> moves'[n]]
        /\ \A n \in Moves : IsMove(moves'[n])
        /\ moves'[m] = c
      BY <2>2, <2>3, <2>4, OneMoveWritten
  <2>6. /\ list' = [v \in Views |-> list'[v]]
        /\ outdated' \in [Views -> BOOLEAN]
      BY <2>2, <2>4 DEF BoardShape
  <2>7. BoardShape'
      BY <2>2, <2>4, <2>5, <2>6 DEF BoardShape
  <2>8. QED
      BY <2>3, <2>5, <2>7, NotQuietKeeps
<1>3. QED
    BY <1>1, <1>2

\* The end of a mutation: onSettled and onSuccess mark every list and the one
\* on screen is asked for anew.
LEMMA EndKeeps ==
    ASSUME BoardInv, NEW m \in Moves,
           MoveFails(m) \/ MoveSucceeds(m) \/ Archived(m)
    PROVE  BoardInv'
<1>1. BoardShape
    BY DEF BoardInv
<1>2. PICK c : c = [NoMove EXCEPT !.at = "over"]
    OBVIOUS
<1>3. IsMove(c)
  <2>1. IsMove(NoMove)
      BY DEF NoMove, IsMove
  <2>2. QED
      BY <1>2, <2>1, WrittenMove
<1>4. /\ moves' = [moves EXCEPT ![m] = c]
      /\ latest' \in {latest, "none"}
      /\ view' = view
      /\ fetching' \in {NotFetching, ListAsked}
    BY <1>2 DEF MoveFails, MoveSucceeds, Archived, MoveOver, Invalidated
<1>5. /\ moves' = [n \in Moves |-> moves'[n]]
      /\ \A n \in Moves : IsMove(moves'[n])
    BY <1>1, <1>3, <1>4, OneMoveWritten
<1>6. /\ list' = [v \in Views |-> list'[v]]
      /\ outdated' \in [Views -> BOOLEAN]
      /\ \A v \in Views : list'[v] # NoList => outdated'[v]
  <2>1. CASE MoveFails(m)
    <3>1. /\ list' = [list EXCEPT ![moves[m].key] = moves[m].previous]
          /\ outdated' = [v \in Views |-> list[v] # NoList \/ v = moves[m].key]
        BY <2>1 DEF MoveFails
    <3>2. \A v \in Views : v # moves[m].key => list'[v] = list[v]
        BY <1>1, <3>1 DEF BoardShape
    <3>3. list' = [v \in Views |-> list'[v]]
        BY <1>1, <3>1 DEF BoardShape
    <3>4. QED
        BY <3>1, <3>2, <3>3
  <2>2. CASE MoveSucceeds(m) \/ Archived(m)
    <3>1. list' = list /\ outdated' = [v \in Views |-> list[v] # NoList]
        BY <2>2 DEF MoveSucceeds, Archived, Invalidated
    <3>2. QED
        BY <1>1, <3>1 DEF BoardShape
  <2>3. QED
      BY <2>1, <2>2
<1>7. BoardShape'
    BY <1>1, <1>4, <1>5, <1>6 DEF BoardShape
<1>8. UnmarkedListsAreTheServers' /\ AnswerIsTheServers'
    BY <1>4, <1>6
    DEF UnmarkedListsAreTheServers, AnswerIsTheServers, NotFetching, ListAsked
<1>9. QED
    BY <1>7, <1>8 DEF BoardInv

\* The first lists, before any answer.
LEMMA InitBoard == BoardInit => BoardInv
<1> SUFFICES ASSUME BoardInit PROVE BoardInv
    OBVIOUS
<1>1. IsMove(NoMove)
    BY DEF NoMove, IsMove
<1>2. BoardShape
    BY <1>1, DealAssumption DEF BoardInit, BoardShape
<1>3. UnmarkedListsAreTheServers /\ AnswerIsTheServers
    BY DEF BoardInit, UnmarkedListsAreTheServers, AnswerIsTheServers, ListAsked
<1>4. QED
    BY <1>2, <1>3 DEF BoardInv

\* Every step keeps the invariant.
LEMMA StepBoard == BoardInv /\ [BoardNext]_boardVars => BoardInv'
<1> SUFFICES ASSUME BoardInv, [BoardNext]_boardVars PROVE BoardInv'
    OBVIOUS
<1>1. CASE ServeList \/ ListArrives \/ ListFails \/ RefetchList
    BY <1>1, ListSteps
<1>2. CASE \E v \in Views \cup {"away"} : selectBoardView(v)
    BY <1>2, ViewChanges
<1>3. CASE \/ \E d \in Deals : dragStart(d) \/ openActions(d)
           \/ dragCancel \/ closeOverlay
           \/ UNCHANGED boardVars
    BY <1>3, PointerKeeps
<1>4. CASE \E m \in Moves :
             \/ \E s \in Stages, over \in Deals \cup {0} : dragEnd(m, s, over)
             \/ DealMoveAPIView(m) \/ move_deal(m) \/ MoveLost(m) \/ MoveFails(m)
             \/ MoveSucceeds(m) \/ toggleArchive(m) \/ DealArchiveAPIView(m)
             \/ Archived(m) \/ ArchiveFails(m)
    BY <1>4, DragEndKeeps, ServerKeeps, EndKeeps
<1>5. QED
    BY <1>1, <1>2, <1>3, <1>4 DEF BoardNext

\* The inductive invariant of the board.
THEOREM BoardInvariance == BoardSpec => []BoardInv
BY InitBoard, StepBoard, PTL DEF BoardSpec

\* invalidateDeals, cancelQueries and the rollback of onError: what the board
\* keeps unmarked once it is quiet is what the server would send.
THEOREM QuietBoardIsTheServers == BoardSpec => []QuietListsAreTheServers
<1>1. BoardInv => QuietListsAreTheServers
    BY DEF BoardInv, Quiet, UnmarkedListsAreTheServers, QuietListsAreTheServers
<1>2. QED
    BY <1>1, BoardInvariance, PTL

-----------------------------------------------------------------------------
(***************************************************************************)
(* What the lists hold.  The lemmas say of each operator on lists what its *)
(* value is made of; SubSeq and \o are given by their elements.            *)
(***************************************************************************)
Card == [deal : Deals \cup {0}, stage : Stages, order : Nat]

\* sort_order, then the place: an order of any places of rows or of a list.
LEMMA OrderOfIsAnOrder ==
    ASSUME NEW r, NEW S \in SUBSET Int, \A x \in S : r[x].order \in Int
    PROVE  /\ IsOrder(S, OrderOf(r, S))
           /\ \A x, y \in S : <<x, y>> \in OrderOf(r, S) <=> Before(r, x, y)
<1>1. \A x, y \in S : <<x, y>> \in OrderOf(r, S) <=> Before(r, x, y)
    BY DEF OrderOf
<1>2. PICK R : R = OrderOf(r, S)
    OBVIOUS
<1>3. PICK o : o = [x \in S |-> r[x].order]
    OBVIOUS
<1>4. \A x \in S : o[x] = r[x].order
    BY <1>3
<1>5. \A x \in S : o[x] \in Int /\ x \in Int
    BY <1>4
<1>6. \A x, y \in S : <<x, y>> \in R <=> (o[x] < o[y] \/ (o[x] = o[y] /\ x < y))
  <2> SUFFICES ASSUME NEW x \in S, NEW y \in S
               PROVE  <<x, y>> \in R <=> (o[x] < o[y] \/ (o[x] = o[y] /\ x < y))
      OBVIOUS
  <2>1. o[x] = r[x].order /\ o[y] = r[y].order
      BY <1>4
  <2>2. <<x, y>> \in R <=> Before(r, x, y)
      BY <1>1, <1>2
  <2>3. Before(r, x, y) <=> (o[x] < o[y] \/ (o[x] = o[y] /\ x < y))
      BY ONLY <2>1 DEF Before
  <2>4. QED
      BY ONLY <2>2, <2>3
<1>7. \A x \in S : <<x, x>> \notin R
    BY ONLY <1>5, <1>6
<1>8. \A x, y, z \in S : <<x, y>> \in R /\ <<y, z>> \in R => <<x, z>> \in R
  <2> SUFFICES ASSUME NEW x \in S, NEW y \in S, NEW z \in S, <<x, y>> \in R, <<y, z>> \in R
               PROVE  <<x, z>> \in R
      OBVIOUS
  <2>1. /\ o[x] < o[y] \/ (o[x] = o[y] /\ x < y)
        /\ o[y] < o[z] \/ (o[y] = o[z] /\ y < z)
      BY <1>6
  <2>2. /\ x \in Int /\ y \in Int /\ z \in Int
        /\ o[x] \in Int /\ o[y] \in Int /\ o[z] \in Int
      BY <1>5
  <2>3. o[x] < o[z] \/ (o[x] = o[z] /\ x < z)
      BY ONLY <2>1, <2>2
  <2>4. QED
      BY <1>6, <2>3
<1>9. \A x, y \in S : x # y => <<x, y>> \in R \/ <<y, x>> \in R
    BY ONLY <1>5, <1>6
<1>10. QED
    BY <1>1, <1>2, <1>7, <1>8, <1>9 DEF IsOrder

\* The places of a lane's cards.
PlacesIn(l, s) == {i \in DOMAIN l : l[i].stage = s}

\* The cards of a lane.
LEMMA LaneOfTheList ==
    ASSUME NEW l \in Lists, NEW s
    PROVE  LET lane == PlacesIn(l, s)
               q == laneDeals(l, s)
           IN  /\ IsFiniteSet(lane) /\ IsOrder(lane, OrderOf(l, lane))
               /\ q \in Lists /\ Len(q) = Cardinality(lane) /\ Cardinality(lane) \in Nat
               /\ \A i \in DOMAIN q : q[i].stage = s
<1> DEFINE lane == {i \in DOMAIN l : l[i].stage = s}
           q == laneDeals(l, s)
<1>1. l \in Seq(Card)
    BY DEF Lists, Card
<1>2. \A i \in DOMAIN l : l[i] \in Card /\ l[i].order \in Int /\ i \in Int
  <2>1. \A i \in DOMAIN l : l[i] \in Card /\ i \in Int
      BY ONLY <1>1
  <2>2. QED
      BY ONLY <2>1 DEF Card
<1>3. lane \in SUBSET DOMAIN l /\ lane \in SUBSET Int
      /\ \A i \in lane : l[i].order \in Int /\ l[i].stage = s
    BY <1>2
<1>4. q = Picked(l, lane, OrderOf(l, lane))
    BY DEF laneDeals
<1> HIDE DEF lane, q
<1>5. IsOrder(lane, OrderOf(l, lane))
    BY <1>3, OrderOfIsAnOrder
<1>6. PICK R : R = OrderOf(l, lane)
    OBVIOUS
<1>7. q = Picked(l, lane, R) /\ IsOrder(lane, R)
    BY <1>4, <1>5, <1>6
<1>8. /\ IsFiniteSet(lane) /\ q \in Seq(Card) /\ Len(q) = Cardinality(lane)
      /\ Cardinality(lane) \in Nat /\ DOMAIN q = 1..Cardinality(lane)
      /\ \A i \in 1..Cardinality(lane) : \E p \in lane : q[i] = l[p]
    BY ONLY <1>1, <1>3, <1>7, PickedOfTheList
<1>9. \A i \in DOMAIN q : q[i].stage = s
    BY <1>3, <1>8
<1>10. QED
    BY <1>5, <1>8, <1>9 DEF lane, q, PlacesIn, Lists, Card

\* The cards of the other deals, in the order of the list.
LEMMA WithoutADeal ==
    ASSUME NEW l \in Lists, NEW d
    PROVE  LET k == Cardinality(OthersIn(l, d))
               places == Arranged(OthersIn(l, d), Ascending(OthersIn(l, d)))
               o == Without(l, d)
           IN  /\ k \in Nat /\ k <= Len(l) /\ IsFiniteSet(OthersIn(l, d))
               /\ o \in Lists /\ Len(o) = k /\ DOMAIN o = 1..k
               /\ places \in [1..k -> OthersIn(l, d)]
               /\ \A i \in 1..k : o[i] = l[places[i]] /\ o[i].deal # d
               /\ \A i, j \in 1..k : i < j => places[i] < places[j]
               /\ \A p \in OthersIn(l, d) : \E i \in 1..k : places[i] = p
<1>1. l \in Seq(Card) /\ DOMAIN l \in SUBSET Int
    BY DEF Lists, Card
<1>2. PICK O : O = OthersIn(l, d)
    OBVIOUS
<1>3. O \in SUBSET DOMAIN l /\ O \in SUBSET Int /\ \A i \in O : l[i].deal # d
    BY <1>1, <1>2 DEF OthersIn
<1>4. PICK R : R = Ascending(O)
    OBVIOUS
<1>5. IsOrder(O, R)
    BY <1>3, <1>4, AscendingIsAnOrder
<1>6. PICK o : o = Picked(l, O, R)
    OBVIOUS
<1>7. /\ IsFiniteSet(O) /\ Cardinality(O) \in Nat /\ Cardinality(O) <= Len(l)
      /\ o \in Seq(Card) /\ Len(o) = Cardinality(O) /\ DOMAIN o = 1..Cardinality(O)
    BY ONLY <1>1, <1>3, <1>5, <1>6, PickedOfTheList
<1> DEFINE k == Cardinality(O)
           places == Arranged(O, R)
<1>8. /\ DOMAIN places = 1..k /\ places \in [1..k -> O]
      /\ \A x \in O : \E i \in 1..k : places[i] = x
      /\ \A i, j \in 1..k : <<places[i], places[j]>> \in R <=> i < j
    BY <1>5, <1>7, ArrangedInOrder
<1>9. \A i \in 1..k : o[i] = l[places[i]]
    BY <1>6, <1>8 DEF Picked
<1> HIDE DEF k, places
<1>10. \A i, j \in 1..k : i < j => places[i] < places[j]
    BY <1>4, <1>8 DEF Ascending
<1>11. o = Without(l, d)
    BY <1>2, <1>4, <1>6 DEF Without
<1>12. \A i \in 1..k : o[i].deal # d
    BY <1>3, <1>8, <1>9
<1>13. QED
    BY <1>2, <1>4, <1>7, <1>8, <1>9, <1>10, <1>11, <1>12 DEF k, places, Lists, Card

\* A card put in: InsertedAt by its elements.
LEMMA InsertedByElements ==
    ASSUME NEW V, NEW q \in Seq(V), NEW i \in 0..Len(q), NEW x \in V
    PROVE  LET t == InsertedAt(q, i, x)
           IN  /\ t \in Seq(V) /\ Len(t) = Len(q) + 1 /\ DOMAIN t = 1..(Len(q) + 1)
               /\ \A j \in 1..i : t[j] = q[j]
               /\ t[i + 1] = x
               /\ \A j \in (i + 2)..(Len(q) + 1) : t[j] = q[j - 1]
<1> DEFINE a == SubSeq(q, 1, i)
           b == SubSeq(q, i + 1, Len(q))
           t == InsertedAt(q, i, x)
<1>1. Len(q) \in Nat /\ i \in Nat /\ i <= Len(q)
    OBVIOUS
<1>2. /\ a \in Seq(V) /\ Len(a) = i /\ \A j \in 1..i : a[j] = q[j]
    BY <1>1
<1>3. /\ b \in Seq(V) /\ Len(b) = Len(q) - i /\ \A j \in 1..(Len(q) - i) : b[j] = q[j + i]
    BY <1>1
<1>4. t = a \o <<x>> \o b
    BY DEF InsertedAt
<1> HIDE DEF a, b, t
<1>5. PICK c : c = a \o <<x>>
    OBVIOUS
<1>6. /\ c \in Seq(V) /\ Len(c) = i + 1 /\ c[i + 1] = x /\ \A j \in 1..i : c[j] = a[j]
    BY <1>1, <1>2, <1>5
<1>7. t = c \o b
    BY <1>4, <1>5
<1>8. t \in Seq(V) /\ Len(t) = Len(q) + 1
    BY <1>1, <1>3, <1>6, <1>7
<1>9. \A j \in 1..(i + 1) : t[j] = c[j]
    BY <1>1, <1>3, <1>6, <1>7
<1>10. \A j \in (i + 2)..(Len(q) + 1) : t[j] = b[j - (i + 1)]
    BY <1>1, <1>3, <1>6, <1>7
<1>11. \A j \in (i + 2)..(Len(q) + 1) : t[j] = q[j - 1]
    BY <1>1, <1>3, <1>10
<1>12. t[i + 1] = x /\ \A j \in 1..i : t[j] = q[j]
    BY <1>1, <1>2, <1>6, <1>9
<1>13. DOMAIN t = 1..(Len(q) + 1)
    BY <1>8
<1>14. QED
    BY <1>8, <1>11, <1>12, <1>13 DEF t

\* The first and the last of a deal's cards.
LEMMA FirstAndLast ==
    ASSUME NEW l \in Lists, NEW d \in On(l)
    PROVE  /\ FirstOf(l, d) \in DOMAIN l /\ l[FirstOf(l, d)].deal = d
           /\ LastOf(l, d) \in DOMAIN l /\ l[LastOf(l, d)].deal = d
           /\ \A i \in DOMAIN l : l[i].deal = d => i <= LastOf(l, d)
<1> DEFINE S == {i \in DOMAIN l : l[i].deal = d}
<1>1. Len(l) \in Nat /\ DOMAIN l = 1..Len(l)
    BY DEF Lists
<1>2. S \in SUBSET Int /\ S # {} /\ S \subseteq 1..Len(l)
    BY <1>1 DEF On
<1>3. IsFiniteSet(S)
  <2>1. IsFiniteSet(1..Len(l))
    <3>1. Len(l) \in Int /\ 1 \in Int
        BY <1>1
    <3>2. QED
        BY ONLY <3>1, FS_Interval
  <2>2. QED
      BY <1>2, <2>1, FS_Subset
<1>4. FirstOf(l, d) = CHOOSE x \in S : \A y \in S : x <= y
    BY DEF FirstOf, Min
<1>5. LastOf(l, d) = CHOOSE x \in S : \A y \in S : x >= y
    BY DEF LastOf, Max
<1>6. \A i \in S : i \in DOMAIN l /\ l[i].deal = d
    OBVIOUS
<1>7. \A i \in DOMAIN l : l[i].deal = d => i \in S
    OBVIOUS
<1> HIDE DEF S
<1>8. /\ \E x \in S : \A y \in S : x <= y
      /\ \E x \in S : \A y \in S : y <= x
    BY <1>2, <1>3, Extremes
<1>9. \E x \in S : \A y \in S : x >= y
    BY <1>2, <1>8
<1>10. FirstOf(l, d) \in S
    BY <1>4, <1>8
<1>11. LastOf(l, d) \in S /\ \A y \in S : LastOf(l, d) >= y
    BY <1>5, <1>9
<1>12. \A y \in S : y <= LastOf(l, d)
    BY <1>2, <1>11
<1>13. QED
    BY <1>6, <1>7, <1>10, <1>11, <1>12

\* The lane as the page shows it after a drop, before and after it is numbered.
Destination(l, d, s, position) ==
    LET lane == laneDeals(Without(l, d), s)
    IN  InsertedAt(lane, Least(position, Len(lane)), [l[FirstOf(l, d)] EXCEPT !.stage = s])
Numbered(t) == [i \in DOMAIN t |-> [t[i] EXCEPT !.order = LastOf(t, t[i].deal) - 1]]

\* The card that is moved.
LEMMA MovingCard ==
    ASSUME NEW l \in Lists, NEW d \in On(l), NEW s \in Stages
    PROVE  LET c == [l[FirstOf(l, d)] EXCEPT !.stage = s]
           IN  c \in Card /\ c.deal = d /\ c.stage = s
<1>1. PICK a : a = l[FirstOf(l, d)]
    OBVIOUS
<1>2. a \in Card /\ a.deal = d
  <2>1. FirstOf(l, d) \in DOMAIN l /\ l[FirstOf(l, d)].deal = d
      BY FirstAndLast
  <2>2. l \in Seq(Card)
      BY DEF Lists, Card
  <2>3. QED
      BY ONLY <1>1, <2>1, <2>2
<1>3. PICK c : c = [a EXCEPT !.stage = s]
    OBVIOUS
<1>4. c = [deal |-> d, stage |-> s, order |-> a.order]
    BY <1>2, <1>3 DEF Card
<1>5. d \in Deals \cup {0} /\ a.order \in Nat
    BY <1>2 DEF Card
<1>6. c \in Card /\ c.deal = d /\ c.stage = s
    BY <1>4, <1>5 DEF Card
<1>7. QED
    BY <1>1, <1>3, <1>6

\* Numbering writes the order of each card and nothing else.
LEMMA NumberedCards ==
    ASSUME NEW t \in Lists
    PROVE  /\ Numbered(t) \in Lists /\ Len(Numbered(t)) = Len(t)
           /\ \A i \in DOMAIN t : /\ Numbered(t)[i].deal = t[i].deal
                                  /\ Numbered(t)[i].stage = t[i].stage
                                  /\ Numbered(t)[i].order = LastOf(t, t[i].deal) - 1
<1>0. t \in Seq(Card) /\ Len(t) \in Nat /\ DOMAIN t = 1..Len(t)
    BY DEF Lists, Card
<1>1. ASSUME NEW i \in DOMAIN t
      PROVE  /\ Numbered(t)[i] = [deal |-> t[i].deal, stage |-> t[i].stage,
                                  order |-> LastOf(t, t[i].deal) - 1]
             /\ Numbered(t)[i] \in Card
  <2>1. PICK a, n : a = t[i] /\ n = LastOf(t, t[i].deal) - 1
      OBVIOUS
  <2>2. a \in Card
      BY <1>0, <2>1
  <2>3. n \in Nat
    <3>1. t[i].deal \in On(t)
        BY DEF On
    <3>2. LastOf(t, t[i].deal) \in 1..Len(t)
        BY <1>0, <3>1, FirstAndLast
    <3>3. QED
        BY <1>0, <2>1, <3>2
  <2>4. PICK c : c = [a EXCEPT !.order = n]
      OBVIOUS
  <2>5. c = [deal |-> a.deal, stage |-> a.stage, order |-> n]
      BY <2>2, <2>4 DEF Card
  <2>6. c \in Card
      BY <2>2, <2>3, <2>5 DEF Card
  <2>7. Numbered(t)[i] = c
      BY <2>1, <2>4 DEF Numbered
  <2>8. QED
      BY <2>1, <2>5, <2>6, <2>7
<1>2. PICK u : u = Numbered(t)
    OBVIOUS
<1>3. u = [i \in DOMAIN t |-> u[i]]
    BY <1>2 DEF Numbered
<1>4. \A i \in DOMAIN t : u[i] \in Card
    BY <1>1, <1>2
<1>5. u \in Seq(Card) /\ Len(u) = Len(t)
    BY ONLY <1>0, <1>3, <1>4
<1>6. QED
  <2>1. Lists = Seq(Card)
      BY DEF Lists, Card
  <2>2. u \in Lists
      BY ONLY <1>5, <2>1
  <2>3. \A i \in DOMAIN t : /\ u[i].deal = t[i].deal /\ u[i].stage = t[i].stage
                           /\ u[i].order = LastOf(t, t[i].deal) - 1
    <3> SUFFICES ASSUME NEW i \in DOMAIN t
                 PROVE  /\ u[i].deal = t[i].deal /\ u[i].stage = t[i].stage
                        /\ u[i].order = LastOf(t, t[i].deal) - 1
        OBVIOUS
    <3>1. u[i] = [deal |-> t[i].deal, stage |-> t[i].stage, order |-> LastOf(t, t[i].deal) - 1]
        BY <1>1, <1>2
    <3>2. QED
        BY ONLY <3>1
  <2>4. QED
      BY ONLY <1>2, <1>5, <2>2, <2>3

\* useMoveDeal's onMutate: the other cards, followed by the lane.
LEMMA OptimisticByParts ==
    ASSUME NEW l \in Lists, NEW d \in On(l), NEW s \in Stages, NEW position \in Nat
    PROVE  LET lane == laneDeals(Without(l, d), s)
               t == Destination(l, d, s, position)
           IN  /\ Least(position, Len(lane)) \in 0..Len(lane)
               /\ t \in Lists /\ Len(t) = Len(lane) + 1
               /\ \A i \in DOMAIN t : t[i].stage = s
               /\ Optimistic(l, d, s, position) = Without(l, d) \o Numbered(t)
               /\ Optimistic(l, d, s, position) \in Lists
<1>1. PICK others, lane, t, c, q :
          /\ others = Without(l, d) /\ lane = laneDeals(others, s)
          /\ c = [l[FirstOf(l, d)] EXCEPT !.stage = s]
          /\ q = Least(position, Len(lane)) /\ t = InsertedAt(lane, q, c)
    OBVIOUS
<1>2. others \in Lists
    BY <1>1, WithoutADeal
<1>3. lane \in Lists /\ lane \in Seq(Card) /\ \A i \in DOMAIN lane : lane[i].stage = s
  <2>1. lane \in Lists /\ \A i \in DOMAIN lane : lane[i].stage = s
      BY <1>1, <1>2, LaneOfTheList
  <2>2. QED
      BY <2>1 DEF Lists, Card
<1>4. c \in Card /\ c.stage = s
    BY <1>1, MovingCard
<1>5. q \in 0..Len(lane)
    BY <1>1, <1>3 DEF Least
<1>50. lane \in Seq(Card) /\ q \in 0..Len(lane) /\ c \in Card
    BY <1>3, <1>4, <1>5
<1>6. /\ t \in Seq(Card) /\ Len(t) = Len(lane) + 1 /\ DOMAIN t = 1..(Len(lane) + 1)
      /\ \A j \in 1..q : t[j] = lane[j]
      /\ t[q + 1] = c
      /\ \A j \in (q + 2)..(Len(lane) + 1) : t[j] = lane[j - 1]
  <2>1. t = InsertedAt(lane, q, c)
      BY <1>1
  <2>2. QED
    <3>1. /\ InsertedAt(lane, q, c) \in Seq(Card)
          /\ Len(InsertedAt(lane, q, c)) = Len(lane) + 1
        BY <1>50, InsertedByElements
    <3>2. DOMAIN InsertedAt(lane, q, c) = 1..(Len(lane) + 1)
        BY <1>50, InsertedByElements
    <3>3. \A j \in 1..q : InsertedAt(lane, q, c)[j] = lane[j]
        BY <1>50, InsertedByElements
    <3>4. InsertedAt(lane, q, c)[q + 1] = c
        BY <1>50, InsertedByElements
    <3>5. \A j \in (q + 2)..(Len(lane) + 1) : InsertedAt(lane, q, c)[j] = lane[j - 1]
        BY <1>50, InsertedByElements
    <3>6. QED
        BY ONLY <2>1, <3>1, <3>2, <3>3, <3>4, <3>5
<1>7. ASSUME NEW i \in DOMAIN t PROVE t[i].stage = s
  <2>1. Len(lane) \in Nat /\ DOMAIN lane = 1..Len(lane)
      BY <1>3
  <2>2. i \in 1..q \/ i = q + 1 \/ (i \in (q + 2)..(Len(lane) + 1) /\ i - 1 \in 1..Len(lane))
      BY <1>5, <1>6, <2>1
  <2>3. i \in 1..q => i \in 1..Len(lane)
      BY <1>5, <2>1
  <2>4. QED
      BY <1>3, <1>4, <1>6, <2>1, <2>2, <2>3
<1>8. t = Destination(l, d, s, position)
    BY <1>1 DEF Destination
<1>9. Optimistic(l, d, s, position) = others \o Numbered(t)
    BY <1>1 DEF Optimistic, Numbered
<1>10. t \in Lists /\ Numbered(t) \in Lists
    BY <1>6, NumberedCards DEF Lists, Card
<1>11. others \o Numbered(t) \in Lists
    BY <1>2, <1>10 DEF Lists
<1>12. QED
    BY <1>1, <1>5, <1>6, <1>7, <1>8, <1>9, <1>10, <1>11

\* Every value of the optimistic list, and of the place that is sent.
LEMMA DropTypes ==
    ASSUME NEW l \in Lists, NEW d, NEW s \in Stages, NEW position \in Nat
    PROVE  Optimistic(l, d, s, position) \in Lists
<1>1. CASE d \in On(l)
    BY <1>1, OptimisticByParts
<1>2. CASE d \notin On(l)
    BY <1>2 DEF Optimistic
<1>3. QED
    BY <1>1, <1>2

\* The place that is sent: a card's of the lane, or the lane's end.
LEMMA PositionType ==
    ASSUME list[view] \in Lists, NEW d, NEW s,
           NEW over, over # 0 => over \in On(laneDeals(list[view], s))
    PROVE  Position(d, s, over) \in Nat
<1>1. PICK lane : lane = laneDeals(list[view], s)
    OBVIOUS
<1>2. lane \in Lists /\ Len(lane) \in Nat /\ DOMAIN lane = 1..Len(lane)
  <2>1. PICK l \in Lists : l = list[view]
      OBVIOUS
  <2>2. lane = laneDeals(l, s)
      BY <1>1, <2>1
  <2>3. lane \in Lists
      BY <2>2, LaneOfTheList
  <2>4. QED
      BY <2>3 DEF Lists
<1>3. CASE over = 0
  <2>1. Cardinality(OthersIn(lane, d)) \in Nat
      BY <1>2, WithoutADeal
  <2>2. QED
      BY <1>1, <1>3, <2>1 DEF Position
<1>4. CASE over # 0
  <2>1. FirstOf(lane, over) \in 1..Len(lane)
      BY <1>1, <1>2, <1>4, FirstAndLast
  <2>2. Position(d, s, over) = FirstOf(lane, over) - 1
      BY <1>1, <1>4 DEF Position
  <2>3. QED
      BY <1>2, <2>1, <2>2
<1>5. QED
    BY <1>3, <1>4

\* What is put in where it was not is there once.
LEMMA InsertedOnce ==
    ASSUME NEW V, NEW q \in Seq(V), NEW i \in 0..Len(q), NEW x \in V,
           \A j \in DOMAIN q : q[j] # x,
           \A j, k \in DOMAIN q : q[j] = q[k] => j = k
    PROVE  LET t == InsertedAt(q, i, x)
           IN  /\ \A j, k \in DOMAIN t : t[j] = t[k] => j = k
               /\ Range(t) = Range(q) \cup {x}
<1> DEFINE t == InsertedAt(q, i, x)
<1>1. /\ DOMAIN t = 1..(Len(q) + 1) /\ DOMAIN q = 1..Len(q) /\ Len(q) \in Nat /\ i \in 0..Len(q)
      /\ \A j \in 1..i : t[j] = q[j]
      /\ t[i + 1] = x
      /\ \A j \in (i + 2)..(Len(q) + 1) : t[j] = q[j - 1]
  <2>1. q \in Seq(V) /\ i \in 0..Len(q) /\ x \in V
      OBVIOUS
  <2>2. DOMAIN t = 1..(Len(q) + 1)
      BY ONLY <2>1, InsertedByElements
  <2>3. t[i + 1] = x
      BY ONLY <2>1, InsertedByElements
  <2>4. \A j \in 1..i : t[j] = q[j]
      BY ONLY <2>1, InsertedByElements
  <2>5. \A j \in (i + 2)..(Len(q) + 1) : t[j] = q[j - 1]
      BY ONLY <2>1, InsertedByElements
  <2>6. DOMAIN q = 1..Len(q) /\ Len(q) \in Nat
      BY ONLY <2>1
  <2> HIDE DEF t
  <2>7. QED
      BY ONLY <2>1, <2>2, <2>3, <2>4, <2>5, <2>6
<1> HIDE DEF t
<1> DEFINE h(j) == IF j <= i THEN j ELSE j - 1
<1>2. ASSUME NEW j \in DOMAIN t, j # i + 1
      PROVE  h(j) \in DOMAIN q /\ t[j] = q[h(j)]
  <2>1. j \in 1..i \/ j \in (i + 2)..(Len(q) + 1)
      BY <1>1, <1>2
  <2>2. CASE j \in 1..i
      BY <1>1, <2>2
  <2>3. CASE j \in (i + 2)..(Len(q) + 1)
    <3>1. h(j) = j - 1 /\ j - 1 \in 1..Len(q)
        BY <1>1, <2>3
    <3>2. QED
        BY <1>1, <2>3, <3>1
  <2>4. QED
      BY <2>1, <2>2, <2>3
<1>3. \A j, k \in DOMAIN t : j # i + 1 /\ k # i + 1 /\ h(j) = h(k) => j = k
    BY <1>1
<1> HIDE DEF h
<1>4. \A j, k \in DOMAIN t : t[j] = t[k] => j = k
  <2> SUFFICES ASSUME NEW j \in DOMAIN t, NEW k \in DOMAIN t, t[j] = t[k] PROVE j = k
      OBVIOUS
  <2>1. CASE j = i + 1 \/ k = i + 1
      BY <1>1, <1>2, <2>1
  <2>2. CASE j # i + 1 /\ k # i + 1
      BY <1>2, <1>3, <2>2
  <2>3. QED
      BY <2>1, <2>2
<1>5. \A j \in DOMAIN t : t[j] = x \/ \E k \in DOMAIN q : t[j] = q[k]
    BY <1>1, <1>2
<1>6. ASSUME NEW k \in DOMAIN q PROVE \E j \in DOMAIN t : t[j] = q[k]
  <2>1. CASE k <= i
    <3>1. k \in 1..i /\ k \in DOMAIN t
        BY <1>1, <2>1
    <3>2. QED
        BY <1>1, <3>1
  <2>2. CASE ~(k <= i)
    <3>1. k + 1 \in (i + 2)..(Len(q) + 1) /\ k + 1 \in DOMAIN t /\ (k + 1) - 1 = k
        BY <1>1, <2>2
    <3>2. t[k + 1] = q[k]
        BY <1>1, <3>1
    <3>3. QED
        BY <3>1, <3>2
  <2>3. QED
      BY <2>1, <2>2
<1>7. i + 1 \in DOMAIN t
    BY <1>1
<1>8. Range(t) = Range(q) \cup {x}
  <2>1. \A y \in Range(t) : y \in Range(q) \cup {x}
      BY <1>5 DEF Range
  <2>2. \A y \in Range(q) : y \in Range(t)
      BY <1>6 DEF Range
  <2>3. x \in Range(t)
      BY <1>1, <1>7 DEF Range
  <2>4. QED
      BY <2>1, <2>2, <2>3
<1>9. QED
    BY <1>4, <1>8 DEF t

\* The other deals of the lane that a move goes to, for the server.
Target(r, m) == {d \in Selected("active", r) \ {m.deal} : r[d].stage = m.stage}

\* The server's lane after a move: the deal is in it once, and at its index.
LEMMA ServerLane ==
    ASSUME NEW r \in [Deals -> Row], NEW m, m.deal \in Deals, m.position \in Nat
    PROVE  LET T == Target(r, m)
               ids == Sorted(T, r)
               lane == Reordered(r, m)
               n == Cardinality(T)
           IN  /\ IsFiniteSet(T) /\ n \in Nat /\ n + 1 <= NDeals
               /\ IsOrder(T, OrderOf(r, T))
               /\ ids \in Seq(Deals) /\ Len(ids) = n
               /\ lane = InsertedAt(ids, Least(m.position, Len(ids)), m.deal)
               /\ Least(m.position, Len(ids)) \in 0..Len(ids)
               /\ lane \in Seq(Deals) /\ Len(lane) = n + 1 /\ DOMAIN lane = 1..(n + 1)
               /\ \A i, j \in DOMAIN lane : lane[i] = lane[j] => i = j
               /\ Range(lane) = T \cup {m.deal}
<1> DEFINE T == Target(r, m)
           ids == Sorted(T, r)
           n == Cardinality(T)
           q == Least(m.position, Len(ids))
           lane == Reordered(r, m)
<1>1. NDeals \in Nat /\ Deals = 1..NDeals /\ Deals \in SUBSET Int
    BY DealAssumption DEF Deals
<1>2. IsFiniteSet(Deals) /\ Cardinality(Deals) = NDeals
  <2>1. NDeals \in Int /\ 1 \in Int /\ (IF 1 > NDeals THEN 0 ELSE NDeals - 1 + 1) = NDeals
      BY <1>1
  <2>2. QED
      BY ONLY <1>1, <2>1, FS_Interval
<1>3. T \in SUBSET Deals /\ m.deal \notin T
    BY DEF Target, Selected
<1> HIDE DEF T
<1>4. IsFiniteSet(T) /\ n \in Nat
    BY <1>2, <1>3, FS_Subset, FS_CardinalityType
<1>5. n + 1 <= NDeals
  <2>1. IsFiniteSet(T \cup {m.deal}) /\ Cardinality(T \cup {m.deal}) = n + 1
      BY <1>3, <1>4, FS_AddElement
  <2>2. T \cup {m.deal} \in SUBSET Deals
      BY <1>3
  <2>3. Cardinality(T \cup {m.deal}) <= Cardinality(Deals)
      BY <1>2, <2>2, FS_Subset
  <2>4. QED
      BY <1>2, <2>1, <2>3
<1>6. \A x \in T : r[x].order \in Int
  <2>1. \A x \in T : r[x] \in Row
      BY <1>3
  <2>2. QED
      BY <1>1, <2>1 DEF Row
<1>7. IsOrder(T, OrderOf(r, T))
    BY <1>1, <1>3, <1>6, OrderOfIsAnOrder
<1>8. PICK Q : Q = OrderOf(r, T)
    OBVIOUS
<1>9. ids = Arranged(T, Q)
    BY <1>8 DEF Sorted
<1>10. /\ DOMAIN ids = 1..n /\ ids \in [1..n -> T] /\ Len(ids) = n /\ ids \in Seq(T)
       /\ \A x \in T : \E i \in 1..n : ids[i] = x
       /\ \A i, j \in 1..n : ids[i] = ids[j] => i = j
  <2>1. IsOrder(T, Q)
      BY <1>7, <1>8
  <2>2. QED
      BY <1>4, <1>9, <2>1, ArrangedInOrder
<1> HIDE DEF ids, n
<1>11. ids \in Seq(Deals)
    BY <1>3, <1>10
<1>12. q \in 0..Len(ids)
    BY <1>4, <1>10 DEF Least
<1>13. lane = InsertedAt(ids, q, m.deal)
    BY DEF Reordered, Target, T, ids
<1> HIDE DEF q, lane
<1>14. lane \in Seq(Deals) /\ Len(lane) = n + 1 /\ DOMAIN lane = 1..(n + 1)
  <2>1. ids \in Seq(Deals) /\ q \in 0..Len(ids) /\ m.deal \in Deals
      BY <1>11, <1>12
  <2>2. /\ InsertedAt(ids, q, m.deal) \in Seq(Deals)
        /\ Len(InsertedAt(ids, q, m.deal)) = Len(ids) + 1
    <3>1. InsertedAt(ids, q, m.deal) \in Seq(Deals)
        BY <2>1, InsertedByElements
    <3>2. Len(InsertedAt(ids, q, m.deal)) = Len(ids) + 1
        BY <2>1, InsertedByElements
    <3>3. QED
        BY ONLY <3>1, <3>2
  <2>3. DOMAIN InsertedAt(ids, q, m.deal) = 1..(Len(ids) + 1)
      BY ONLY <2>1, InsertedByElements
  <2>4. QED
      BY ONLY <1>10, <1>13, <2>2, <2>3
<1>15. \A j \in DOMAIN ids : ids[j] # m.deal /\ ids[j] \in T
    BY <1>3, <1>10
<1>16. /\ \A i, j \in DOMAIN lane : lane[i] = lane[j] => i = j
       /\ Range(lane) = Range(ids) \cup {m.deal}
  <2> DEFINE t == InsertedAt(ids, q, m.deal)
  <2>1. /\ ids \in Seq(Deals) /\ q \in 0..Len(ids) /\ m.deal \in Deals
        /\ \A j \in DOMAIN ids : ids[j] # m.deal
        /\ \A j, k \in DOMAIN ids : ids[j] = ids[k] => j = k
      BY <1>10, <1>11, <1>12, <1>15
  <2>2. \A i, j \in DOMAIN t : t[i] = t[j] => i = j
      BY ONLY <2>1, InsertedOnce
  <2>3. Range(t) = Range(ids) \cup {m.deal}
      BY ONLY <2>1, InsertedOnce
  <2>4. t = lane
      BY ONLY <1>13
  <2> HIDE DEF t
  <2>5. QED
      BY ONLY <2>2, <2>3, <2>4
<1>17. Range(ids) = T
    BY <1>10 DEF Range
<1>18. QED
    BY <1>4, <1>5, <1>7, <1>10, <1>11, <1>12, <1>13, <1>14, <1>16, <1>17 DEF T, ids, n, q, lane

\* move_deal: the rows of the lane get their stage and their place, the others
\* stay; a row that is not written has both already.
LEMMA RenumberedRows ==
    ASSUME NEW r \in [Deals -> Row], NEW m, m.deal \in Deals, m.position \in Nat,
           m.stage \in Stages
    PROVE  LET lane == Reordered(r, m)
               next == Renumbered(r, m)
           IN  /\ next \in [Deals -> Row]
               /\ \A x \in Deals : next[x].archived = r[x].archived
               /\ \A x \in Deals \ Range(lane) : next[x] = r[x]
               /\ m.copy = r[m.deal] => \A i \in DOMAIN lane : /\ next[lane[i]].stage = m.stage
                                                               /\ next[lane[i]].order = i - 1
<1>1. PICK lane : lane = Reordered(r, m)
    OBVIOUS
<1>2. PICK n : n = Cardinality(Target(r, m))
    OBVIOUS
<1>3. /\ n \in Nat /\ n + 1 <= NDeals
      /\ lane \in Seq(Deals) /\ DOMAIN lane = 1..(n + 1)
      /\ \A i, j \in DOMAIN lane : lane[i] = lane[j] => i = j
  <2>1. /\ n \in Nat /\ n + 1 <= NDeals
        /\ lane \in Seq(Deals) /\ DOMAIN lane = 1..(n + 1)
      BY <1>1, <1>2, ServerLane
  <2>2. \A i, j \in DOMAIN lane : lane[i] = lane[j] => i = j
      BY <1>1, ServerLane
  <2>3. QED
      BY <2>1, <2>2
<1>4. PICK next : next = Renumbered(r, m)
    OBVIOUS
<1>5. ASSUME NEW i \in DOMAIN lane PROVE IndexIn(lane, lane[i]) = i
    BY <1>3 DEF IndexIn
<1>6. NDeals \in Nat
    BY DealAssumption
<1> DEFINE same(x) == LET item == IF x = m.deal THEN m.copy ELSE r[x]
                      IN  item.stage = m.stage /\ item.order = IndexIn(lane, x) - 1
           written(x) == [r[x] EXCEPT !.stage = m.stage, !.order = IndexIn(lane, x) - 1]
<1>7. next = [x \in Deals |-> IF x \in Range(lane) /\ ~same(x) THEN written(x) ELSE r[x]]
    BY <1>1, <1>4 DEF Renumbered
<1>8. ASSUME NEW x \in Range(lane)
      PROVE  /\ written(x) \in Row /\ written(x).archived = r[x].archived
             /\ written(x).stage = m.stage /\ written(x).order = IndexIn(lane, x) - 1
             /\ r[x] \in Row /\ x \in Deals
  <2>1. PICK i \in DOMAIN lane : lane[i] = x
      BY DEF Range
  <2>2. IndexIn(lane, x) = i /\ i - 1 \in 0..(NDeals - 1)
      BY <1>3, <1>5, <1>6, <2>1
  <2>3. x \in Deals /\ r[x] \in Row
      BY <1>3, <2>1
  <2>4. PICK a, o, s : a = r[x] /\ o = IndexIn(lane, x) - 1 /\ s = m.stage
      OBVIOUS
  <2>5. a \in Row /\ o \in 0..(NDeals - 1) /\ s \in Stages
      BY <2>2, <2>3, <2>4
  <2>6. PICK b \in BOOLEAN : b = a.archived
      BY <2>5 DEF Row
  <2>7. PICK c : c = [a EXCEPT !.stage = s, !.order = o]
      OBVIOUS
  <2>8. c = [stage |-> s, order |-> o, archived |-> b]
      BY <2>5, <2>6, <2>7 DEF Row
  <2>9. c \in Row /\ c.archived = a.archived /\ c.stage = s /\ c.order = o
      BY <2>5, <2>6, <2>8 DEF Row
  <2>10. written(x) = c
      BY <2>4, <2>7
  <2> HIDE DEF written
  <2>11. QED
      BY <2>3, <2>4, <2>9, <2>10
<1>9. ASSUME NEW i \in DOMAIN lane, m.copy = r[m.deal]
      PROVE  next[lane[i]].stage = m.stage /\ next[lane[i]].order = i - 1
  <2>1. PICK x : x = lane[i]
      OBVIOUS
  <2>2. x \in Range(lane) /\ IndexIn(lane, x) = i /\ x \in Deals
      BY <1>3, <1>5, <2>1 DEF Range
  <2>3. CASE same(x)
    <3>1. r[x].stage = m.stage /\ r[x].order = IndexIn(lane, x) - 1
        BY <1>9, <2>3
    <3>2. next[x] = r[x]
        BY <1>7, <2>2, <2>3
    <3>3. QED
        BY <2>1, <2>2, <3>1, <3>2
  <2>4. CASE ~same(x)
    <3>1. next[x] = written(x)
        BY <1>7, <2>2, <2>4
    <3> HIDE DEF written
    <3>2. QED
        BY <1>8, <2>1, <2>2, <3>1
  <2>5. QED
      BY <2>3, <2>4
<1> HIDE DEF same, written
<1>10. \A x \in Deals : r[x] \in Row
    OBVIOUS
<1>11. next \in [Deals -> Row] /\ \A x \in Deals : next[x].archived = r[x].archived
    BY <1>7, <1>8, <1>10
<1>12. \A x \in Deals \ Range(lane) : next[x] = r[x]
    BY <1>7
<1>13. QED
    BY <1>1, <1>4, <1>9, <1>11, <1>12

\* The answer of the list endpoint: the selected deals, once each, in order.
LEMMA ListedCards ==
    ASSUME rows \in [Deals -> Row], NEW v
    PROVE  LET A == Selected(v, rows)
               ids == Sorted(A, rows)
               n == Cardinality(A)
           IN  /\ A \in SUBSET Deals /\ n \in Nat
               /\ Listed(v) \in Lists /\ DOMAIN Listed(v) = 1..n
               /\ ids \in [1..n -> A]
               /\ \A i \in 1..n : /\ Listed(v)[i].deal = ids[i]
                                  /\ Listed(v)[i].stage = rows[ids[i]].stage
                                  /\ Listed(v)[i].order = rows[ids[i]].order
               /\ \A i, j \in 1..n : Before(rows, ids[i], ids[j]) <=> i < j
               /\ \A x \in A : \E i \in 1..n : ids[i] = x
               /\ \A i, j \in 1..n : ids[i] = ids[j] => i = j
<1> DEFINE A == Selected(v, rows)
           ids == Sorted(A, rows)
           n == Cardinality(A)
<1>1. A \in SUBSET Deals /\ NDeals \in Nat /\ Deals = 1..NDeals
    BY DealAssumption DEF Selected, Deals
<1> HIDE DEF A
<1>2. IsFiniteSet(A) /\ n \in Nat
  <2>1. NDeals \in Int /\ 1 \in Int
      BY <1>1
  <2>2. IsFiniteSet(1..NDeals)
      BY ONLY <2>1, FS_Interval
  <2>3. QED
      BY <1>1, <2>2, FS_Subset, FS_CardinalityType
<1>3. \A x \in A : rows[x] \in Row /\ rows[x].order \in Nat /\ rows[x].stage \in Stages /\ x \in Int
  <2>1. \A x \in A : rows[x] \in Row /\ x \in Int
      BY <1>1
  <2>2. QED
      BY <1>1, <2>1 DEF Row
<1>4. /\ IsOrder(A, OrderOf(rows, A))
      /\ \A x, y \in A : <<x, y>> \in OrderOf(rows, A) <=> Before(rows, x, y)
    BY <1>3, OrderOfIsAnOrder
<1>5. PICK Q : Q = OrderOf(rows, A)
    OBVIOUS
<1>6. ids = Arranged(A, Q)
    BY <1>5 DEF Sorted
<1>7. IsOrder(A, Q) /\ \A x, y \in A : <<x, y>> \in Q <=> Before(rows, x, y)
    BY <1>4, <1>5
<1>8. /\ DOMAIN ids = 1..n /\ ids \in [1..n -> A]
      /\ \A x \in A : \E i \in 1..n : ids[i] = x
      /\ \A i, j \in 1..n : <<ids[i], ids[j]>> \in Q <=> i < j
      /\ \A i, j \in 1..n : ids[i] = ids[j] => i = j
    BY <1>2, <1>6, <1>7, ArrangedInOrder
<1>9. PICK l : l = Listed(v)
    OBVIOUS
<1>10. l = [i \in DOMAIN ids |->
              [deal |-> ids[i], stage |-> rows[ids[i]].stage, order |-> rows[ids[i]].order]]
    BY <1>9 DEF Listed, A, ids
<1> HIDE DEF ids, n
<1>11. ASSUME NEW i \in 1..n
       PROVE  /\ l[i] \in Card /\ l[i].deal = ids[i]
              /\ l[i].stage = rows[ids[i]].stage /\ l[i].order = rows[ids[i]].order
  <2>1. ids[i] \in A /\ i \in DOMAIN ids
      BY <1>8
  <2>2. l[i] = [deal |-> ids[i], stage |-> rows[ids[i]].stage, order |-> rows[ids[i]].order]
      BY <1>10, <2>1
  <2>3. ids[i] \in Deals \cup {0} /\ rows[ids[i]].stage \in Stages /\ rows[ids[i]].order \in Nat
      BY <1>1, <1>3, <2>1
  <2>4. QED
      BY ONLY <2>2, <2>3 DEF Card
<1>12. l = [i \in 1..n |-> l[i]]
    BY <1>8, <1>10
<1>13. l \in Seq(Card) /\ DOMAIN l = 1..n
    BY ONLY <1>2, <1>11, <1>12
<1>14. \A i, j \in 1..n : Before(rows, ids[i], ids[j]) <=> i < j
    BY <1>7, <1>8
<1>15. l \in Lists
    BY <1>13 DEF Lists, Card
<1>16. QED
    BY <1>1, <1>2, <1>8, <1>9, <1>11, <1>13, <1>14, <1>15 DEF A, ids, n

(***************************************************************************)
(* The types of the board, which are inductive with what the handlers rely *)
(* on: cards are dragged in the active view, the menu and the mutations    *)
(* under way are of a deal, and a move that the view has let through read  *)
(* a deal that was not archived.                                           *)
(***************************************************************************)
GoodMove(m) ==
    /\ m \in Move
    /\ m.at \in {"sent", "read", "moved", "refused"} => m.deal # 0
    /\ m.kind = "move" /\ m.at = "read" => ~m.copy.archived

OverlayRecord == [kind : {"none", "menu", "lost"}, deal : Deals \cup {0}]

BoardData ==
    /\ BoardTypeOK
    /\ \A m \in Moves : GoodMove(moves[m])
    /\ dragged # 0 => view = "active"
    /\ overlay.kind = "menu" => overlay.deal # 0

\* What a step may do to them.
DataMoves ==
    /\ rows' \in [Deals -> Row]
    /\ list' = list \/ \E v \in Views, l \in Lists : list' = [list EXCEPT ![v] = l]
    /\ \/ fetching' \in {fetching, NotFetching, ListAsked}
       \/ \E l \in Lists : fetching' = [at |-> "answered", data |-> l]
    /\ dragged' \in Deals \cup {0} /\ (dragged' # 0 => view' = "active")
    /\ overlay' \in OverlayRecord /\ (overlay'.kind = "menu" => overlay'.deal # 0)
    /\ moves' = moves \/ \E m \in Moves, c \in Move : GoodMove(c) /\ moves' = [moves EXCEPT ![m] = c]

\* Such a step keeps them.
LEMMA StepData == ASSUME BoardData, BoardInv', DataMoves PROVE BoardData'
<1>1. outdated' \in [Views -> BOOLEAN] /\ view' \in Views \cup {"away"}
      /\ latest' \in Moves \cup {"none"}
    BY DEF BoardInv, BoardShape
<1>2. list' \in [Views -> Lists]
    BY DEF DataMoves, BoardData, BoardTypeOK
<1>3. fetching' \in {NotFetching, ListAsked} \cup [at : {"answered"}, data : Lists]
    BY DEF DataMoves, BoardData, BoardTypeOK
<1>4. moves' \in [Moves -> Move] /\ \A m \in Moves : GoodMove(moves'[m])
  <2>1. moves \in [Moves -> Move] /\ \A m \in Moves : GoodMove(moves[m])
      BY DEF BoardData, BoardTypeOK
  <2>2. CASE moves' = moves
      BY <2>1, <2>2
  <2>3. ASSUME NEW m \in Moves, NEW c \in Move, GoodMove(c), moves' = [moves EXCEPT ![m] = c]
        PROVE  moves' \in [Moves -> Move] /\ \A n \in Moves : GoodMove(moves'[n])
    <3>1. /\ moves' \in [Moves -> Move] /\ moves'[m] = c
          /\ \A n \in Moves : n # m => moves'[n] = moves[n]
        BY <2>1, <2>3
    <3>2. QED
        BY <2>1, <2>3, <3>1
  <2>4. QED
      BY <2>2, <2>3 DEF DataMoves
<1>5. QED
    BY <1>1, <1>2, <1>3, <1>4 DEF DataMoves, BoardData, BoardTypeOK, OverlayRecord

\* What a mutation's record is made of.
LEMMA MoveFields ==
    ASSUME NEW m \in Move
    PROVE  /\ m = [at |-> m.at, kind |-> m.kind, deal |-> m.deal, stage |-> m.stage,
                   position |-> m.position, copy |-> m.copy, previous |-> m.previous, key |-> m.key]
           /\ m.at \in {"idle", "sent", "read", "moved", "refused", "over", "failed"}
           /\ m.kind \in {"move", "archive"} /\ m.deal \in Deals \cup {0} /\ m.stage \in Stages
           /\ m.position \in Nat /\ m.copy \in Row \cup {NoRow} /\ m.previous \in Lists
           /\ m.key \in Views
BY DEF Move

\* Its phase is written.
LEMMA PhaseWritten ==
    ASSUME NEW m \in Move, NEW c,
           NEW x \in {"idle", "sent", "read", "moved", "refused", "over", "failed"},
           c = [m EXCEPT !.at = x]
    PROVE  c \in Move /\ c.at = x /\ c.kind = m.kind /\ c.deal = m.deal /\ c.copy = m.copy
<1>1. c = [at |-> x, kind |-> m.kind, deal |-> m.deal, stage |-> m.stage,
            position |-> m.position, copy |-> m.copy, previous |-> m.previous, key |-> m.key]
    BY MoveFields
<1>2. QED
    BY MoveFields, <1>1 DEF Move

\* The key of its callbacks.
LEMMA KeyWritten ==
    ASSUME NEW m \in Move, NEW c, NEW x \in Views, c = [m EXCEPT !.key = x]
    PROVE  c \in Move /\ c.at = m.at /\ c.kind = m.kind /\ c.deal = m.deal /\ c.copy = m.copy
<1>1. c = [at |-> m.at, kind |-> m.kind, deal |-> m.deal, stage |-> m.stage,
            position |-> m.position, copy |-> m.copy, previous |-> m.previous, key |-> x]
    BY MoveFields
<1>2. QED
    BY MoveFields, <1>1 DEF Move

\* The view's copy of the deal.
LEMMA CopyWritten ==
    ASSUME NEW m \in Move, NEW c, NEW x \in Row, c = [m EXCEPT !.copy = x]
    PROVE  c \in Move /\ c.at = m.at /\ c.kind = m.kind /\ c.deal = m.deal /\ c.copy = x
<1>1. c = [at |-> m.at, kind |-> m.kind, deal |-> m.deal, stage |-> m.stage,
            position |-> m.position, copy |-> x, previous |-> m.previous, key |-> m.key]
    BY MoveFields
<1>2. QED
    BY MoveFields, <1>1 DEF Move

\* Its deal.
LEMMA DealWritten ==
    ASSUME NEW m \in Move, NEW c, NEW x \in Deals, c = [m EXCEPT !.deal = x]
    PROVE  c \in Move /\ c.at = m.at /\ c.kind = m.kind /\ c.deal = x
<1>1. c = [at |-> m.at, kind |-> m.kind, deal |-> x, stage |-> m.stage,
            position |-> m.position, copy |-> m.copy, previous |-> m.previous, key |-> m.key]
    BY MoveFields
<1>2. QED
    BY MoveFields, <1>1 DEF Move

\* Its kind.
LEMMA KindWritten ==
    ASSUME NEW m \in Move, NEW c, c = [m EXCEPT !.kind = "archive"]
    PROVE  c \in Move /\ c.at = m.at /\ c.kind = "archive" /\ c.deal = m.deal
<1>1. c = [at |-> m.at, kind |-> "archive", deal |-> m.deal, stage |-> m.stage,
            position |-> m.position, copy |-> m.copy, previous |-> m.previous, key |-> m.key]
    BY MoveFields
<1>2. QED
    BY MoveFields, <1>1 DEF Move

\* The lists and the mutations at first.
LEMMA NothingYet ==
    /\ NoList \in Lists /\ NoRow \in Row \cup {NoRow}
    /\ NoMove \in Move /\ GoodMove(NoMove)
    /\ Nothing \in OverlayRecord /\ Nothing.kind = "none"
<1>1. "lead" \in Stages /\ "active" \in Views
    BY DealAssumption
<1>2. PICK c : c = [deal |-> 0, stage |-> "lead", order |-> 0]
    OBVIOUS
<1>3. c \in [deal : Deals \cup {0}, stage : Stages, order : Nat]
    BY <1>1, <1>2
<1>4. NoList = <<c>>
    BY <1>2 DEF NoList
<1>5. NoList \in Lists
    BY <1>3, <1>4 DEF Lists
<1>6. NoMove \in Move /\ NoMove.at = "idle"
    BY <1>1, <1>5 DEF NoMove, Move
<1>7. GoodMove(NoMove)
    BY <1>6 DEF GoodMove
<1>8. Nothing \in OverlayRecord /\ Nothing.kind = "none"
    BY DEF Nothing, OverlayRecord
<1>9. QED
    BY <1>5, <1>6, <1>7, <1>8

\* The board before anything is known.
LEMMA InitData == BoardInit => BoardData
<1> SUFFICES ASSUME BoardInit PROVE BoardData
    OBVIOUS
<1>1. rows \in [Deals -> Row]
  <2>1. ASSUME NEW d \in Deals PROVE NoRow \in Row
      BY DealAssumption DEF Deals, NoRow, Row
  <2>2. QED
      BY <2>1 DEF BoardInit
<1>2. list \in [Views -> Lists] /\ moves \in [Moves -> Move] /\ \A m \in Moves : GoodMove(moves[m])
    BY NothingYet DEF BoardInit
<1>3. overlay \in OverlayRecord /\ overlay.kind = "none" /\ dragged = 0
    BY NothingYet DEF BoardInit
<1>4. /\ outdated \in [Views -> BOOLEAN] /\ view \in Views \cup {"away"}
      /\ latest \in Moves \cup {"none"} /\ fetching \in {NotFetching, ListAsked}
    BY DealAssumption DEF BoardInit
<1>5. QED
    BY <1>1, <1>2, <1>3, <1>4 DEF BoardData, BoardTypeOK, OverlayRecord

\* What a step that leaves a store alone keeps.
LEMMA DataStays ==
    ASSUME BoardData
    PROVE  /\ rows \in [Deals -> Row] /\ list \in [Views -> Lists] /\ moves \in [Moves -> Move]
           /\ \A m \in Moves : moves[m] \in Move /\ GoodMove(moves[m])
           /\ dragged \in Deals \cup {0} /\ (dragged # 0 => view = "active")
           /\ overlay \in OverlayRecord /\ (overlay.kind = "menu" => overlay.deal # 0)
           /\ view \in Views \cup {"away"} /\ latest \in Moves \cup {"none"}
BY DEF BoardData, BoardTypeOK, GoodMove, OverlayRecord

\* The list query, the views, the pointer and the card's menu.
LEMMA PageData ==
    ASSUME BoardData, BoardInv,
           \/ ServeList \/ ListArrives \/ ListFails \/ RefetchList
           \/ \E v \in Views \cup {"away"} : selectBoardView(v)
           \/ \E d \in Deals : dragStart(d) \/ openActions(d)
           \/ dragCancel \/ closeOverlay
           \/ UNCHANGED boardVars
    PROVE  DataMoves
<1>1. CASE ServeList
  <2>1. Listed(view) \in Lists
      BY ListedCards, DataStays
  <2>2. fetching' = [at |-> "answered", data |-> Listed(view)]
      BY <1>1 DEF ServeList
  <2>3. UNCHANGED <<rows, list, dragged, overlay, moves, view>>
      BY <1>1 DEF ServeList, boardScreen
  <2>4. QED
      BY <2>1, <2>2, <2>3, DataStays DEF DataMoves
<1>2. CASE ListArrives
  <2>1. UNCHANGED <<rows, dragged, overlay, moves, view>> /\ fetching' = NotFetching
        /\ list' = [list EXCEPT ![view] = fetching.data] /\ fetching.at = "answered"
      BY <1>2 DEF ListArrives, boardScreen
  <2>2. fetching.data \in Lists /\ view \in Views
      BY <2>1 DEF BoardData, BoardTypeOK, BoardInv, BoardShape, NotFetching, ListAsked
  <2>3. QED
      BY <2>1, <2>2, DataStays DEF DataMoves
<1>3. CASE ListFails \/ RefetchList
  <2>1. UNCHANGED <<rows, list, dragged, overlay, moves, view>>
        /\ fetching' \in {NotFetching, ListAsked}
      BY <1>3 DEF ListFails, RefetchList, boardScreen
  <2>2. QED
      BY <2>1, DataStays DEF DataMoves
<1>4. ASSUME NEW v \in Views \cup {"away"}, selectBoardView(v) PROVE DataMoves
  <2>1. UNCHANGED <<rows, list, dragged, overlay>> /\ dragged = 0
        /\ fetching' \in {NotFetching, ListAsked}
      BY <1>4 DEF selectBoardView
  <2>2. moves' = moves \/ (latest # "none" /\ v # "away" /\ moves' = [moves EXCEPT ![latest].key = v])
      BY <1>4 DEF selectBoardView
  <2>3. CASE moves' = moves
      BY <2>1, <2>3, DataStays DEF DataMoves
  <2>4. CASE latest # "none" /\ v # "away" /\ moves' = [moves EXCEPT ![latest].key = v]
    <3>1. latest \in Moves /\ v \in Views
        BY <1>4, <2>4, DataStays
    <3>2. PICK c : c = [moves[latest] EXCEPT !.key = v]
        OBVIOUS
    <3>3. moves[latest] \in Move /\ GoodMove(moves[latest])
        BY <3>1, DataStays
    <3>4. /\ c \in Move /\ c.at = moves[latest].at /\ c.kind = moves[latest].kind
          /\ c.deal = moves[latest].deal /\ c.copy = moves[latest].copy
        BY ONLY <3>1, <3>2, <3>3, KeyWritten
    <3>5. GoodMove(c)
        BY <3>3, <3>4 DEF GoodMove
    <3>6. moves' = [moves EXCEPT ![latest] = c]
        BY <2>4, <3>2
    <3>7. QED
        BY <2>1, <3>1, <3>4, <3>5, <3>6, DataStays DEF DataMoves
  <2>5. QED
      BY <2>2, <2>3, <2>4
<1>5. ASSUME NEW d \in Deals, dragStart(d) PROVE DataMoves
    BY <1>5, DataStays DEF dragStart, DealLane, canMove, cache, DataMoves
<1>6. ASSUME NEW d \in Deals, openActions(d) PROVE DataMoves
  <2>1. UNCHANGED <<rows, list, fetching, view, dragged, moves>>
      BY <1>6 DEF openActions, cache
  <2>2. overlay' = [kind |-> "menu", deal |-> d] /\ d # 0
      BY <1>6, DealAssumption DEF openActions, Deals
  <2>3. overlay' \in OverlayRecord /\ overlay'.deal # 0
      BY <2>2 DEF OverlayRecord
  <2>4. QED
      BY <2>1, <2>3, DataStays DEF DataMoves
<1>7. CASE dragCancel \/ closeOverlay
    BY <1>7, DataStays, NothingYet DEF dragCancel, closeOverlay, cache, DataMoves
<1>8. CASE UNCHANGED boardVars
    BY <1>8, DataStays DEF boardVars, DataMoves
<1>9. QED
    BY <1>1, <1>2, <1>3, <1>4, <1>5, <1>6, <1>7, <1>8

\* A card is put down.
LEMMA DropData ==
    ASSUME BoardData, NEW m \in Moves, NEW s \in Stages, NEW over \in Deals \cup {0},
           dragEnd(m, s, over)
    PROVE  DataMoves
<1>1. view = "active" /\ view \in Views /\ dragged \in Deals \cup {0} /\ dragged # 0
    BY DataStays, DealAssumption DEF dragEnd
<1>2. UNCHANGED <<rows, view>> /\ dragged' = 0
    BY DEF dragEnd
<1>3. CASE AsksForReason(dragged, s)
  <2>1. overlay' = [kind |-> "lost", deal |-> dragged] /\ UNCHANGED <<list, fetching, moves>>
      BY <1>3 DEF dragEnd, cache
  <2>2. overlay' \in OverlayRecord /\ overlay'.kind = "lost"
      BY <1>1, <2>1 DEF OverlayRecord
  <2>3. QED
      BY <1>2, <2>1, <2>2, DataStays DEF DataMoves
<1>4. CASE ~AsksForReason(dragged, s)
  <2>1. PICK c, l, p :
          /\ p = Position(dragged, s, over)
          /\ l = Optimistic(list[view], dragged, s, p)
          /\ c = [at |-> "sent", kind |-> "move", deal |-> dragged, stage |-> s,
                  position |-> p, copy |-> NoRow, previous |-> list[view], key |-> view]
      OBVIOUS
  <2>2. /\ moves' = [moves EXCEPT ![m] = c]
        /\ list' = [list EXCEPT ![view] = l]
        /\ fetching' = NotFetching /\ UNCHANGED overlay
      BY <1>4, <2>1 DEF dragEnd
  <2>3. list[view] \in Lists
      BY <1>1, DataStays
  <2>4. p \in Nat
    <3>1. over # 0 => over \in On(laneDeals(list[view], s))
        BY DEF dragEnd
    <3>2. QED
        BY <2>1, <2>3, <3>1, PositionType
  <2>5. l \in Lists
      BY <2>1, <2>3, <2>4, DropTypes
  <2>6. c \in Move /\ c.at = "sent" /\ c.deal = dragged
    <3>1. c.at = "sent" /\ c.deal = dragged
        BY <2>1
    <3>2. QED
        BY ONLY <1>1, <2>1, <2>3, <2>4, <3>1, s \in Stages DEF Move
  <2>7. GoodMove(c)
      BY <1>1, <2>6 DEF GoodMove
  <2>8. QED
      BY <1>1, <1>2, <2>2, <2>5, <2>6, <2>7, DataStays DEF DataMoves
<1>5. QED
    BY <1>3, <1>4

\* What a step on a mutation needs for the types: its new record is good, and
\* the stores it writes hold what they may.
LEMMA OneMoveData ==
    ASSUME BoardData, NEW m \in Moves, NEW c \in Move, GoodMove(c),
           moves' = [moves EXCEPT ![m] = c],
           rows' \in [Deals -> Row], UNCHANGED <<view, dragged>>,
           overlay' \in {overlay, Nothing},
           fetching' \in {fetching, NotFetching, ListAsked},
           list' = list \/ \E v \in Views, l \in Lists : list' = [list EXCEPT ![v] = l]
    PROVE  DataMoves
<1>1. overlay' \in OverlayRecord /\ (overlay'.kind = "menu" => overlay'.deal # 0)
    BY DataStays, NothingYet
<1>2. QED
    BY <1>1, DataStays DEF DataMoves

\* The move endpoint, before and under the lock.
LEMMA MoveViewData ==
    ASSUME BoardData, NEW m \in Moves, DealMoveAPIView(m) \/ move_deal(m) \/ MoveLost(m)
    PROVE  DataMoves
<1>1. PICK a : a = moves[m]
    OBVIOUS
<1>2. a \in Move /\ GoodMove(a) /\ rows \in [Deals -> Row]
    BY <1>1, DataStays
<1>3. UNCHANGED <<list, fetching, view, dragged, overlay>>
    BY DEF DealMoveAPIView, move_deal, MoveLost, cache, boardScreen
<1>4. PICK gone, moved, under :
        /\ gone = [a EXCEPT !.at = "refused"]
        /\ moved = [a EXCEPT !.at = "moved"]
        /\ under = [a EXCEPT !.at = "read"]
    OBVIOUS
<1>5. gone \in Move /\ gone.at = "refused" /\ gone.deal = a.deal
    BY ONLY <1>2, <1>4, PhaseWritten
<1>6. moved \in Move /\ moved.at = "moved" /\ moved.deal = a.deal
    BY ONLY <1>2, <1>4, PhaseWritten
<1>7. under \in Move /\ under.at = "read" /\ under.deal = a.deal
    BY ONLY <1>2, <1>4, PhaseWritten
<1>8. CASE DealMoveAPIView(m)
  <2>1. a.kind = "move" /\ a.at = "sent" /\ UNCHANGED rows
      BY <1>1, <1>8 DEF DealMoveAPIView
  <2>2. a.deal \in Deals
      BY <1>2, <2>1, MoveFields DEF GoodMove
  <2>3. PICK row : row = rows[a.deal]
      OBVIOUS
  <2>4. row \in Row
      BY <1>2, <2>2, <2>3
  <2>5. PICK read : read = [under EXCEPT !.copy = row]
      OBVIOUS
  <2>6. read \in Move /\ read.at = "read" /\ read.deal = a.deal /\ read.copy = row
    <3>1. read \in Move /\ read.at = under.at /\ read.deal = under.deal /\ read.copy = row
        BY ONLY <1>7, <2>4, <2>5, CopyWritten
    <3>2. QED
        BY ONLY <1>7, <3>1
  <2>7. IF row.archived \/ AsksForReason(a.deal, a.stage)
        THEN moves' = [moves EXCEPT ![m] = gone]
        ELSE moves' = [moves EXCEPT ![m] = read]
      BY <1>1, <1>4, <1>8, <2>3, <2>5 DEF DealMoveAPIView
  <2>8. CASE row.archived \/ AsksForReason(a.deal, a.stage)
    <3>1. GoodMove(gone)
        BY <1>5, <2>2, DealAssumption DEF GoodMove, Deals
    <3>2. QED
        BY <1>2, <1>3, <1>5, <2>1, <2>7, <2>8, <3>1, OneMoveData
  <2>9. CASE ~(row.archived \/ AsksForReason(a.deal, a.stage))
    <3>1. GoodMove(read)
        BY <2>2, <2>6, <2>9, DealAssumption DEF GoodMove, Deals
    <3>2. QED
        BY <1>2, <1>3, <2>1, <2>6, <2>7, <2>9, <3>1, OneMoveData
  <2>10. QED
      BY <2>8, <2>9
<1>9. CASE move_deal(m)
  <2>1. a.at = "read" /\ rows' = Renumbered(rows, a) /\ moves' = [moves EXCEPT ![m] = moved]
      BY <1>1, <1>4, <1>9 DEF move_deal
  <2>2. a.deal \in Deals /\ a.position \in Nat /\ a.stage \in Stages
      BY <1>2, <2>1, MoveFields DEF GoodMove
  <2>3. rows' \in [Deals -> Row]
      BY <1>2, <2>1, <2>2, RenumberedRows
  <2>4. GoodMove(moved)
      BY <1>6, <2>2, DealAssumption DEF GoodMove, Deals
  <2>5. QED
      BY <1>3, <1>6, <2>1, <2>3, <2>4, OneMoveData
<1>10. CASE MoveLost(m)
  <2>1. a.at \in {"sent", "moved"} /\ UNCHANGED rows /\ moves' = [moves EXCEPT ![m] = gone]
      BY <1>1, <1>4, <1>10 DEF MoveLost
  <2>2. GoodMove(gone)
      BY <1>2, <1>5, <2>1 DEF GoodMove
  <2>3. QED
      BY <1>2, <1>3, <1>5, <2>1, <2>2, OneMoveData
<1>11. QED
    BY <1>8, <1>9, <1>10

\* The menu's archive or restore, and its endpoint.
LEMMA ArchiveData ==
    ASSUME BoardData, NEW m \in Moves, toggleArchive(m) \/ DealArchiveAPIView(m)
    PROVE  DataMoves
<1>1. PICK a : a = moves[m]
    OBVIOUS
<1>2. a \in Move /\ GoodMove(a) /\ rows \in [Deals -> Row]
    BY <1>1, DataStays
<1>3. UNCHANGED <<list, fetching, view, dragged, overlay>>
    BY DEF toggleArchive, DealArchiveAPIView, cache, boardScreen
<1>4. CASE toggleArchive(m)
  <2>1. PICK x : x = overlay.deal
      OBVIOUS
  <2>2. x \in Deals
      BY <1>4, <2>1, DataStays DEF toggleArchive, OverlayRecord
  <2>3. PICK sent, archive, asked :
          /\ sent = [a EXCEPT !.at = "sent"]
          /\ archive = [sent EXCEPT !.kind = "archive"]
          /\ asked = [archive EXCEPT !.deal = x]
      OBVIOUS
  <2>4. sent \in Move /\ sent.at = "sent"
      BY ONLY <1>2, <2>3, PhaseWritten
  <2>5. archive \in Move /\ archive.at = sent.at /\ archive.kind = "archive"
      BY ONLY <2>3, <2>4, KindWritten
  <2>6. asked \in Move /\ asked.at = archive.at /\ asked.kind = archive.kind /\ asked.deal = x
    <3>1. asked = [archive EXCEPT !.deal = x]
        BY <2>3
    <3>2. asked.at = archive.at /\ asked.kind = archive.kind /\ asked \in Move
        BY ONLY <2>2, <2>5, <3>1, DealWritten
    <3>3. asked.deal = x
        BY ONLY <2>2, <2>5, <3>1, DealWritten
    <3>4. QED
        BY ONLY <3>2, <3>3
  <2>7. GoodMove(asked)
      BY <2>2, <2>4, <2>5, <2>6, DealAssumption DEF GoodMove, Deals
  <2>8. moves' = [moves EXCEPT ![m] = asked] /\ UNCHANGED rows
      BY <1>1, <1>4, <2>1, <2>3 DEF toggleArchive
  <2>9. QED
      BY <1>2, <1>3, <2>6, <2>7, <2>8, OneMoveData
<1>5. CASE DealArchiveAPIView(m) /\ a.at = "sent"
  <2>1. PICK row : row = rows[a.deal]
      OBVIOUS
  <2>2. a.deal \in Deals /\ row \in Row
      BY <1>2, <1>5, <2>1, MoveFields DEF GoodMove
  <2>3. PICK under, read :
          under = [a EXCEPT !.at = "read"] /\ read = [under EXCEPT !.copy = row]
      OBVIOUS
  <2>4. under \in Move /\ under.at = "read" /\ under.kind = a.kind /\ under.deal = a.deal
      BY ONLY <1>2, <2>3, PhaseWritten
  <2>5. /\ read \in Move /\ read.at = under.at /\ read.kind = under.kind
        /\ read.deal = under.deal
      BY ONLY <2>2, <2>3, <2>4, CopyWritten
  <2>6. a.kind = "archive" /\ moves' = [moves EXCEPT ![m] = read] /\ UNCHANGED rows
      BY <1>1, <1>5, <2>1, <2>3 DEF DealArchiveAPIView
  <2>7. GoodMove(read)
      BY <2>2, <2>4, <2>5, <2>6, DealAssumption DEF GoodMove, Deals
  <2>8. QED
      BY <1>2, <1>3, <2>5, <2>6, <2>7, OneMoveData
<1>6. CASE DealArchiveAPIView(m) /\ a.at # "sent"
  <2>1. a.at = "read" /\ a.kind = "archive"
      BY <1>1, <1>6 DEF DealArchiveAPIView
  <2>2. PICK moved : moved = [a EXCEPT !.at = "moved"]
      OBVIOUS
  <2>3. moved \in Move /\ moved.at = "moved" /\ moved.deal = a.deal
      BY ONLY <1>2, <2>2, PhaseWritten
  <2>4. GoodMove(moved)
      BY <1>2, <2>1, <2>3 DEF GoodMove
  <2>5. a.deal \in Deals
      BY <1>2, <2>1, MoveFields DEF GoodMove
  <2>6. PICK y, b, row :
          y = (~a.copy.archived) /\ b = rows[a.deal] /\ row = [b EXCEPT !.archived = y]
      OBVIOUS
  <2>7. row \in Row
    <3>1. b = [stage |-> b.stage, order |-> b.order, archived |-> b.archived]
          /\ b.stage \in Stages /\ b.order \in 0..(NDeals - 1)
        BY <1>2, <2>5, <2>6 DEF Row
    <3>2. row = [stage |-> b.stage, order |-> b.order, archived |-> y]
        BY ONLY <2>6, <3>1
    <3>3. y \in BOOLEAN
        BY <2>6, Zenon
    <3>4. QED
        BY ONLY <3>1, <3>2, <3>3 DEF Row
  <2>8. rows' = [rows EXCEPT ![a.deal] = row] /\ moves' = [moves EXCEPT ![m] = moved]
    <3>1. rows' = [rows EXCEPT ![a.deal].archived = ~a.copy.archived]
        BY <1>1, <1>6, Zenon DEF DealArchiveAPIView
    <3>2. moves' = [moves EXCEPT ![m] = moved]
        BY <1>1, <1>6, <2>2 DEF DealArchiveAPIView
    <3>3. QED
        BY <2>6, <3>1, <3>2, Zenon
  <2>9. rows' \in [Deals -> Row]
      BY <1>2, <2>5, <2>7, <2>8
  <2>10. QED
      BY <1>3, <2>3, <2>4, <2>8, <2>9, OneMoveData
<1>7. QED
    BY <1>4, <1>5, <1>6

\* The callbacks of a mutation that is over.
LEMMA SettledData ==
    ASSUME BoardData, NEW m \in Moves,
           MoveFails(m) \/ MoveSucceeds(m) \/ Archived(m) \/ ArchiveFails(m)
    PROVE  DataMoves
<1>1. PICK over, failed :
        over = [NoMove EXCEPT !.at = "over"] /\ failed = [NoMove EXCEPT !.at = "failed"]
    OBVIOUS
<1>2. over \in Move /\ over.at = "over"
    BY ONLY <1>1, NothingYet, PhaseWritten
<1>3. failed \in Move /\ failed.at = "failed"
    BY ONLY <1>1, NothingYet, PhaseWritten
<1>4. GoodMove(over) /\ GoodMove(failed)
    BY <1>2, <1>3 DEF GoodMove
<1>5. rows' \in [Deals -> Row] /\ UNCHANGED <<view, dragged>>
    BY DataStays DEF MoveFails, MoveSucceeds, Archived, ArchiveFails, boardScreen
<1>6. overlay' \in {overlay, Nothing}
    BY DEF MoveFails, MoveSucceeds, Archived, ArchiveFails, boardScreen
<1>7. fetching' \in {fetching, NotFetching, ListAsked}
    BY DEF MoveFails, MoveSucceeds, Archived, ArchiveFails, Invalidated, cache
<1>8. \E c \in {over, failed} : moves' = [moves EXCEPT ![m] = c]
    BY <1>1 DEF MoveFails, MoveSucceeds, Archived, ArchiveFails, MoveOver
<1>9. list' = list \/ \E v \in Views, l \in Lists : list' = [list EXCEPT ![v] = l]
  <2>1. moves[m].key \in Views /\ moves[m].previous \in Lists
      BY DataStays, MoveFields
  <2>2. list' = list \/ list' = [list EXCEPT ![moves[m].key] = moves[m].previous]
      BY DEF MoveFails, MoveSucceeds, Archived, ArchiveFails, cache
  <2>3. QED
      BY <2>1, <2>2
<1>10. QED
    BY <1>2, <1>3, <1>4, <1>5, <1>6, <1>7, <1>8, <1>9, OneMoveData

\* Every step keeps the types.
LEMMA StepBoardData == BoardInv /\ BoardData /\ [BoardNext]_boardVars => BoardData'
<1> SUFFICES ASSUME BoardInv, BoardData, [BoardNext]_boardVars PROVE DataMoves
    BY StepBoard, StepData
<1>1. CASE \/ ServeList \/ ListArrives \/ ListFails \/ RefetchList
           \/ \E v \in Views \cup {"away"} : selectBoardView(v)
           \/ \E d \in Deals : dragStart(d) \/ openActions(d)
           \/ dragCancel \/ closeOverlay
           \/ UNCHANGED boardVars
    BY <1>1, PageData
<1>2. CASE \E m \in Moves :
             \/ \E s \in Stages, over \in Deals \cup {0} : dragEnd(m, s, over)
             \/ DealMoveAPIView(m) \/ move_deal(m) \/ MoveLost(m) \/ MoveFails(m)
             \/ MoveSucceeds(m) \/ toggleArchive(m) \/ DealArchiveAPIView(m)
             \/ Archived(m) \/ ArchiveFails(m)
    BY <1>2, DropData, MoveViewData, ArchiveData, SettledData
<1>3. QED
    BY <1>1, <1>2 DEF BoardNext

\* The two invariants of the board together.
THEOREM BoardDataInvariance == BoardSpec => [](BoardInv /\ BoardData)
BY InitBoard, InitData, StepBoard, StepBoardData, PTL DEF BoardSpec

\* The types of the board, whatever moves, rollbacks and archives overlap.
THEOREM BoardTypes == BoardSpec => []BoardTypeOK
<1>1. BoardData => BoardTypeOK
    BY DEF BoardData
<1>2. QED
    BY <1>1, BoardDataInvariance, PTL

(***************************************************************************)
(* Where a card is shown after a drop on a board that is as the server     *)
(* sent it, and where the server puts the deal: the page's lane is the     *)
(* server's, deal by deal.                                                 *)
(***************************************************************************)

\* The last place of a deal.
LEMMA LastPlace ==
    ASSUME NEW l \in Lists, NEW x, NEW i \in DOMAIN l, l[i].deal = x,
           \A j \in DOMAIN l : l[j].deal = x => j <= i
    PROVE  LastOf(l, x) = i
<1>1. x \in On(l)
    BY DEF On
<1>2. /\ LastOf(l, x) \in DOMAIN l /\ l[LastOf(l, x)].deal = x
      /\ i <= LastOf(l, x)
    BY <1>1, FirstAndLast
<1>3. LastOf(l, x) <= i
    BY <1>2
<1>4. DOMAIN l = 1..Len(l) /\ Len(l) \in Nat
    BY DEF Lists
<1>5. LastOf(l, x) \in Int /\ i \in Int
    BY <1>2, <1>4
<1>6. QED
    BY ONLY <1>2, <1>3, <1>5

\* The list without the card that is dragged: the other deals, once each, in
\* the server's order.
LEMMA OthersOfTheAnswer ==
    ASSUME rows \in [Deals -> Row], NEW d \in Selected("active", rows)
    PROVE  LET l == Listed("active")
               o == Without(l, d)
               A == Selected("active", rows)
           IN  /\ d \in On(l) /\ o \in Lists /\ Len(o) \in Nat /\ DOMAIN o = 1..Len(o)
               /\ \A i \in 1..Len(o) : /\ o[i].deal \in A \ {d}
                                       /\ o[i].stage = rows[o[i].deal].stage
                                       /\ o[i].order = rows[o[i].deal].order
               /\ \A i, j \in 1..Len(o) : i < j => Before(rows, o[i].deal, o[j].deal)
               /\ \A i, j \in 1..Len(o) : o[i].deal = o[j].deal => i = j
               /\ \A x \in A \ {d} : \E i \in 1..Len(o) : o[i].deal = x
<1>1. PICK A, n, ids, l, o :
          /\ A = Selected("active", rows) /\ n = Cardinality(A) /\ ids = Sorted(A, rows)
          /\ l = Listed("active") /\ o = Without(l, d)
    OBVIOUS
<1>2. /\ A \in SUBSET Deals /\ n \in Nat /\ l \in Lists /\ DOMAIN l = 1..n
      /\ ids \in [1..n -> A]
    BY <1>1, ListedCards
<1>3. \A i \in 1..n : /\ l[i].deal = ids[i]
                      /\ l[i].stage = rows[ids[i]].stage
                      /\ l[i].order = rows[ids[i]].order
    BY <1>1, ListedCards
<1>4. /\ \A i, j \in 1..n : Before(rows, ids[i], ids[j]) <=> i < j
      /\ \A x \in A : \E i \in 1..n : ids[i] = x
      /\ \A i, j \in 1..n : ids[i] = ids[j] => i = j
    BY <1>1, ListedCards
<1>5. d \in On(l)
    BY <1>1, <1>2, <1>3, <1>4 DEF On
<1>6. PICK k, places :
          /\ k = Cardinality(OthersIn(l, d))
          /\ places = Arranged(OthersIn(l, d), Ascending(OthersIn(l, d)))
    OBVIOUS
<1>7. /\ k \in Nat /\ o \in Lists /\ Len(o) = k /\ DOMAIN o = 1..k
      /\ places \in [1..k -> OthersIn(l, d)]
    BY <1>1, <1>2, <1>6, WithoutADeal
<1>8. \A i \in 1..k : o[i] = l[places[i]]
    BY <1>1, <1>2, <1>6, WithoutADeal
<1>9. \A i, j \in 1..k : i < j => places[i] < places[j]
    BY <1>1, <1>2, <1>6, WithoutADeal
<1>10. \A p \in OthersIn(l, d) : \E i \in 1..k : places[i] = p
    BY <1>1, <1>2, <1>6, WithoutADeal
<1>11. \A p \in 1..n : p \in OthersIn(l, d) <=> ids[p] # d
    BY <1>2, <1>3 DEF OthersIn
<1>12. OthersIn(l, d) \subseteq 1..n
    BY <1>2 DEF OthersIn
<1>13. \A i \in 1..k : places[i] \in 1..n /\ ids[places[i]] \in A \ {d}
    BY <1>2, <1>7, <1>11, <1>12
<1>14. \A i \in 1..k : /\ o[i].deal = ids[places[i]]
                       /\ o[i].deal \in A \ {d}
                       /\ o[i].stage = rows[o[i].deal].stage
                       /\ o[i].order = rows[o[i].deal].order
    BY <1>3, <1>8, <1>13
<1>15. \A i, j \in 1..k : i < j => Before(rows, o[i].deal, o[j].deal)
  <2> SUFFICES ASSUME NEW i \in 1..k, NEW j \in 1..k, i < j
               PROVE  Before(rows, o[i].deal, o[j].deal)
      OBVIOUS
  <2>1. Before(rows, ids[places[i]], ids[places[j]])
      BY <1>4, <1>9, <1>13
  <2>2. QED
      BY <1>14, <2>1
<1>16. \A i, j \in 1..k : o[i].deal = o[j].deal => i = j
  <2> SUFFICES ASSUME NEW i \in 1..k, NEW j \in 1..k, o[i].deal = o[j].deal PROVE i = j
      OBVIOUS
  <2>1. places[i] = places[j] /\ places[i] \in Int
      BY <1>4, <1>13, <1>14
  <2>2. ~(places[i] < places[j]) /\ ~(places[j] < places[i])
      BY ONLY <2>1
  <2>3. ~(i < j) /\ ~(j < i)
      BY <1>9, <2>2
  <2>4. QED
      BY <1>7, <2>3
<1>17. ASSUME NEW x \in A \ {d} PROVE \E i \in 1..k : o[i].deal = x
  <2>1. PICK p \in 1..n : ids[p] = x
      BY <1>4
  <2>2. PICK i \in 1..k : places[i] = p
      BY <1>10, <1>11, <2>1
  <2>3. QED
      BY <1>14, <2>1, <2>2
<1>18. QED
    BY <1>1, <1>5, <1>7, <1>14, <1>15, <1>16, <1>17

\* The page's lane without that card is the server's without the deal.
LEMMA SameLane ==
    ASSUME rows \in [Deals -> Row], NEW m, m.deal \in Selected("active", rows),
           m.position \in Nat
    PROVE  LET q == laneDeals(Without(Listed("active"), m.deal), m.stage)
               ids == Sorted(Target(rows, m), rows)
           IN  Len(q) = Len(ids) /\ DOMAIN q = DOMAIN ids /\ \A i \in DOMAIN q : q[i].deal = ids[i]
<1>1. PICK d, s, A, o, T :
          /\ d = m.deal /\ s = m.stage /\ A = Selected("active", rows)
          /\ o = Without(Listed("active"), d) /\ T = Target(rows, m)
    OBVIOUS
<1>2. /\ o \in Lists /\ Len(o) \in Nat /\ DOMAIN o = 1..Len(o)
      /\ \A i \in 1..Len(o) : /\ o[i].deal \in A \ {d}
                              /\ o[i].stage = rows[o[i].deal].stage
                              /\ o[i].order = rows[o[i].deal].order
    BY <1>1, OthersOfTheAnswer
<1>3. /\ \A i, j \in 1..Len(o) : i < j => Before(rows, o[i].deal, o[j].deal)
      /\ \A i, j \in 1..Len(o) : o[i].deal = o[j].deal => i = j
    BY <1>1, OthersOfTheAnswer
<1>4. \A x \in A \ {d} : \E i \in 1..Len(o) : o[i].deal = x
  <2>1. d \in Selected("active", rows) /\ rows \in [Deals -> Row]
      BY <1>1
  <2>2. \A x \in Selected("active", rows) \ {d} :
          \E i \in 1..Len(Without(Listed("active"), d)) :
            Without(Listed("active"), d)[i].deal = x
      BY ONLY <2>1, OthersOfTheAnswer
  <2>3. QED
      BY ONLY <1>1, <2>2
<1>5. T = {x \in A \ {d} : rows[x].stage = s}
    BY <1>1 DEF Target
<1>6. /\ IsFiniteSet(T) /\ IsOrder(T, OrderOf(rows, T)) /\ d \in Deals
      /\ Len(Sorted(T, rows)) = Cardinality(T)
  <2>1. d \in Deals
      BY <1>1 DEF Selected
  <2>2. QED
      BY <1>1, <2>1, ServerLane
<1> DEFINE P == PlacesIn(o, s)
           n == Cardinality(P)
           Q == OrderOf(o, P)
           a == Arranged(P, Q)
           q == laneDeals(o, s)
           f == [i \in P |-> o[i].deal]
<1>7. \A i \in P : /\ i \in 1..Len(o) /\ o[i].deal \in T
                   /\ o[i].order = rows[o[i].deal].order
    BY <1>2, <1>5 DEF PlacesIn
<1>8. ASSUME NEW x \in T PROVE \E i \in P : o[i].deal = x
    BY <1>2, <1>4, <1>5 DEF PlacesIn
<1>9. /\ IsFiniteSet(P) /\ IsOrder(P, Q) /\ q \in Lists /\ Len(q) = n /\ n \in Nat
  <2>1. o \in Lists
      BY <1>2
  <2>2. IsFiniteSet(P)
      BY <2>1, LaneOfTheList
  <2>3. IsOrder(P, Q)
      BY <2>1, LaneOfTheList
  <2>4. q \in Lists /\ Len(q) = n /\ n \in Nat
      BY <2>1, LaneOfTheList
  <2>5. QED
      BY ONLY <2>2, <2>3, <2>4
<1>10. q = Picked(o, P, Q)
    BY DEF laneDeals, PlacesIn
<1>11. \A i, j \in P : <<i, j>> \in Q => Before(o, i, j)
    BY DEF OrderOf
<1> HIDE DEF P, Q, q
<1>12. n = Cardinality(T)
  <2>1. f \in Bijection(P, T)
    <3>1. f \in [P -> T] /\ \A i \in P : f[i] = o[i].deal
        BY <1>7
    <3>2. \A i, j \in P : f[i] = f[j] => i = j
        BY <1>3, <1>7, <3>1
    <3>3. \A x \in T : \E i \in P : f[i] = x
        BY <1>8, <3>1
    <3> HIDE DEF f
    <3>4. f \in Injection(P, T) /\ f \in Surjection(P, T)
        BY <3>1, <3>2, <3>3 DEF Injection, IsInjective, Surjection
    <3>5. QED
        BY <3>4 DEF Bijection
  <2> HIDE DEF f
  <2>2. ExistsBijection(P, T)
      BY <2>1 DEF ExistsBijection
  <2>3. QED
      BY <1>6, <1>9, <2>2, FS_Bijection
<1>13. /\ DOMAIN a = 1..n /\ a \in [1..n -> P]
       /\ \A i, j \in 1..n : <<a[i], a[j]>> \in Q <=> i < j
    BY <1>9, ArrangedInOrder
<1> HIDE DEF a, n
<1>14. DOMAIN q = 1..n /\ \A i \in 1..n : q[i] = o[a[i]]
  <2>1. q = [i \in DOMAIN a |-> o[a[i]]]
      BY <1>10 DEF Picked, a
  <2>2. QED
      BY <1>13, <2>1
<1>15. PICK sd : sd = [i \in 1..n |-> o[a[i]].deal]
    OBVIOUS
<1>16. sd \in [1..n -> T]
    BY <1>7, <1>13, <1>15
<1>17. ASSUME NEW i \in 1..n, NEW j \in 1..n, i < j
       PROVE  <<sd[i], sd[j]>> \in OrderOf(rows, T)
  <2>1. PICK b, c : b = a[i] /\ c = a[j]
      OBVIOUS
  <2>2. b \in P /\ c \in P /\ <<b, c>> \in Q
      BY <1>13, <1>17, <2>1
  <2>3. /\ sd[i] = o[b].deal /\ sd[j] = o[c].deal /\ sd[i] \in T /\ sd[j] \in T
        /\ b \in 1..Len(o) /\ c \in 1..Len(o)
        /\ o[b].order = rows[sd[i]].order /\ o[c].order = rows[sd[j]].order
      BY <1>7, <1>15, <2>1, <2>2
  <2>4. o[b].order < o[c].order \/ (o[b].order = o[c].order /\ b < c)
      BY <1>11, <2>2 DEF Before
  <2>5. Before(rows, sd[i], sd[j])
    <3>1. CASE o[b].order < o[c].order
        BY <2>3, <3>1 DEF Before
    <3>2. CASE b < c
        BY <1>3, <2>3, <3>2
    <3>3. QED
        BY <2>4, <3>1, <3>2
  <2>6. QED
      BY <2>3, <2>5 DEF OrderOf
<1>18. sd = Sorted(T, rows)
  <2>1. PICK O : O = OrderOf(rows, T)
      OBVIOUS
  <2>2. /\ IsFiniteSet(T) /\ IsOrder(T, O) /\ sd \in [1..Cardinality(T) -> T]
        /\ \A i, j \in 1..Cardinality(T) : i < j => <<sd[i], sd[j]>> \in O
      BY <1>6, <1>12, <1>16, <1>17, <2>1
  <2>3. sd = Arranged(T, O)
      BY ONLY <2>2, ArrangedIsTheOne
  <2>4. QED
      BY <2>1, <2>3 DEF Sorted
<1>19. DOMAIN sd = 1..n /\ \A i \in 1..n : q[i].deal = sd[i]
    BY <1>14, <1>15
<1>20. Len(q) = Len(Sorted(T, rows)) /\ DOMAIN q = DOMAIN Sorted(T, rows)
       /\ \A i \in DOMAIN q : q[i].deal = Sorted(T, rows)[i]
    BY <1>6, <1>9, <1>12, <1>14, <1>18, <1>19
<1>21. QED
    BY <1>1, <1>20 DEF q

\* The page's lane with the card is the server's with the deal.
LEMMA SamePlaces ==
    ASSUME rows \in [Deals -> Row], NEW m, m.deal \in Selected("active", rows),
           m.position \in Nat, m.stage \in Stages
    PROVE  LET t == Destination(Listed("active"), m.deal, m.stage, m.position)
               lane == Reordered(rows, m)
           IN  /\ DOMAIN t = DOMAIN lane /\ \A i \in DOMAIN t : t[i].deal = lane[i]
<1>1. PICK l, d, s, q, ids, c, k, t, lane :
          /\ l = Listed("active") /\ d = m.deal /\ s = m.stage
          /\ q = laneDeals(Without(l, d), s) /\ ids = Sorted(Target(rows, m), rows)
          /\ c = [l[FirstOf(l, d)] EXCEPT !.stage = s]
          /\ k = Least(m.position, Len(q))
          /\ t = InsertedAt(q, k, c) /\ lane = Reordered(rows, m)
    OBVIOUS
<1>2. Len(q) = Len(ids) /\ DOMAIN q = DOMAIN ids /\ \A i \in DOMAIN q : q[i].deal = ids[i]
    BY <1>1, SameLane
<1>3. d \in Deals /\ s \in Stages
    BY <1>1 DEF Selected
<1>4. l \in Lists /\ d \in On(l) /\ Without(l, d) \in Lists
    BY <1>1, OthersOfTheAnswer, ListedCards
<1>5. q \in Lists
    BY <1>1, <1>4, LaneOfTheList
<1>6. q \in Seq(Card) /\ Len(q) \in Nat /\ DOMAIN q = 1..Len(q)
    BY <1>5 DEF Lists, Card
<1>7. c \in Card /\ c.deal = d
    BY <1>1, <1>3, <1>4, MovingCard
<1>8. k \in 0..Len(q)
    BY <1>1, <1>6 DEF Least
<1>9. /\ DOMAIN t = 1..(Len(q) + 1)
      /\ \A j \in 1..k : t[j] = q[j]
      /\ t[k + 1] = c
      /\ \A j \in (k + 2)..(Len(q) + 1) : t[j] = q[j - 1]
  <2>1. DOMAIN InsertedAt(q, k, c) = 1..(Len(q) + 1)
      BY <1>6, <1>7, <1>8, InsertedByElements
  <2>2. \A j \in 1..k : InsertedAt(q, k, c)[j] = q[j]
      BY <1>6, <1>7, <1>8, InsertedByElements
  <2>3. InsertedAt(q, k, c)[k + 1] = c
      BY <1>6, <1>7, <1>8, InsertedByElements
  <2>4. \A j \in (k + 2)..(Len(q) + 1) : InsertedAt(q, k, c)[j] = q[j - 1]
      BY <1>6, <1>7, <1>8, InsertedByElements
  <2>5. t = InsertedAt(q, k, c)
      BY <1>1
  <2>6. QED
      BY ONLY <2>1, <2>2, <2>3, <2>4, <2>5
<1>10. ids \in Seq(Deals) /\ k \in 0..Len(ids) /\ lane = InsertedAt(ids, k, d)
  <2>1. ids \in Seq(Deals)
      BY <1>1, <1>3, ServerLane
  <2>2. lane = InsertedAt(ids, Least(m.position, Len(ids)), m.deal)
      BY <1>1, <1>3, ServerLane
  <2>3. QED
      BY <1>1, <1>2, <1>8, <2>1, <2>2
<1>11. /\ DOMAIN lane = 1..(Len(ids) + 1)
       /\ \A j \in 1..k : lane[j] = ids[j]
       /\ lane[k + 1] = d
       /\ \A j \in (k + 2)..(Len(ids) + 1) : lane[j] = ids[j - 1]
  <2>1. DOMAIN InsertedAt(ids, k, d) = 1..(Len(ids) + 1)
      BY <1>3, <1>10, InsertedByElements
  <2>2. \A j \in 1..k : InsertedAt(ids, k, d)[j] = ids[j]
      BY <1>3, <1>10, InsertedByElements
  <2>3. InsertedAt(ids, k, d)[k + 1] = d
      BY <1>3, <1>10, InsertedByElements
  <2>4. \A j \in (k + 2)..(Len(ids) + 1) : InsertedAt(ids, k, d)[j] = ids[j - 1]
      BY <1>3, <1>10, InsertedByElements
  <2>5. QED
      BY ONLY <1>10, <2>1, <2>2, <2>3, <2>4
<1>12. ASSUME NEW j \in DOMAIN t PROVE t[j].deal = lane[j]
  <2>1. \/ j \in 1..k /\ j \in DOMAIN q
        \/ j = k + 1
        \/ j \in (k + 2)..(Len(q) + 1) /\ j - 1 \in DOMAIN q
      BY ONLY <1>6, <1>8, <1>9
  <2>2. QED
      BY <1>2, <1>7, <1>9, <1>11, <2>1
<1>13. DOMAIN t = DOMAIN lane
    BY <1>2, <1>9, <1>11
<1>14. t = Destination(l, d, s, m.position)
    BY <1>1 DEF Destination
<1>15. QED
    BY <1>1, <1>12, <1>13, <1>14

\* A deal is on the list once at most.
OnceEach(l) == \A i, j \in DOMAIN l : l[i].deal = l[j].deal => i = j

\* The last card of a deal shows its place in the lane t, or is the one in o.
LaneShown(w, t) ==
    \A i \in DOMAIN t : /\ w[LastOf(w, t[i].deal)].stage = t[i].stage
                        /\ w[LastOf(w, t[i].deal)].order = i - 1
OthersShown(w, o, t) ==
    \A i \in DOMAIN o : o[i].deal \notin On(t) => w[LastOf(w, o[i].deal)] = o[i]

\* Where the cards are in a list of others and a numbered lane: a deal of the
\* lane at its place there, the others at their own.
LEMMA ShownPlaces ==
    ASSUME NEW o \in Lists, NEW t \in Lists, NEW w, w = o \o Numbered(t),
           OnceEach(o), OnceEach(t)
    PROVE  LaneShown(w, t) /\ OthersShown(w, o, t)
<1>1. PICK u, n, k : u = Numbered(t) /\ n = Len(t) /\ k = Len(o)
    OBVIOUS
<1>2. /\ u \in Lists /\ Len(u) = n /\ n \in Nat /\ k \in Nat
      /\ DOMAIN o = 1..k /\ DOMAIN t = 1..n /\ DOMAIN u = 1..n
  <2>1. u \in Lists /\ Len(u) = Len(t)
      BY <1>1, NumberedCards
  <2>2. QED
      BY <1>1, <2>1 DEF Lists
<1>3. \A i \in 1..n : /\ u[i].deal = t[i].deal /\ u[i].stage = t[i].stage
                      /\ u[i].order = LastOf(t, t[i].deal) - 1
  <2>1. \A i \in DOMAIN t : /\ Numbered(t)[i].deal = t[i].deal
                            /\ Numbered(t)[i].stage = t[i].stage
                            /\ Numbered(t)[i].order = LastOf(t, t[i].deal) - 1
      BY NumberedCards
  <2>2. QED
      BY ONLY <1>1, <1>2, <2>1
<1>4. /\ w \in Lists /\ DOMAIN w = 1..(k + n)
      /\ \A i \in 1..k : w[i] = o[i]
      /\ \A i \in (k + 1)..(k + n) : w[i] = u[i - k]
  <2>1. Lists = Seq(Card)
      BY DEF Lists, Card
  <2>2. o \in Seq(Card) /\ u \in Seq(Card) /\ w = o \o u /\ Len(u) = n /\ Len(o) = k
      BY <1>1, <1>2, <2>1
  <2>3. w \in Seq(Card) /\ Len(w) = k + n
    <3>1. o \o u \in Seq(Card)
        BY ONLY <2>2
    <3>2. Len(o \o u) = Len(o) + Len(u)
      <4>1. o \in Seq(Card) /\ u \in Seq(Card)
          BY <2>2
      <4>2. QED
          BY ONLY <4>1
    <3>3. QED
        BY ONLY <2>2, <3>1, <3>2
  <2>4. \A i \in 1..k : w[i] = o[i]
      BY ONLY <1>2, <2>2
  <2>5. \A i \in (k + 1)..(k + n) : w[i] = u[i - k]
    <3>1. /\ o \in Seq(Card) /\ u \in Seq(Card) /\ Len(u) = n /\ Len(o) = k
          /\ n \in Nat /\ k \in Nat
        BY <1>2, <2>2
    <3>2. \A i \in (k + 1)..(k + n) : (o \o u)[i] = u[i - k]
        BY ONLY <3>1
    <3>3. QED
        BY ONLY <2>2, <3>2
  <2>6. DOMAIN w = 1..(k + n)
      BY ONLY <2>3
  <2>7. QED
      BY ONLY <2>1, <2>3, <2>4, <2>5, <2>6
<1>5. ASSUME NEW i \in DOMAIN t
      PROVE  /\ w[LastOf(w, t[i].deal)].stage = t[i].stage
             /\ w[LastOf(w, t[i].deal)].order = i - 1
  <2>1. LastOf(t, t[i].deal) = i
    <3>1. \A j \in DOMAIN t : t[j].deal = t[i].deal => j <= i
        BY <1>2 DEF OnceEach
    <3>2. QED
        BY <3>1, LastPlace
  <2>2. k + i \in DOMAIN w /\ w[k + i] = u[i] /\ w[k + i].deal = t[i].deal
    <3>1. k + i \in (k + 1)..(k + n) /\ (k + i) - k = i /\ i \in 1..n
        BY ONLY <1>2, i \in DOMAIN t
    <3>2. w[k + i] = u[i]
        BY ONLY <1>4, <3>1
    <3>3. k + i \in 1..(k + n)
        BY ONLY <1>2, <3>1
    <3>4. QED
        BY <1>3, <1>4, <3>1, <3>2, <3>3
  <2>3. ASSUME NEW j \in DOMAIN w, w[j].deal = t[i].deal PROVE j <= k + i
    <3>1. CASE j \in 1..k
        BY <1>2, <3>1
    <3>2. CASE j \in (k + 1)..(k + n)
      <4>1. j - k \in 1..n /\ w[j] = u[j - k]
          BY ONLY <1>2, <1>4, <3>2
      <4>2. t[j - k].deal = t[i].deal
          BY <1>3, <2>3, <4>1
      <4>3. j - k = i
          BY <1>2, <4>1, <4>2 DEF OnceEach
      <4>4. j \in Int /\ i \in Int
          BY <1>2, <3>2
      <4>5. QED
          BY ONLY <1>2, <4>3, <4>4
    <3>3. QED
        BY <1>2, <1>4, <3>1, <3>2
  <2>4. LastOf(w, t[i].deal) = k + i
    <3>1. PICK p, x : p = k + i /\ x = t[i].deal
        OBVIOUS
    <3>2. p \in DOMAIN w /\ w[p].deal = x /\ \A j \in DOMAIN w : w[j].deal = x => j <= p
        BY <2>2, <2>3, <3>1
    <3>3. w \in Lists
        BY <1>4
    <3>4. LastOf(w, x) = p
        BY ONLY <3>2, <3>3, LastPlace
    <3>5. QED
        BY <3>1, <3>4
  <2>5. i \in 1..n
      BY <1>2
  <2>6. QED
      BY <1>3, <2>1, <2>2, <2>4, <2>5
<1>6. ASSUME NEW i \in DOMAIN o, o[i].deal \notin On(t)
      PROVE  w[LastOf(w, o[i].deal)] = o[i]
  <2>1. i \in DOMAIN w /\ w[i] = o[i]
      BY <1>2, <1>4
  <2>2. ASSUME NEW j \in DOMAIN w, w[j].deal = o[i].deal PROVE j <= i
    <3>1. CASE j \in 1..k
      <4>1. o[j].deal = o[i].deal /\ j \in DOMAIN o
          BY <1>2, <1>4, <2>2, <3>1
      <4>2. j = i /\ i \in Int
          BY <1>2, <4>1 DEF OnceEach
      <4>3. QED
          BY ONLY <4>2
    <3>2. CASE j \in (k + 1)..(k + n)
      <4>1. j - k \in 1..n /\ w[j] = u[j - k]
          BY ONLY <1>2, <1>4, <3>2
      <4>2. t[j - k].deal = o[i].deal /\ j - k \in DOMAIN t
          BY <1>2, <1>3, <2>2, <4>1
      <4>3. QED
          BY <1>6, <4>2 DEF On
    <3>3. QED
        BY <1>2, <1>4, <3>1, <3>2
  <2>3. LastOf(w, o[i].deal) = i
    <3>1. PICK x : x = o[i].deal
        OBVIOUS
    <3>2. i \in DOMAIN w /\ w[i].deal = x /\ \A j \in DOMAIN w : w[j].deal = x => j <= i
        BY <2>1, <2>2, <3>1
    <3>3. w \in Lists
        BY <1>4
    <3>4. LastOf(w, x) = i
        BY ONLY <3>2, <3>3, LastPlace
    <3>5. QED
        BY <3>1, <3>4
  <2>4. QED
      BY <2>1, <2>3
<1>7. QED
    BY <1>5, <1>6 DEF LaneShown, OthersShown

\* Every active deal is shown in the stage and the place that it gets.
LEMMA ShownIsServed ==
    ASSUME rows \in [Deals -> Row], NEW m \in Move, m.deal \in Selected("active", rows),
           m.previous = Listed("active"), m.copy = rows[m.deal]
    PROVE  LET drawn == Optimistic(m.previous, m.deal, m.stage, m.position)
               next == Renumbered(rows, m)
           IN  \A x \in Selected("active", rows) :
                 /\ drawn[LastOf(drawn, x)].stage = next[x].stage
                 /\ drawn[LastOf(drawn, x)].order = next[x].order
<1>1. PICK l, d, s, A, o, t, w, lane, next :
          /\ l = Listed("active") /\ d = m.deal /\ s = m.stage
          /\ A = Selected("active", rows) /\ o = Without(l, d)
          /\ t = Destination(l, d, s, m.position)
          /\ w = Optimistic(l, d, s, m.position)
          /\ lane = Reordered(rows, m) /\ next = Renumbered(rows, m)
    OBVIOUS
<1>2. m.position \in Nat /\ s \in Stages /\ d \in Deals
    BY <1>1, MoveFields DEF Selected
<1>3. /\ d \in On(l) /\ o \in Lists /\ DOMAIN o = 1..Len(o)
      /\ \A i \in DOMAIN o : /\ o[i].deal \in A \ {d}
                             /\ o[i].stage = rows[o[i].deal].stage
                             /\ o[i].order = rows[o[i].deal].order
    BY <1>1, OthersOfTheAnswer
<1>4. OnceEach(o)
    BY <1>1, <1>3, OthersOfTheAnswer DEF OnceEach
<1>5. \A x \in A \ {d} : \E i \in DOMAIN o : o[i].deal = x
    BY <1>1, <1>3, OthersOfTheAnswer
<1>6. l \in Lists
    BY <1>1, ListedCards
<1>7. t \in Lists /\ w = o \o Numbered(t) /\ \A i \in DOMAIN t : t[i].stage = s
  <2>1. t \in Lists
      BY <1>1, <1>2, <1>3, <1>6, OptimisticByParts
  <2>2. w = o \o Numbered(t)
    <3>1. d \in On(l) /\ m.position \in Nat
        BY <1>2, <1>3
    <3>2. PICK z : z = m.position
        OBVIOUS
    <3>3. l \in Lists /\ d \in On(l) /\ s \in Stages /\ z \in Nat
        BY <1>2, <1>6, <3>1, <3>2
    <3>4. Optimistic(l, d, s, z) = Without(l, d) \o Numbered(Destination(l, d, s, z))
        BY ONLY <3>3, OptimisticByParts
    <3>5. QED
        BY ONLY <1>1, <3>2, <3>4
  <2>3. \A i \in DOMAIN t : t[i].stage = s
      BY <1>1, <1>2, <1>3, <1>6, OptimisticByParts
  <2>4. QED
      BY <2>1, <2>2, <2>3
<1>8. DOMAIN t = DOMAIN lane /\ \A i \in DOMAIN t : t[i].deal = lane[i]
    BY <1>1, <1>2, SamePlaces
<1>9. \A i, j \in DOMAIN lane : lane[i] = lane[j] => i = j
    BY <1>1, <1>2, ServerLane
<1>10. OnceEach(t)
    BY <1>8, <1>9 DEF OnceEach
<1>11. Range(lane) = Target(rows, m) \cup {d}
    BY <1>1, <1>2, ServerLane
<1>12. On(t) = Range(lane)
    BY <1>8 DEF On, Range
<1>13. \A x \in Deals \ Range(lane) : next[x] = rows[x]
    BY <1>1, <1>2, RenumberedRows
<1>14. \A i \in DOMAIN lane : next[lane[i]].stage = s /\ next[lane[i]].order = i - 1
    BY <1>1, <1>2, RenumberedRows
<1>15. /\ o \in Lists /\ t \in Lists /\ w = o \o Numbered(t)
       /\ OnceEach(o) /\ OnceEach(t)
    BY <1>3, <1>4, <1>7, <1>10
<1>16. LaneShown(w, t) /\ OthersShown(w, o, t)
    BY ONLY <1>15, ShownPlaces
<1>17. ASSUME NEW x \in A
       PROVE  w[LastOf(w, x)].stage = next[x].stage /\ w[LastOf(w, x)].order = next[x].order
  <2>1. CASE x \in Range(lane)
    <3>1. PICK i \in DOMAIN lane : lane[i] = x
        BY <2>1 DEF Range
    <3>2. i \in DOMAIN t /\ t[i].deal = x /\ t[i].stage = s
        BY <1>7, <1>8, <3>1
    <3>3. w[LastOf(w, x)].stage = s /\ w[LastOf(w, x)].order = i - 1
        BY <1>16, <3>2 DEF LaneShown
    <3>4. QED
        BY <1>14, <3>1, <3>3
  <2>2. CASE x \notin Range(lane)
    <3>1. x \in A \ {d} /\ x \in Deals
        BY <1>1, <1>11, <2>2 DEF Selected
    <3>2. PICK i \in DOMAIN o : o[i].deal = x
        BY <1>5, <3>1
    <3>3. o[i].deal \notin On(t)
        BY <1>12, <2>2, <3>2
    <3>4. w[LastOf(w, x)] = o[i]
      <4>1. w[LastOf(w, o[i].deal)] = o[i]
          BY <1>16, <3>3 DEF OthersShown
      <4>2. QED
          BY <3>2, <4>1
    <3>5. QED
        BY <1>3, <1>13, <2>2, <3>1, <3>2, <3>4
  <2>3. QED
      BY <2>1, <2>2
<1>18. QED
    BY <1>1, <1>17

\* A step on one mutation leaves the others alone.
LEMMA OneAtATime ==
    ASSUME BoardData, NEW m \in Moves,
           \/ \E s \in Stages, over \in Deals \cup {0} : dragEnd(m, s, over)
           \/ DealMoveAPIView(m) \/ move_deal(m) \/ MoveLost(m) \/ MoveFails(m)
           \/ MoveSucceeds(m) \/ toggleArchive(m) \/ DealArchiveAPIView(m)
           \/ Archived(m) \/ ArchiveFails(m)
    PROVE  \A n \in Moves : n # m => moves'[n] = moves[n]
<1>1. moves \in [Moves -> Move]
    BY DataStays
<1>2. ASSUME NEW c, moves' = [moves EXCEPT ![m] = c]
      PROVE  \A n \in Moves : n # m => moves'[n] = moves[n]
    BY <1>1, <1>2
<1>3. ASSUME NEW s, NEW over, dragEnd(m, s, over)
      PROVE  moves' = moves \/ \E c : moves' = [moves EXCEPT ![m] = c]
    BY <1>3 DEF dragEnd
<1>4. CASE DealMoveAPIView(m)
  <2>1. PICK c, r : c = [moves[m] EXCEPT !.at = "refused"]
                    /\ r = [moves[m] EXCEPT !.at = "read", !.copy = rows[moves[m].deal]]
      OBVIOUS
  <2>2. moves' = [moves EXCEPT ![m] = c] \/ moves' = [moves EXCEPT ![m] = r]
      BY <1>4, <2>1 DEF DealMoveAPIView
  <2>3. QED
      BY <1>2, <2>2
<1>5. CASE move_deal(m) \/ MoveLost(m)
  <2>1. PICK c, r : c = [moves[m] EXCEPT !.at = "refused"]
                    /\ r = [moves[m] EXCEPT !.at = "moved"]
      OBVIOUS
  <2>2. moves' = [moves EXCEPT ![m] = c] \/ moves' = [moves EXCEPT ![m] = r]
      BY <1>5, <2>1 DEF move_deal, MoveLost
  <2>3. QED
      BY <1>2, <2>2
<1>6. CASE MoveFails(m) \/ MoveSucceeds(m) \/ Archived(m) \/ ArchiveFails(m)
  <2>1. PICK c, r : c = [NoMove EXCEPT !.at = "over"] /\ r = [NoMove EXCEPT !.at = "failed"]
      OBVIOUS
  <2>2. moves' = [moves EXCEPT ![m] = c] \/ moves' = [moves EXCEPT ![m] = r]
      BY <1>6, <2>1 DEF MoveFails, MoveSucceeds, Archived, ArchiveFails, MoveOver
  <2>3. QED
      BY <1>2, <2>2
<1>7. CASE toggleArchive(m)
  <2>1. PICK c : c = [moves[m] EXCEPT !.at = "sent", !.kind = "archive", !.deal = overlay.deal]
      OBVIOUS
  <2>2. moves' = [moves EXCEPT ![m] = c]
      BY <1>7, <2>1 DEF toggleArchive
  <2>3. QED
      BY <1>2, <2>2
<1>8. CASE DealArchiveAPIView(m)
  <2>1. PICK c, r : c = [moves[m] EXCEPT !.at = "moved"]
                    /\ r = [moves[m] EXCEPT !.at = "read", !.copy = rows[moves[m].deal]]
      OBVIOUS
  <2>2. moves' = [moves EXCEPT ![m] = c] \/ moves' = [moves EXCEPT ![m] = r]
      BY <1>8, <2>1 DEF DealArchiveAPIView
  <2>3. QED
      BY <1>2, <2>2
<1>9. QED
  <2>1. CASE \E s \in Stages, over \in Deals \cup {0} : dragEnd(m, s, over)
      BY <1>2, <1>3, <2>1
  <2>2. QED
      BY <1>4, <1>5, <1>6, <1>7, <1>8, <2>1

\* Only move_deal carries a move out.
LEMMA OnlyMoveDealMoves ==
    ASSUME BoardData, [BoardNext]_boardVars, NEW m \in Moves,
           moves[m].kind = "move", moves[m].at = "read", moves'[m].at = "moved"
    PROVE  move_deal(m)
<1>1. moves'[m] # moves[m] /\ "moved" # "read"
    OBVIOUS
<1>2. ASSUME NEW v \in Views \cup {"away"}, selectBoardView(v) PROVE FALSE
  <2>1. moves' = moves \/ (latest # "none" /\ v # "away" /\ moves' = [moves EXCEPT ![latest].key = v])
      BY <1>2 DEF selectBoardView
  <2>2. PICK c : c = [moves[m] EXCEPT !.key = v]
      OBVIOUS
  <2>3. moves'[m] = moves[m] \/ (moves'[m] = c /\ v \in Views)
      BY <1>2, <2>1, <2>2, DataStays
  <2>4. moves[m] \in Move
      BY DataStays
  <2>5. v \in Views => c.at = moves[m].at
      BY ONLY <2>2, <2>4, KeyWritten
  <2>6. QED
      BY <1>1, <2>3, <2>5
<1>3. ASSUME \/ ServeList \/ ListArrives \/ ListFails \/ RefetchList
             \/ \E d \in Deals : dragStart(d) \/ openActions(d)
             \/ dragCancel \/ closeOverlay
             \/ UNCHANGED boardVars
      PROVE  FALSE
  <2>1. moves' = moves
      BY <1>3 DEF ServeList, ListArrives, ListFails, RefetchList, dragStart, openActions,
                  dragCancel, closeOverlay, boardVars
  <2>2. QED
      BY <1>1, <2>1
<1>4. ASSUME NEW n \in Moves,
             \/ \E s \in Stages, over \in Deals \cup {0} : dragEnd(n, s, over)
             \/ DealMoveAPIView(n) \/ move_deal(n) \/ MoveLost(n) \/ MoveFails(n)
             \/ MoveSucceeds(n) \/ toggleArchive(n) \/ DealArchiveAPIView(n)
             \/ Archived(n) \/ ArchiveFails(n)
      PROVE  move_deal(m)
  <2>1. n = m
      BY <1>1, <1>4, OneAtATime
  <2>2. ~DealMoveAPIView(m) /\ ~MoveLost(m) /\ ~MoveFails(m) /\ ~MoveSucceeds(m)
      BY DEF DealMoveAPIView, MoveLost, MoveFails, MoveSucceeds
  <2>3. ~toggleArchive(m) /\ ~DealArchiveAPIView(m) /\ ~Archived(m) /\ ~ArchiveFails(m)
      BY DEF toggleArchive, DealArchiveAPIView, Archived, ArchiveFails
  <2>4. ASSUME NEW s, NEW over, dragEnd(m, s, over) PROVE FALSE
    <3>1. moves' = moves \/ moves[m].at = "idle"
        BY <2>4 DEF dragEnd
    <3>2. QED
        BY <1>1, <3>1
  <2>5. QED
      BY <1>4, <2>1, <2>2, <2>3, <2>4
<1>5. QED
    BY <1>2, <1>3, <1>4 DEF BoardNext

\* onMutate against move_deal: the place a card is shown at while its move is
\* under way is the place the server gives it, for every deal of the board.
THEOREM CardsLandWhereShown == BoardSpec => MovesLandWhereShown
<1> DEFINE Lands(m) ==
        /\ moves[m].kind = "move" /\ moves[m].at = "read" /\ moves'[m].at = "moved"
        /\ moves[m].previous = Listed("active") /\ moves[m].copy = rows[moves[m].deal]
        => LET drawn == Optimistic(moves[m].previous, moves[m].deal, moves[m].stage,
                                   moves[m].position)
           IN  \A d \in Selected("active", rows') :
                 /\ drawn[LastOf(drawn, d)].stage = rows'[d].stage
                 /\ drawn[LastOf(drawn, d)].order = rows'[d].order
<1>1. BoardData /\ [BoardNext]_boardVars => \A m \in Moves : Lands(m)
  <2> SUFFICES ASSUME BoardData, [BoardNext]_boardVars, NEW m \in Moves,
                      moves[m].kind = "move", moves[m].at = "read", moves'[m].at = "moved",
                      moves[m].previous = Listed("active"),
                      moves[m].copy = rows[moves[m].deal]
               PROVE  LET drawn == Optimistic(moves[m].previous, moves[m].deal,
                                              moves[m].stage, moves[m].position)
                      IN  \A d \in Selected("active", rows') :
                            /\ drawn[LastOf(drawn, d)].stage = rows'[d].stage
                            /\ drawn[LastOf(drawn, d)].order = rows'[d].order
      OBVIOUS
  <2>1. PICK a : a = moves[m]
      OBVIOUS
  <2>2. rows' = Renumbered(rows, a)
      BY <2>1, OnlyMoveDealMoves DEF move_deal
  <2>3. /\ a \in Move /\ GoodMove(a) /\ rows \in [Deals -> Row]
        /\ a.kind = "move" /\ a.at = "read"
        /\ a.previous = Listed("active") /\ a.copy = rows[a.deal]
      BY <2>1, DataStays
  <2>4. a.deal \in Deals /\ ~a.copy.archived /\ a.position \in Nat /\ a.stage \in Stages
      BY <2>3, MoveFields DEF GoodMove
  <2>5. a.deal \in Selected("active", rows)
      BY <2>3, <2>4 DEF Selected
  <2>6. \A x \in Deals : rows'[x].archived = rows[x].archived
      BY <2>2, <2>3, <2>4, RenumberedRows
  <2>7. Selected("active", rows') = Selected("active", rows)
      BY <2>6 DEF Selected
  <2>8. LET drawn == Optimistic(a.previous, a.deal, a.stage, a.position)
            next == Renumbered(rows, a)
        IN  \A x \in Selected("active", rows) :
              /\ drawn[LastOf(drawn, x)].stage = next[x].stage
              /\ drawn[LastOf(drawn, x)].order = next[x].order
      BY <2>3, <2>5, ShownIsServed
  <2>9. QED
      BY ONLY <2>1, <2>2, <2>7, <2>8
<1>2. BoardSpec => [][\A m \in Moves : Lands(m)]_boardVars
  <2>1. BoardData /\ [BoardNext]_boardVars => [\A m \in Moves : Lands(m)]_boardVars
      BY <1>1
  <2> HIDE DEF Lands
  <2>2. QED
      BY <2>1, BoardDataInvariance, PTL DEF BoardSpec
<1>3. QED
    BY <1>2 DEF MovesLandWhereShown

(***************************************************************************)
(* The query cache.  What the proofs need of the inventories of queries,   *)
(* hooks and screens: every mutation a screen offers is one of the hooks,  *)
(* and the optimistic one invalidates the list it wrote into, after an     *)
(* error too.                                                              *)
(***************************************************************************)
HookRecords ==
    {DealMutations, TaskMutations, CompanyMutations, ContactMutations,
     ServiceMutations, CostingMutations, PeopleMutations, SettingsMutations}

DealHooks == {"createDeal", "updateDeal", "archiveDeal", "deleteDeal", "moveDeal"}
OtherHooks ==
    {"createTask", "updateTask", "rescheduleTask", "completeTask", "reopenTask",
     "moveTask", "deleteTask", "saveCompany", "archiveCompany", "addTimelineNote",
     "addCommunication", "saveContact", "archiveContact", "deleteContact",
     "saveCatalogItem", "saveSubscription", "endSubscription", "recordPayment",
     "createCollaborator", "updateCollaborator", "saveCollaboratorService",
     "saveDealCost", "invite", "revokeInvitation", "changeMember", "saveSettings",
     "saveEmailAccount", "downloadExport", "createWorkspace", "cancelPending",
     "saveAccount", "saveInstallation", "inviteAdministrator", "exportInstallation"}

\* The hooks of each feature.
LEMMA HookNames ==
    /\ DOMAIN DealMutations = DealHooks
    /\ \A r \in HookRecords \ {DealMutations} : DOMAIN r \subseteq OtherHooks
    /\ UNION {DOMAIN r : r \in HookRecords} = DealHooks \cup OtherHooks
<1>1. DOMAIN DealMutations = DealHooks
    BY DEF DealMutations, DealHooks
<1>2. DOMAIN TaskMutations = {"createTask", "updateTask", "rescheduleTask",
          "completeTask", "reopenTask", "moveTask", "deleteTask"}
    BY DEF TaskMutations
<1>3. DOMAIN CompanyMutations =
          {"saveCompany", "archiveCompany", "addTimelineNote", "addCommunication"}
    BY DEF CompanyMutations
<1>4. DOMAIN ContactMutations = {"saveContact", "archiveContact", "deleteContact"}
    BY DEF ContactMutations
<1>5. DOMAIN ServiceMutations =
          {"saveCatalogItem", "saveSubscription", "endSubscription", "recordPayment"}
    BY DEF ServiceMutations
<1>6. DOMAIN CostingMutations = {"createCollaborator", "updateCollaborator",
          "saveCollaboratorService", "saveDealCost"}
    BY DEF CostingMutations
<1>7. DOMAIN PeopleMutations = {"invite", "revokeInvitation", "changeMember"}
    BY DEF PeopleMutations
<1>8. DOMAIN SettingsMutations = {"saveSettings", "saveEmailAccount", "downloadExport",
          "createWorkspace", "cancelPending", "saveAccount", "saveInstallation",
          "inviteAdministrator", "exportInstallation"}
    BY DEF SettingsMutations
<1>9. \A r \in HookRecords \ {DealMutations} : DOMAIN r \subseteq OtherHooks
    BY ONLY <1>2, <1>3, <1>4, <1>5, <1>6, <1>7, <1>8 DEF HookRecords, OtherHooks
<1>10. OtherHooks =
          DOMAIN TaskMutations \cup DOMAIN CompanyMutations \cup DOMAIN ContactMutations
          \cup DOMAIN ServiceMutations \cup DOMAIN CostingMutations
          \cup DOMAIN PeopleMutations \cup DOMAIN SettingsMutations
    BY ONLY <1>2, <1>3, <1>4, <1>5, <1>6, <1>7, <1>8 DEF OtherHooks
<1>11. \A n \in DealHooks \cup OtherHooks : \E r \in HookRecords : n \in DOMAIN r
    BY ONLY <1>1, <1>10 DEF HookRecords
<1>12. UNION {DOMAIN r : r \in HookRecords} = DealHooks \cup OtherHooks
    BY <1>1, <1>9, <1>11
<1>13. QED
    BY <1>1, <1>9, <1>12

\* A hook of a record is the one that the union of the records has.
LEMMA HookOf ==
    /\ DOMAIN Mutations = DealHooks \cup OtherHooks
    /\ \A m \in DOMAIN Mutations :
         \E r \in HookRecords : m \in DOMAIN r /\ Mutations[m] = r[m]
<1>1. Mutations = [n \in DealHooks \cup OtherHooks |->
                     (CHOOSE r \in HookRecords : n \in DOMAIN r)[n]]
    BY HookNames DEF Mutations, AllOf, HookRecords
<1>2. ASSUME NEW m \in DealHooks \cup OtherHooks
      PROVE  \E r \in HookRecords : m \in DOMAIN r /\ Mutations[m] = r[m]
  <2>1. \E r \in HookRecords : m \in DOMAIN r
      BY HookNames
  <2>2. (CHOOSE r \in HookRecords : m \in DOMAIN r) \in HookRecords
        /\ m \in DOMAIN (CHOOSE r \in HookRecords : m \in DOMAIN r)
      BY <2>1
  <2>3. QED
      BY <1>1, <2>2
<1>3. QED
    BY <1>1, <1>2

\* onSettled of useMoveDeal.
LEMMA MoveDealHook ==
    /\ "moveDeal" \in DOMAIN Mutations
    /\ Mutations["moveDeal"].settled = TRUE
    /\ Of("deals") \in Mutations["moveDeal"].drops
<1>1. "moveDeal" \in DOMAIN Mutations /\ "moveDeal" \notin OtherHooks
    BY HookOf DEF DealHooks, OtherHooks
<1>2. PICK r \in HookRecords : "moveDeal" \in DOMAIN r /\ Mutations["moveDeal"] = r["moveDeal"]
    BY <1>1, HookOf
<1>3. r = DealMutations
    BY <1>1, <1>2, HookNames
<1>4. DealMutations["moveDeal"].settled = TRUE /\ Of("deals") \in DealMutations["moveDeal"].drops
    BY DEF DealMutations, Mutation
<1>5. QED
    BY <1>1, <1>2, <1>3, <1>4

\* A hook invalidates after an error or it does not.
LEMMA SettledHooks == \A m \in DOMAIN Mutations : Mutations[m].settled \in BOOLEAN
<1>1. \A w, d : Mutation(w, d).settled \in BOOLEAN
    BY DEF Mutation
<1>2. \A r \in HookRecords : \A m \in DOMAIN r : r[m].settled \in BOOLEAN
  <2>1. \A m \in DOMAIN TaskMutations : \E w, d : TaskMutations[m] = Mutation(w, d)
      BY DEF TaskMutations
  <2>2. \A m \in DOMAIN CompanyMutations : \E w, d : CompanyMutations[m] = Mutation(w, d)
      BY DEF CompanyMutations
  <2>3. \A m \in DOMAIN ContactMutations : \E w, d : ContactMutations[m] = Mutation(w, d)
      BY DEF ContactMutations
  <2>4. \A m \in DOMAIN ServiceMutations : \E w, d : ServiceMutations[m] = Mutation(w, d)
      BY DEF ServiceMutations
  <2>5. \A m \in DOMAIN CostingMutations : \E w, d : CostingMutations[m] = Mutation(w, d)
      BY DEF CostingMutations
  <2>6. \A m \in DOMAIN PeopleMutations : \E w, d : PeopleMutations[m] = Mutation(w, d)
      BY DEF PeopleMutations
  <2>7. \A m \in DOMAIN SettingsMutations : \E w, d : SettingsMutations[m] = Mutation(w, d)
      BY DEF SettingsMutations
  <2>8. /\ \A m \in DOMAIN DealMutations \ {"moveDeal"} :
               \E w, d : DealMutations[m] = Mutation(w, d)
        /\ DealMutations["moveDeal"].settled \in BOOLEAN
    <3>1. \A m \in DOMAIN DealMutations \ {"moveDeal"} :
             \E w, d : DealMutations[m] = Mutation(w, d)
        BY DEF DealMutations
    <3>2. DealMutations["moveDeal"].settled = TRUE
        BY DEF DealMutations, Mutation
    <3>3. QED
        BY <3>1, <3>2
  <2>9. QED
      BY ONLY <1>1, <2>1, <2>2, <2>3, <2>4, <2>5, <2>6, <2>7, <2>8 DEF HookRecords
<1>3. QED
    BY <1>2, HookOf

\* What the pages offer are hooks of the features.
LEMMA OffersAreHooks == \A s \in DOMAIN Screens : Screens[s].offers \subseteq DOMAIN Mutations
<1>1. \A a, b, o : Screen(a, b, o).offers = o
    BY DEF Screen
<1>2. ASSUME NEW r, NEW A, NEW B, NEW O, NEW R,
             r \in [always : A, sometimes : B, offers : O, refetches : R]
      PROVE  Inside(r).offers = r.offers
    BY <1>2 DEF Inside
<1> DEFINE Hooks == DealHooks \cup OtherHooks
           Page(p) == /\ p = [always |-> p.always, sometimes |-> p.sometimes,
                             offers |-> p.offers, refetches |-> p.refetches]
                      /\ p.offers \subseteq Hooks
<1>3. ASSUME NEW p, Page(p) PROVE Inside(p).offers \subseteq Hooks
  <2>1. p \in [always : {p.always}, sometimes : {p.sometimes}, offers : {p.offers},
               refetches : {p.refetches}]
      BY <1>3
  <2>2. Inside(p).offers = p.offers
      BY <1>2, <2>1
  <2>3. QED
      BY <1>3, <2>2
<1>4. \A a, b : \A o \in SUBSET Hooks : Page(Screen(a, b, o))
    BY DEF Screen
<1>5. ASSUME NEW p, Page(p), NEW x PROVE Page([p EXCEPT !.refetches = x])
  <2>1. p \in [always : {p.always}, sometimes : {p.sometimes}, offers : {p.offers},
               refetches : {p.refetches, x}]
      BY <1>5
  <2>2. PICK s : s = [p EXCEPT !.refetches = x]
      OBVIOUS
  <2>3. s = [always |-> p.always, sometimes |-> p.sometimes, offers |-> p.offers,
             refetches |-> x]
      BY <2>1, <2>2
  <2>4. QED
      BY <1>5, <2>2, <2>3
<1>6. taskDrawer \subseteq Hooks
    BY DEF taskDrawer, OtherHooks
<1> HIDE DEF Page
<1>7. /\ Page(DashboardPage) /\ Page(CompanyDetailPage)
  <2>1. {"completeTask", "reopenTask", "rescheduleTask", "addCommunication", "createTask"}
        \in SUBSET Hooks
      BY DEF OtherHooks
  <2>2. {"saveCompany", "archiveCompany", "addTimelineNote", "addCommunication", "createTask"}
        \in SUBSET Hooks
      BY DEF OtherHooks
  <2>3. QED
      BY ONLY <1>4, <1>5, <2>1, <2>2 DEF DashboardPage, CompanyDetailPage
<1>8. /\ Page(DealsPage) /\ Page(DealProfilePage) /\ Page(TasksPage) /\ Page(ContactsPage)
  <2>1. /\ {"moveDeal", "archiveDeal", "deleteDeal", "createDeal", "updateDeal"} \cup taskDrawer
             \in SUBSET Hooks
        /\ {"archiveDeal", "updateDeal", "completeTask", "saveDealCost"} \cup taskDrawer
             \in SUBSET Hooks
        /\ {"completeTask", "reopenTask", "moveTask"} \cup taskDrawer \in SUBSET Hooks
        /\ {"saveContact", "archiveContact", "deleteContact", "saveCompany",
            "addTimelineNote"} \cup taskDrawer \in SUBSET Hooks
      BY <1>6 DEF DealHooks, OtherHooks
  <2>2. QED
      BY ONLY <1>4, <2>1 DEF DealsPage, DealProfilePage, TasksPage, ContactsPage
<1>9. /\ Page(CompaniesPage) /\ Page(ServicesPage) /\ Page(CollaboratorsPage)
      /\ Page(MembersPage) /\ Page(InboxPage) /\ Page(SettingsPage)
  <2>1. /\ {"saveCompany", "archiveCompany", "addTimelineNote"} \in SUBSET Hooks
        /\ {"saveCatalogItem", "saveSubscription", "endSubscription", "recordPayment"}
             \in SUBSET Hooks
        /\ {"createCollaborator", "updateCollaborator", "saveCollaboratorService"}
             \in SUBSET Hooks
        /\ {"invite", "revokeInvitation", "changeMember"} \in SUBSET Hooks
        /\ {"completeTask"} \in SUBSET Hooks
        /\ {"saveSettings", "saveEmailAccount", "downloadExport"} \in SUBSET Hooks
      BY DEF OtherHooks
  <2>2. QED
      BY ONLY <1>4, <2>1
      DEF CompaniesPage, ServicesPage, CollaboratorsPage, MembersPage, InboxPage, SettingsPage
<1>10. /\ OrganizationsPage.offers \subseteq Hooks
       /\ AccountSettingsPage.offers \subseteq Hooks
    BY <1>1 DEF OrganizationsPage, AccountSettingsPage, OtherHooks
<1> HIDE DEF Hooks
<1>11. \A s \in DOMAIN Screens :
          \/ \E p \in {DashboardPage, DealsPage, DealProfilePage, TasksPage, CompaniesPage,
                       CompanyDetailPage, ContactsPage, ServicesPage, CollaboratorsPage,
                       MembersPage, InboxPage, SettingsPage} : Screens[s] = Inside(p)
          \/ Screens[s] \in {OrganizationsPage, AccountSettingsPage}
    BY DEF Screens
<1>12. \A s \in DOMAIN Screens : Screens[s].offers \subseteq Hooks
    BY ONLY <1>3, <1>7, <1>8, <1>9, <1>10, <1>11
<1>13. QED
    BY <1>12, HookOf DEF Hooks

\* The list of the deals page is one of those that the deals' key covers.
LEMMA DealsListKey == IsPrefix(Of("deals"), Queries["deals"].key)
<1> DEFINE Records == {organizationKeys, dealKeys, taskKeys, companyKeys, contactKeys,
                       serviceKeys, costingKeys, peopleKeys, useActivityInbox,
                       useOrganizationSettings, useWorkspaceProvisioning, installationKeys}
<1>1. "deals" \in DOMAIN dealKeys
    BY DEF dealKeys
<1>2. \A r \in Records : "deals" \in DOMAIN r => r = dealKeys
  <2>1. /\ "deals" \notin DOMAIN organizationKeys
        /\ "deals" \notin DOMAIN taskKeys
        /\ "deals" \notin DOMAIN companyKeys
      BY DEF organizationKeys, taskKeys, companyKeys
  <2>2. /\ "deals" \notin DOMAIN contactKeys
        /\ "deals" \notin DOMAIN serviceKeys
        /\ "deals" \notin DOMAIN costingKeys
      BY DEF contactKeys, serviceKeys, costingKeys
  <2>3. /\ "deals" \notin DOMAIN peopleKeys
        /\ "deals" \notin DOMAIN useActivityInbox
        /\ "deals" \notin DOMAIN useOrganizationSettings
      BY DEF peopleKeys, useActivityInbox, useOrganizationSettings
  <2>4. /\ "deals" \notin DOMAIN useWorkspaceProvisioning
        /\ "deals" \notin DOMAIN installationKeys
      BY DEF useWorkspaceProvisioning, installationKeys
  <2>5. QED
      BY <2>1, <2>2, <2>3, <2>4
<1>3. Queries["deals"] = (CHOOSE r \in Records : "deals" \in DOMAIN r)["deals"]
  <2>1. Queries = [n \in UNION {DOMAIN r : r \in Records} |->
                     (CHOOSE r \in Records : n \in DOMAIN r)[n]]
      BY DEF Queries, AllOf
  <2>2. "deals" \in UNION {DOMAIN r : r \in Records}
      BY <1>1
  <2>3. QED
      BY ONLY <2>1, <2>2
<1>4. (CHOOSE r \in Records : "deals" \in DOMAIN r) = dealKeys
  <2>1. \E r \in Records : "deals" \in DOMAIN r
      BY <1>1
  <2> HIDE DEF Records
  <2>2. QED
      BY ONLY <1>2, <2>1
<1>5. dealKeys["deals"].key = Of("deals") \o <<"list">>
  <2>1. dealKeys["deals"] = Query(Of("deals") \o <<"list">>, {"deals", "companies", "contacts"})
      BY DEF dealKeys
  <2>2. ASSUME NEW k, NEW r PROVE Query(k, r).key = k
      BY DEF Query
  <2>3. QED
      BY <2>1, <2>2
<1> DEFINE Roots == {"organizations", "w", "deals", "list"}
<1>6. ASSUME NEW S, NEW a \in S, NEW b \in S, NEW c \in S, NEW d \in S
      PROVE  IsPrefix(Append(<<a>> \o <<b>>, c), Append(<<a>> \o <<b>>, c) \o <<d>>)
    BY DEF IsPrefix
<1>7. IsPrefix(Append(<<"organizations">> \o <<"w">>, "deals"),
               Append(<<"organizations">> \o <<"w">>, "deals") \o <<"list">>)
  <2>1. /\ "organizations" \in Roots /\ "w" \in Roots
        /\ "deals" \in Roots /\ "list" \in Roots
      OBVIOUS
  <2> HIDE DEF Roots
  <2>2. QED
      BY ONLY <1>6, <2>1
<1>8. Of("deals") = Append(<<"organizations">> \o <<"w">>, "deals")
    BY DEF Of, Workspace, Workspaces
<1> HIDE DEF Records
<1>9. QED
    BY ONLY <1>3, <1>4, <1>5, <1>7, <1>8

\* The changes whose write the server may have committed.
Committed == {c \in Changes : change[c].phase \in {"committed", "over"}}

\* No version is from the future, and an answer under way is not older than
\* what was acknowledged: Invalidate starts such a request over.
VersionsAgree ==
    /\ acked <= db
    /\ \A c \in Changes : change[c].version <= db
    /\ fetch \in Versions => acked <= fetch

\* A list that misses an acknowledged change is marked, or a move is under way.
MissedIsMarked == held # NoData /\ held < acked => invalid \/ Moving

\* The optimistic move invalidates, however it ends.
OptimisticSettles ==
    \A c \in Changes : change[c].optimistic => change[c].drops /\ change[c].settled

CacheInv ==
    /\ CacheTypeOK
    /\ VersionsAgree
    /\ MissedIsMarked
    /\ OptimisticSettles
    /\ db <= Cardinality(Committed)

\* What useMoveDeal and the other hooks do to the watched query.
LEMMA EffectIs ==
    ASSUME NEW m \in DOMAIN Mutations, screen \in DOMAIN Screens
    PROVE  /\ Effect(m) \in Change
           /\ Effect(m).phase = "sent" /\ Effect(m).version = 0
           /\ Effect(m).optimistic => Effect(m).drops /\ Effect(m).settled
<1> DEFINE Pages == {s \in DOMAIN Screens : <<m, watched>> \in Screens[s].refetches}
<1>1. PICK w \in BOOLEAN : w = (Mutations[m].writes \cap Queries[watched].reads # {})
    OBVIOUS
<1>2. PICK d \in BOOLEAN :
        d = (\E k \in Mutations[m].drops : IsPrefix(k, Queries[watched].key))
    OBVIOUS
<1>3. PICK o \in BOOLEAN : o = (m = "moveDeal" /\ watched = "deals")
    OBVIOUS
<1>4. PICK s \in BOOLEAN : s = Mutations[m].settled
    BY SettledHooks
<1>5. PICK r \in {"none"} \cup DOMAIN Screens : r = IF screen \in Pages THEN screen ELSE "none"
    OBVIOUS
<1>6. o => d /\ s
    BY <1>2, <1>3, <1>4, MoveDealHook, DealsListKey
<1>7. Effect(m) = [NoChange EXCEPT !.phase = "sent", !.writes = w, !.drops = d,
                                  !.settled = s, !.optimistic = o, !.refetch = r]
    BY <1>1, <1>2, <1>3, <1>4, <1>5 DEF Effect
<1>8. Effect(m) = [phase |-> "sent", writes |-> w, drops |-> d, settled |-> s,
                   optimistic |-> o, refetch |-> r, version |-> 0]
    BY ONLY <1>7 DEF NoChange
<1>9. 0 \in Versions
    BY ChangesAssumption, FS_CardinalityType DEF Versions
<1>10. QED
    BY <1>6, <1>8, <1>9 DEF Change

\* The cache's own steps: they change no mutation and no write, mark nothing as
\* up to date, and bring data that is as new as what was acknowledged.
LEMMA CacheKeeps ==
    ASSUME CacheInv, UNCHANGED <<change, db, acked>>,
           watched' \in DOMAIN Queries \cup {"none"}, screen' \in DOMAIN Screens,
           observed' \in BOOLEAN, aged' \in BOOLEAN,
           fetch' \in {fetch, db, NoFetch, Asked},
           \/ UNCHANGED <<held, invalid>>
           \/ invalid' = FALSE /\ (held' = NoData \/ (held' = fetch /\ fetch \in Versions))
    PROVE  CacheInv'
<1>1. CacheTypeOK'
    BY DEF CacheInv, CacheTypeOK
<1>2. VersionsAgree'
    BY DEF CacheInv, VersionsAgree, CacheTypeOK, Versions, NoFetch, Asked
<1>3. MissedIsMarked'
  <2>1. Moving' = Moving
      BY DEF Moving
  <2>2. CASE UNCHANGED <<held, invalid>>
      BY <2>1, <2>2 DEF CacheInv, MissedIsMarked
  <2>3. CASE held' = NoData
      BY <2>3 DEF MissedIsMarked
  <2>4. CASE held' = fetch /\ fetch \in Versions
    <3>1. acked <= fetch /\ acked \in Int /\ fetch \in Int
        BY <2>4 DEF CacheInv, VersionsAgree, CacheTypeOK, Versions
    <3>2. QED
        BY <2>4, <3>1 DEF MissedIsMarked
  <2>5. QED
      BY <2>2, <2>3, <2>4
<1>4. OptimisticSettles'
    BY DEF CacheInv, OptimisticSettles
<1>5. Committed' = Committed
    BY DEF Committed
<1>6. QED
    BY <1>1, <1>2, <1>3, <1>4, <1>5 DEF CacheInv

\* The steps that write nothing: a query observed, left, asked for, answered,
\* aged or collected.
LEMMA CacheSteps ==
    ASSUME CacheInv,
           \/ \E q \in DOMAIN Queries : Watch(q)
           \/ \E s \in DOMAIN Screens : Navigate(s)
           \/ ToggleView \/ Refocus \/ ServerReads \/ Arrive \/ FetchFails
           \/ StaleTime \/ Collect
           \/ UNCHANGED cacheVars
    PROVE  CacheInv'
<1>1. CASE \E q \in DOMAIN Queries : Watch(q)
  <2>1. PICK q \in DOMAIN Queries : Watch(q)
      BY <1>1
  <2>2. /\ UNCHANGED <<screen, change, db, held, invalid, aged, acked>> /\ watched' = q
        /\ observed' \in BOOLEAN /\ fetch' \in {NoFetch, Asked}
      BY <2>1 DEF Watch
  <2>3. QED
      BY <2>2, CacheKeeps DEF CacheInv, CacheTypeOK
<1>2. CASE ToggleView \/ \E s \in DOMAIN Screens : Navigate(s)
  <2>1. ASSUME NEW now \in BOOLEAN, NEW remount \in BOOLEAN, Observe(now, remount)
        PROVE  observed' \in BOOLEAN /\ fetch' \in {fetch, NoFetch, Asked}
      BY <2>1 DEF Observe
  <2>2. observed' \in BOOLEAN /\ fetch' \in {fetch, NoFetch, Asked}
    <3>1. CASE ToggleView
      <4>1. PICK now \in BOOLEAN : now = ~observed
          OBVIOUS
      <4>2. Observe(now, FALSE)
          BY <3>1, <4>1 DEF ToggleView
      <4>3. QED
          BY <2>1, <4>2
    <3>2. ASSUME NEW s \in DOMAIN Screens, Navigate(s)
          PROVE  observed' \in BOOLEAN /\ fetch' \in {fetch, NoFetch, Asked}
      <4>1. /\ observed' = (watched \in Screens[s].always)
            /\ fetch' = fetch \/ fetch' = Asked \/ fetch' = NoFetch
          BY <3>2 DEF Navigate, Observe
      <4>2. QED
          BY <4>1
    <3>3. QED
        BY <1>2, <3>1, <3>2
  <2>3. /\ UNCHANGED <<watched, change, db, held, invalid, aged, acked>>
        /\ screen' \in DOMAIN Screens
      BY <1>2 DEF ToggleView, Navigate, CacheInv, CacheTypeOK
  <2>4. QED
      BY <2>2, <2>3, CacheKeeps DEF CacheInv, CacheTypeOK
<1>3. CASE Refocus \/ ServerReads \/ FetchFails
  <2>1. /\ UNCHANGED <<watched, screen, observed, change, db, held, invalid, aged, acked>>
        /\ fetch' \in {Asked, db, NoFetch}
      BY <1>3 DEF Refocus, Ask, ServerReads, FetchFails
  <2>2. QED
      BY <2>1, CacheKeeps DEF CacheInv, CacheTypeOK
<1>4. CASE Arrive
    BY <1>4, CacheKeeps DEF Arrive, CacheInv, CacheTypeOK
<1>5. CASE StaleTime
    BY <1>5, CacheKeeps DEF StaleTime, CacheInv, CacheTypeOK
<1>6. CASE Collect
  <2>1. /\ UNCHANGED <<watched, screen, observed, change, db, fetch, acked>>
        /\ held' = NoData /\ invalid' = FALSE /\ aged' = FALSE
      BY <1>6 DEF Collect
  <2>2. /\ watched' \in DOMAIN Queries \cup {"none"} /\ screen' \in DOMAIN Screens
        /\ observed' \in BOOLEAN /\ aged' \in BOOLEAN
        /\ fetch' \in {fetch, db, NoFetch, Asked}
      BY <2>1 DEF CacheInv, CacheTypeOK
  <2>3. \/ UNCHANGED <<held, invalid>>
        \/ invalid' = FALSE /\ (held' = NoData \/ (held' = fetch /\ fetch \in Versions))
      BY <2>1
  <2>4. QED
      BY ONLY CacheInv, <2>1, <2>2, <2>3, CacheKeeps
<1>7. CASE UNCHANGED cacheVars
    BY <1>7, CacheKeeps DEF cacheVars, CacheInv, CacheTypeOK
<1>8. QED
    BY <1>1, <1>2, <1>3, <1>4, <1>5, <1>6, <1>7

\* A set of changes is finite and not larger than Changes.
LEMMA CountedChanges ==
    ASSUME NEW S \in SUBSET Changes
    PROVE  /\ IsFiniteSet(S) /\ Cardinality(S) \in Nat
           /\ Cardinality(S) <= Cardinality(Changes)
           /\ Cardinality(Changes) \in Nat
           /\ \A c \in Changes \ S : Cardinality(S \cup {c}) = Cardinality(S) + 1
           /\ \A c \in Changes \ S : Cardinality(S) + 1 <= Cardinality(Changes)
<1>1. /\ \A T \in SUBSET Changes : IsFiniteSet(T) /\ Cardinality(T) <= Cardinality(Changes)
      /\ \A T \in SUBSET Changes : Cardinality(T) \in Nat
    BY ChangesAssumption, FS_Subset, FS_CardinalityType
<1>2. \A c \in Changes \ S : Cardinality(S \cup {c}) = Cardinality(S) + 1
    BY <1>1, FS_AddElement
<1>3. \A c \in Changes \ S : S \cup {c} \in SUBSET Changes
    OBVIOUS
<1>4. QED
    BY <1>1, <1>2, <1>3

\* The record of a change, rewritten by a step of its mutation.
LEMMA Rewritten ==
    ASSUME NEW r \in Change, NEW p \in {"committed", "over"}, NEW v \in Versions
    PROVE  /\ [r EXCEPT !.phase = p]
              = [phase |-> p, writes |-> r.writes, drops |-> r.drops, settled |-> r.settled,
                 optimistic |-> r.optimistic, refetch |-> r.refetch, version |-> r.version]
           /\ [r EXCEPT !.phase = p, !.version = v]
              = [phase |-> p, writes |-> r.writes, drops |-> r.drops, settled |-> r.settled,
                 optimistic |-> r.optimistic, refetch |-> r.refetch, version |-> v]
           /\ [r EXCEPT !.phase = p] \in Change
           /\ [r EXCEPT !.phase = p, !.version = v] \in Change
<1>1. PICK s : s = [r EXCEPT !.phase = p]
    OBVIOUS
<1>2. s = [phase |-> p, writes |-> r.writes, drops |-> r.drops, settled |-> r.settled,
           optimistic |-> r.optimistic, refetch |-> r.refetch, version |-> r.version]
    BY <1>1 DEF Change
<1>3. s \in Change
    BY <1>2 DEF Change
<1>4. PICK t : t = [r EXCEPT !.phase = p, !.version = v]
    OBVIOUS
<1>5. t = [phase |-> p, writes |-> r.writes, drops |-> r.drops, settled |-> r.settled,
           optimistic |-> r.optimistic, refetch |-> r.refetch, version |-> v]
    BY <1>4 DEF Change
<1>6. t \in Change
    BY <1>5 DEF Change
<1>7. QED
    BY ONLY <1>1, <1>2, <1>3, <1>4, <1>5, <1>6

\* One change is rewritten; the others stay.
LEMMA OneChange ==
    ASSUME change \in [Changes -> Change], NEW c \in Changes, NEW e \in Change,
           change' = [change EXCEPT ![c] = e]
    PROVE  /\ change' \in [Changes -> Change]
           /\ change'[c] = e
           /\ \A i \in Changes : i # c => change'[i] = change[i]
<1> HIDE DEF Change
<1>1. QED
    OBVIOUS

\* The optimistic hook's cancelQueries and setQueryData.
LEMMA MutateKeeps ==
    ASSUME CacheInv, NEW c \in Changes, NEW m \in Screens[screen].offers, Mutate(c, m)
    PROVE  CacheInv'
<1>1. screen \in DOMAIN Screens /\ m \in DOMAIN Mutations
    BY OffersAreHooks DEF CacheInv, CacheTypeOK
<1>2. PICK e : e = Effect(m)
    OBVIOUS
<1>3. /\ e \in Change /\ e.phase = "sent" /\ e.version = 0
      /\ e.optimistic => e.drops /\ e.settled
    BY <1>1, <1>2, EffectIs
<1>4. /\ change' = [change EXCEPT ![c] = e] /\ change[c].phase = "ready"
      /\ UNCHANGED <<watched, screen, observed, db, held, acked>>
      /\ IF e.optimistic
         THEN /\ fetch' = NoFetch
              /\ invalid' = (invalid /\ held = NoData)
              /\ aged' = (aged /\ held = NoData)
         ELSE UNCHANGED <<fetch, invalid, aged>>
    BY <1>2 DEF Mutate
<1>5. /\ change' \in [Changes -> Change] /\ change'[c] = e
      /\ \A i \in Changes : i # c => change'[i] = change[i]
    BY <1>3, <1>4, OneChange DEF CacheInv, CacheTypeOK
<1>6. CacheTypeOK'
    BY <1>4, <1>5 DEF CacheInv, CacheTypeOK
<1>7. VersionsAgree'
  <2>1. \A i \in Changes : change'[i].version <= db
      BY <1>3, <1>5 DEF CacheInv, VersionsAgree, CacheTypeOK, Versions
  <2>2. fetch' \in Versions => fetch' = fetch
      BY <1>4 DEF Versions, NoFetch
  <2>3. QED
      BY <1>4, <2>1, <2>2 DEF CacheInv, VersionsAgree
<1>8. MissedIsMarked'
  <2>1. Moving => Moving'
      BY <1>4, <1>5 DEF Moving
  <2>2. e.optimistic => Moving'
      BY <1>3, <1>5 DEF Moving
  <2>3. QED
      BY <1>4, <2>1, <2>2 DEF CacheInv, MissedIsMarked
<1>9. OptimisticSettles'
    BY <1>3, <1>5 DEF CacheInv, OptimisticSettles
<1>10. Committed' = Committed
    BY <1>3, <1>4, <1>5 DEF Committed
<1>11. QED
    BY <1>4, <1>6, <1>7, <1>8, <1>9, <1>10 DEF CacheInv

\* The server's transaction.
LEMMA CommitKeeps ==
    ASSUME CacheInv, NEW c \in Changes, Commit(c)
    PROVE  CacheInv'
<1>1. /\ change[c] \in Change /\ change[c].phase = "sent"
      /\ db \in Nat /\ db' \in {db, db + 1} /\ change[c].writes \in BOOLEAN
      /\ UNCHANGED <<watched, screen, observed, held, fetch, invalid, aged, acked>>
    BY DEF Commit, CacheInv, CacheTypeOK, Versions, Change
<1>2. Committed \in SUBSET Changes /\ c \in Changes \ Committed
    BY <1>1 DEF Committed
<1>3. /\ Cardinality(Committed) \in Nat /\ Cardinality(Changes) \in Nat
      /\ Cardinality(Committed \cup {c}) = Cardinality(Committed) + 1
      /\ Cardinality(Committed) + 1 <= Cardinality(Changes)
    BY <1>2, CountedChanges
<1>4. db' \in Versions /\ db <= db' /\ db' <= Cardinality(Committed) + 1
    BY <1>1, <1>3 DEF CacheInv, Versions
<1>5. PICK e : e = [change[c] EXCEPT !.phase = "committed", !.version = db']
    OBVIOUS
<1>6. /\ e \in Change /\ e.phase = "committed" /\ e.version = db'
      /\ e.optimistic = change[c].optimistic
      /\ e.drops = change[c].drops /\ e.settled = change[c].settled
  <2>1. "committed" \in {"committed", "over"} /\ db' \in Versions
      BY <1>4
  <2>2. PICK p \in {"committed", "over"}, v \in Versions : p = "committed" /\ v = db'
      BY <2>1
  <2>3. e = [change[c] EXCEPT !.phase = p, !.version = v]
      BY <1>5, <2>2
  <2>4. /\ e \in Change
        /\ e = [phase |-> p, writes |-> change[c].writes, drops |-> change[c].drops,
                settled |-> change[c].settled, optimistic |-> change[c].optimistic,
                refetch |-> change[c].refetch, version |-> v]
      BY ONLY <1>1, <2>2, <2>3, Rewritten
  <2>5. QED
      BY <2>2, <2>4
<1>7. change' = [change EXCEPT ![c] = e]
    BY <1>5 DEF Commit
<1>8. /\ change' \in [Changes -> Change] /\ change'[c] = e
      /\ \A i \in Changes : i # c => change'[i] = change[i]
    BY <1>6, <1>7, OneChange DEF CacheInv, CacheTypeOK
<1>9. CacheTypeOK'
    BY <1>1, <1>4, <1>8 DEF CacheInv, CacheTypeOK
<1>10. VersionsAgree'
  <2>1. /\ acked <= db /\ acked \in Int /\ db \in Int /\ db' \in Int
        /\ \A i \in Changes : change[i].version <= db /\ change[i].version \in Int
      BY <1>1 DEF CacheInv, VersionsAgree, CacheTypeOK, Versions, Change
  <2>2. \A i \in Changes : change'[i].version <= db'
      BY <1>4, <1>6, <1>8, <2>1
  <2>3. QED
      BY <1>1, <1>4, <2>1, <2>2 DEF CacheInv, VersionsAgree
<1>11. MissedIsMarked'
  <2>1. Moving => Moving'
      BY <1>1, <1>6, <1>8 DEF Moving
  <2>2. QED
      BY <1>1, <2>1 DEF CacheInv, MissedIsMarked
<1>12. OptimisticSettles'
    BY <1>6, <1>8 DEF CacheInv, OptimisticSettles
<1>13. Committed' = Committed \cup {c}
    BY <1>6, <1>8 DEF Committed
<1>14. QED
    BY <1>3, <1>4, <1>9, <1>10, <1>11, <1>12, <1>13 DEF CacheInv

\* What onSuccess, onError and onSettled leave of a change that was committed
\* or sent: the answer's change is over, and its version stays.
LEMMA OverKeeps ==
    ASSUME CacheInv, NEW c \in Changes, change[c].phase \in {"sent", "committed"}, Over(c),
           UNCHANGED <<watched, screen, observed, db, held, aged>>,
           invalid' \in BOOLEAN, fetch' \in {fetch, Asked},
           acked' \in Versions, acked' <= db,
           fetch' \in Versions => acked' = acked,
           (acked' # acked) \/ (change[c].settled /\ change[c].drops)
              => invalid' = (held # NoData),
           invalid' = invalid \/ invalid' = (held # NoData)
    PROVE  CacheInv'
<1>1. /\ change[c] \in Change /\ "over" \in {"committed", "over"}
      /\ change[c].version \in Versions
    BY DEF CacheInv, CacheTypeOK, Change
<1>2. PICK e : e = [change[c] EXCEPT !.phase = "over"]
    OBVIOUS
<1>3. /\ e \in Change /\ e.phase = "over"
      /\ e.version = change[c].version /\ e.optimistic = change[c].optimistic
      /\ e.drops = change[c].drops /\ e.settled = change[c].settled
  <2>1. PICK p \in {"committed", "over"}, v \in Versions : p = "over" /\ v = change[c].version
      BY <1>1
  <2>2. e = [change[c] EXCEPT !.phase = p]
      BY <1>2, <2>1
  <2>3. /\ e \in Change
        /\ e = [phase |-> p, writes |-> change[c].writes, drops |-> change[c].drops,
                settled |-> change[c].settled, optimistic |-> change[c].optimistic,
                refetch |-> change[c].refetch, version |-> change[c].version]
      BY ONLY <1>1, <2>1, <2>2, Rewritten
  <2>4. QED
      BY <2>1, <2>3
<1>4. /\ change' \in [Changes -> Change] /\ change'[c] = e
      /\ \A i \in Changes : i # c => change'[i] = change[i]
  <2>1. change' = [change EXCEPT ![c] = e]
      BY <1>2 DEF Over
  <2>2. QED
      BY <1>3, <2>1, OneChange DEF CacheInv, CacheTypeOK
<1>5. CacheTypeOK'
    BY <1>4 DEF CacheInv, CacheTypeOK
<1>6. VersionsAgree'
  <2>1. \A i \in Changes : change'[i].version <= db
      BY <1>3, <1>4 DEF CacheInv, VersionsAgree
  <2>2. fetch' \in Versions => fetch' = fetch
      BY DEF Versions, Asked
  <2>3. QED
      BY <2>1, <2>2 DEF CacheInv, VersionsAgree
<1>7. MissedIsMarked'
  <2>1. ASSUME held # NoData, held < acked', ~ invalid' PROVE Moving'
    <3>1. /\ invalid' = FALSE /\ (held # NoData) = TRUE /\ invalid = FALSE
          /\ acked' = acked /\ ~ (change[c].settled /\ change[c].drops)
        BY <2>1 DEF CacheInv, CacheTypeOK
    <3>2. Moving
        BY <2>1, <3>1 DEF CacheInv, MissedIsMarked
    <3>3. PICK i \in Changes : change[i].optimistic /\ change[i].phase \in {"sent", "committed"}
        BY <3>2 DEF Moving
    <3>4. i # c
        BY <3>1, <3>3 DEF CacheInv, OptimisticSettles
    <3>5. QED
        BY <1>4, <3>3, <3>4 DEF Moving
  <2>2. QED
      BY <2>1 DEF MissedIsMarked
<1>8. OptimisticSettles'
    BY <1>3, <1>4 DEF CacheInv, OptimisticSettles
<1>9. db <= Cardinality(Committed')
  <2>1. Committed \in SUBSET Changes
      BY DEF Committed
  <2>2. /\ Cardinality(Committed) \in Nat
        /\ c \notin Committed => Cardinality(Committed \cup {c}) = Cardinality(Committed) + 1
      BY <2>1, CountedChanges
  <2>3. Committed' = Committed \cup {c}
      BY <1>3, <1>4 DEF Committed
  <2>4. CASE c \in Committed
    <3>1. Committed' = Committed
        BY <2>3, <2>4
    <3>2. QED
        BY <3>1 DEF CacheInv
  <2>5. CASE c \notin Committed
      BY <2>2, <2>3, <2>5 DEF CacheInv, CacheTypeOK, Versions
  <2>6. QED
      BY <2>4, <2>5
<1>10. QED
    BY <1>5, <1>6, <1>7, <1>8, <1>9 DEF CacheInv

\* onSuccess, onError and onSettled.
LEMMA AnswersKeep ==
    ASSUME CacheInv, NEW c \in Changes, Succeed(c) \/ Rejected(c)
    PROVE  CacheInv'
<1>1. /\ change[c].version \in Versions /\ change[c].version <= db
      /\ acked \in Versions /\ acked <= db /\ held \in Int
      /\ change[c].drops \in BOOLEAN /\ change[c].settled \in BOOLEAN
      /\ change[c].writes \in BOOLEAN /\ observed \in BOOLEAN /\ invalid \in BOOLEAN
    BY DEF CacheInv, CacheTypeOK, VersionsAgree, Versions, Change, NoData
<1>2. PICK loaded \in BOOLEAN : loaded = (change[c].writes /\ observed /\ held # NoData)
    OBVIOUS
<1>3. Refetched \in {fetch, Asked} /\ (held # NoData => Refetched = Asked)
    BY DEF Refetched
<1>4. CASE Succeed(c)
  <2>1. /\ change[c].phase = "committed" /\ Over(c)
        /\ acked' = IF loaded /\ change[c].drops THEN Later(acked, c) ELSE acked
        /\ IF change[c].drops THEN Invalidate
           ELSE /\ fetch' = IF observed /\ change[c].refetch = screen THEN Refetched ELSE fetch
                /\ UNCHANGED invalid
        /\ UNCHANGED <<watched, screen, observed, db, held, aged>>
      BY <1>2, <1>4 DEF Succeed
  <2>2. acked' \in Versions /\ acked' <= db
      BY <1>1, <2>1 DEF Later
  <2>3. CASE change[c].drops
    <3>1. /\ invalid' = (held # NoData)
          /\ fetch' = IF observed THEN Refetched ELSE fetch
        BY <2>1, <2>3 DEF Invalidate
    <3>2. fetch' \in {fetch, Asked} /\ (loaded => fetch' = Asked)
        BY <1>2, <1>3, <3>1
    <3>3. fetch' \in Versions => acked' = acked
        BY <1>2, <2>1, <3>2 DEF Versions, Asked
    <3>4. invalid' \in BOOLEAN
        BY <3>1
    <3>5. QED
        BY <2>1, <2>2, <3>1, <3>2, <3>3, <3>4, OverKeeps
  <2>4. CASE ~ change[c].drops
    <3>1. /\ acked' = acked /\ invalid' = invalid /\ fetch' \in {fetch, Asked}
        BY <1>3, <2>1, <2>4
    <3>2. QED
        BY <1>1, <2>1, <2>2, <2>4, <3>1, OverKeeps
  <2>5. QED
      BY <1>1, <2>3, <2>4
<1>5. CASE Rejected(c)
  <2>1. /\ change[c].phase \in {"sent", "committed"} /\ Over(c)
        /\ IF change[c].settled /\ change[c].drops THEN Invalidate
           ELSE UNCHANGED <<invalid, fetch>>
        /\ UNCHANGED <<watched, screen, observed, db, held, aged, acked>>
      BY <1>5 DEF Rejected
  <2>2. CASE change[c].settled /\ change[c].drops
    <3>1. /\ invalid' = (held # NoData) /\ fetch' \in {fetch, Asked}
        BY <1>3, <2>1, <2>2 DEF Invalidate
    <3>2. invalid' \in BOOLEAN
        BY <3>1
    <3>3. QED
        BY <1>1, <2>1, <3>1, <3>2, OverKeeps
  <2>3. CASE ~ (change[c].settled /\ change[c].drops)
    <3>1. UNCHANGED <<invalid, fetch>>
        BY <2>1, <2>3
    <3>2. QED
        BY <1>1, <2>1, <2>3, <3>1, OverKeeps
  <2>4. QED
      BY <2>2, <2>3
<1>6. QED
    BY <1>4, <1>5

\* An empty cache, before the first mutation.
LEMMA InitCache == CacheInit => CacheInv
<1> SUFFICES ASSUME CacheInit PROVE CacheInv
    OBVIOUS
<1>1. Cardinality(Changes) \in Nat /\ 0 \in Versions /\ Cardinality(Committed) \in Nat
  <2>1. Committed \in SUBSET Changes
      BY DEF Committed
  <2>2. QED
      BY <2>1, CountedChanges DEF Versions
<1>2. NoChange \in Change
    BY <1>1 DEF NoChange, Change
<1>3. "dashboard" \in DOMAIN Screens
    BY DEF Screens
<1>4. change \in [Changes -> Change] /\ \A c \in Changes : change[c] = NoChange
    BY <1>2 DEF CacheInit
<1>5. CacheTypeOK
    BY <1>1, <1>3, <1>4 DEF CacheInit, CacheTypeOK
<1>6. VersionsAgree /\ OptimisticSettles
    BY <1>1, <1>4 DEF CacheInit, VersionsAgree, OptimisticSettles, NoChange, Versions, NoFetch
<1>7. MissedIsMarked
    BY DEF CacheInit, MissedIsMarked
<1>8. QED
    BY <1>1, <1>5, <1>6, <1>7 DEF CacheInit, CacheInv

\* Every step keeps the invariant.
LEMMA StepCache == CacheInv /\ [CacheNext]_cacheVars => CacheInv'
<1> SUFFICES ASSUME CacheInv, [CacheNext]_cacheVars PROVE CacheInv'
    OBVIOUS
<1>1. CASE \/ \E q \in DOMAIN Queries : Watch(q)
           \/ \E s \in DOMAIN Screens : Navigate(s)
           \/ ToggleView \/ Refocus \/ ServerReads \/ Arrive \/ FetchFails
           \/ StaleTime \/ Collect
           \/ UNCHANGED cacheVars
    BY <1>1, CacheSteps
<1>2. CASE \E c \in Changes : \E m \in Screens[screen].offers : Mutate(c, m)
    BY <1>2, MutateKeeps
<1>3. CASE \E c \in Changes : Commit(c)
    BY <1>3, CommitKeeps
<1>4. CASE \E c \in Changes : Succeed(c) \/ Rejected(c)
    BY <1>4, AnswersKeep
<1>5. QED
    BY <1>1, <1>2, <1>3, <1>4 DEF CacheNext

\* The inductive invariant of the cache.
THEOREM CacheInvariance == CacheSpec => []CacheInv
BY InitCache, StepCache, PTL DEF CacheSpec

\* The cache's entries and mutations stay what they are; no more writes are
\* committed than mutations were sent.
THEOREM CacheTypesHold == CacheSpec => []CacheTypeOK
<1>1. CacheInv => CacheTypeOK
    BY DEF CacheInv
<1>2. QED
    BY <1>1, CacheInvariance, PTL

\* invalidateQueries after a hook's success: a loaded list that misses a change
\* its hook declares is asked for, or marked for the next occasion.
THEOREM DeclaredChangesAreShown == CacheSpec => []DeclaredChangesShow
<1>1. CacheInv => DeclaredChangesShow
    BY DEF CacheInv, MissedIsMarked, DeclaredChangesShow, WillShow
<1>2. QED
    BY <1>1, CacheInvariance, PTL

(***************************************************************************)
(* The lists.  The inductive invariant adds to the types that a list that   *)
(* has not been opened has no filters, and that an owner is only asked for *)
(* in a view that is not itself about the owner: selectView drops the      *)
(* owner, changeOwner leaves the view.                                     *)
(***************************************************************************)
OwnerHasTheView == url.of.owner # "" => url.of.view \notin {"mine", "unassigned"}

ListsInv ==
    ListsTypeOK /\ OwnerHasTheView /\ (listing = "none" => url.of = NoFilters)

\* A list that has no filters yet, and the first page of it.
LEMMA NoFiltersType ==
    /\ NoFilters \in Filters /\ FirstUrl \in Url /\ FirstUrl.of = NoFilters
    /\ NoFilters.company = "" /\ NoFilters.stage = "" /\ NoFilters.owner = ""
    /\ NoFilters.sort = "" /\ NoFilters.view = "active"
BY ListsAssumption DEF NoFilters, Filters, FirstUrl, Url, COMPANY_VIEWS, CONTACT_VIEWS,
                       CompanyOwners

\* Other filters, on the first page; another page; another record.
LEMMA UrlChanges ==
    ASSUME NEW u \in Url, NEW f \in Filters, NEW p \in 1..LastPage, NEW r \in Rows \cup {0}
    PROVE  /\ [u EXCEPT !.of = f, !.page = 1] \in Url
           /\ [u EXCEPT !.of = f, !.page = 1].of = f
           /\ [u EXCEPT !.page = p] \in Url /\ [u EXCEPT !.page = p].of = u.of
           /\ [u EXCEPT !.open = r] \in Url /\ [u EXCEPT !.open = r].of = u.of
<1>1. 1 \in 1..LastPage
    BY ListsAssumption
<1>2. PICK x, y, z : /\ x = [u EXCEPT !.of = f, !.page = 1]
                     /\ y = [u EXCEPT !.page = p] /\ z = [u EXCEPT !.open = r]
    OBVIOUS
<1>3. /\ x = [of |-> f, page |-> 1, open |-> u.open]
      /\ y = [of |-> u.of, page |-> p, open |-> u.open]
      /\ z = [of |-> u.of, page |-> u.page, open |-> r]
    BY <1>2 DEF Url
<1>4. u.of \in Filters /\ u.page \in 1..LastPage /\ u.open \in Rows \cup {0}
    BY DEF Url
<1>5. x \in Url /\ y \in Url /\ z \in Url
    BY <1>1, <1>3, <1>4 DEF Url
<1>6. QED
    BY <1>2, <1>3, <1>5

\* One filter changes.
LEMMA FilterChanges ==
    ASSUME NEW f \in Filters, NEW q \in {"", "text"}, NEW v \in COMPANY_VIEWS \cup CONTACT_VIEWS,
           NEW s \in {"", "lead"}, NEW o \in CompanyOwners, NEW n \in {"", "name"},
           NEW c \in {"", "one"}
    PROVE  /\ [f EXCEPT !.q = q] \in Filters
           /\ [f EXCEPT !.view = v, !.owner = o] \in Filters
           /\ [f EXCEPT !.owner = o, !.view = v] \in Filters
           /\ [f EXCEPT !.stage = s] \in Filters
           /\ [f EXCEPT !.owner = o] \in Filters
           /\ [f EXCEPT !.sort = n] \in Filters
           /\ [f EXCEPT !.company = c] \in Filters
<1>1. PICK a, b, d, e, g, h, k :
          /\ a = [f EXCEPT !.q = q] /\ b = [f EXCEPT !.view = v, !.owner = o]
          /\ d = [f EXCEPT !.owner = o, !.view = v] /\ e = [f EXCEPT !.stage = s]
          /\ g = [f EXCEPT !.owner = o] /\ h = [f EXCEPT !.sort = n]
          /\ k = [f EXCEPT !.company = c]
    OBVIOUS
<1>2. a \in Filters /\ b \in Filters
    BY <1>1 DEF Filters
<1>3. d \in Filters /\ e \in Filters
    BY <1>1 DEF Filters
<1>4. g \in Filters /\ h \in Filters
    BY <1>1 DEF Filters
<1>5. k = [q |-> f.q, view |-> f.view, stage |-> f.stage, owner |-> f.owner,
           sort |-> f.sort, company |-> c]
    BY <1>1 DEF Filters
<1>6. k \in Filters
    BY <1>5 DEF Filters
<1>7. QED
    BY <1>1, <1>2, <1>3, <1>4, <1>6

\* The filters f a list may have.
Fits(f) ==
    /\ f \in Filters
    /\ f.owner # "" => f.view \notin {"mine", "unassigned"}
    /\ listing = "companies" => f.company = "" /\ f.view \in COMPANY_VIEWS
    /\ listing = "contacts" => /\ f.stage = "" /\ f.owner = "" /\ f.sort = ""
                               /\ f.view \in CONTACT_VIEWS

\* updateSearch of such filters.
LEMMA SearchKeeps ==
    ASSUME ListsInv, NEW f, Fits(f), Visited, updateSearch(f)
    PROVE  ListsInv'
<1>1. PICK u : u = [url EXCEPT !.of = f, !.page = 1]
    OBVIOUS
<1>2. url' = u /\ deferred' = deferred /\ pageRows' \in {pageRows, "pending", "some", "empty"}
      /\ UNCHANGED <<listing, listOverlay, inline, toggle>>
    BY <1>1 DEF updateSearch, Render
<1>3. u \in Url /\ u.of = f
  <2>1. url \in Url /\ f \in Filters
      BY DEF ListsInv, ListsTypeOK, Fits
  <2>2. 1 \in 1..LastPage /\ 0 \in Rows \cup {0}
      BY ListsAssumption
  <2>3. QED
      BY <1>1, <2>1, <2>2, UrlChanges
<1>4. listing # "none"
    BY DEF Visited
<1>5. QED
    BY <1>2, <1>3, <1>4 DEF ListsInv, ListsTypeOK, OwnerHasTheView, Fits

\* The search box, the views and the filters.
LEMMA FiltersKeep ==
    ASSUME ListsInv,
           \/ \E text \in {"", "text"} : EntityListToolbar(text)
           \/ \E v \in COMPANY_VIEWS \cup CONTACT_VIEWS : selectView(v)
           \/ ClearOwner \/ clearFilters
           \/ \E s \in {"", "lead"} : changeStage(s)
           \/ \E o \in CompanyOwners : changeOwner(o)
           \/ \E s \in {"", "name"} : changeSort(s)
           \/ \E c \in {"", "one"} : changeCompany(c)
    PROVE  ListsInv'
<1> DEFINE of == url.of
<1>0. /\ of \in Filters /\ Fits(of)
    BY DEF ListsInv, ListsTypeOK, OwnerHasTheView, Fits, Url
<1>1. CASE \E text \in {"", "text"} : EntityListToolbar(text)
  <2>1. PICK text \in {"", "text"} : EntityListToolbar(text)
      BY <1>1
  <2>2. PICK f : f = [of EXCEPT !.q = text]
      OBVIOUS
  <2>3. Fits(f)
      BY <1>0, <2>2 DEF Fits, Filters
  <2>4. Visited /\ updateSearch(f)
      BY <2>1, <2>2 DEF EntityListToolbar, Free
  <2>5. QED
      BY <2>3, <2>4, SearchKeeps
<1>2. CASE \E v \in COMPANY_VIEWS \cup CONTACT_VIEWS : selectView(v)
  <2>1. PICK v \in COMPANY_VIEWS \cup CONTACT_VIEWS : selectView(v)
      BY <1>2
  <2>2. PICK f : f = [of EXCEPT !.view = v, !.owner = ""]
      OBVIOUS
  <2>3. v \in IF listing = "companies" THEN COMPANY_VIEWS ELSE CONTACT_VIEWS
      BY <2>1 DEF selectView
  <2>4. Fits(f)
    <3>1. f \in Filters
        BY <1>0, <2>2, FilterChanges DEF CompanyOwners
    <3>2. f.view = v /\ f.owner = "" /\ f.company = of.company /\ f.stage = of.stage
          /\ f.sort = of.sort
        BY <1>0, <2>2 DEF Filters
    <3>3. QED
        BY <1>0, <2>3, <3>1, <3>2 DEF Fits
  <2>5. Visited /\ updateSearch(f)
      BY <2>1, <2>2 DEF selectView, Free
  <2>6. QED
      BY <2>4, <2>5, SearchKeeps
<1>3. CASE ClearOwner
  <2>1. PICK f : f = [of EXCEPT !.owner = ""]
      OBVIOUS
  <2>2. Fits(f)
      BY <1>0, <2>1 DEF Fits, Filters, CompanyOwners
  <2>3. Visited /\ updateSearch(f)
      BY <1>3, <2>1 DEF ClearOwner, Free
  <2>4. QED
      BY <2>2, <2>3, SearchKeeps
<1>4. CASE clearFilters
  <2>1. Fits(NoFilters)
      BY NoFiltersType DEF Fits, COMPANY_VIEWS, CONTACT_VIEWS
  <2>2. Visited /\ updateSearch(NoFilters)
      BY <1>4 DEF clearFilters, Free
  <2>3. QED
      BY <2>1, <2>2, SearchKeeps
<1>5. CASE \E s \in {"", "lead"} : changeStage(s)
  <2>1. PICK s \in {"", "lead"} : changeStage(s)
      BY <1>5
  <2>2. PICK f : f = [of EXCEPT !.stage = s]
      OBVIOUS
  <2>3. listing = "companies"
      BY <2>1 DEF changeStage
  <2>4. Fits(f)
      BY <1>0, <2>2, <2>3 DEF Fits, Filters
  <2>5. Visited /\ updateSearch(f)
      BY <2>1, <2>2, <2>3 DEF changeStage, Visited
  <2>6. QED
      BY <2>4, <2>5, SearchKeeps
<1>6. CASE \E o \in CompanyOwners : changeOwner(o)
  <2>1. PICK o \in CompanyOwners : changeOwner(o)
      BY <1>6
  <2>2. PICK v : v = IF of.view \in {"mine", "unassigned"} THEN "active" ELSE of.view
      OBVIOUS
  <2>3. PICK f : f = [of EXCEPT !.owner = o, !.view = v]
      OBVIOUS
  <2>4. listing = "companies"
      BY <2>1 DEF changeOwner
  <2>5. v \in COMPANY_VIEWS /\ v \notin {"mine", "unassigned"}
      BY <1>0, <2>2, <2>4 DEF Fits, COMPANY_VIEWS
  <2>6. Fits(f)
    <3>1. f \in Filters
        BY <1>0, <2>3, <2>5, FilterChanges
    <3>2. f.view = v /\ f.company = of.company
        BY <1>0, <2>3 DEF Filters
    <3>3. QED
        BY <1>0, <2>4, <2>5, <3>1, <3>2 DEF Fits
  <2>7. updateSearch([of EXCEPT !.owner = o,
                       !.view = IF @ \in {"mine", "unassigned"} THEN "active" ELSE @])
      BY <2>1 DEF changeOwner
  <2>8. f = [of EXCEPT !.owner = o,
                       !.view = IF @ \in {"mine", "unassigned"} THEN "active" ELSE @]
      BY <1>0, <2>2, <2>3 DEF Filters
  <2>9. Visited /\ updateSearch(f)
      BY <2>4, <2>7, <2>8 DEF Visited
  <2>10. QED
      BY <2>6, <2>9, SearchKeeps
<1>7. CASE \E s \in {"", "name"} : changeSort(s)
  <2>1. PICK s \in {"", "name"} : changeSort(s)
      BY <1>7
  <2>2. PICK f : f = [of EXCEPT !.sort = s]
      OBVIOUS
  <2>3. listing = "companies"
      BY <2>1 DEF changeSort
  <2>4. Fits(f)
      BY <1>0, <2>2, <2>3 DEF Fits, Filters
  <2>5. Visited /\ updateSearch(f)
      BY <2>1, <2>2, <2>3 DEF changeSort, Visited
  <2>6. QED
      BY <2>4, <2>5, SearchKeeps
<1>8. CASE \E c \in {"", "one"} : changeCompany(c)
  <2>1. PICK c \in {"", "one"} : changeCompany(c)
      BY <1>8
  <2>2. PICK f : f = [of EXCEPT !.company = c]
      OBVIOUS
  <2>3. listing = "contacts"
      BY <2>1 DEF changeCompany
  <2>4. Fits(f)
      BY <1>0, <2>2, <2>3 DEF Fits, Filters
  <2>5. Visited /\ updateSearch(f)
      BY <2>1, <2>2, <2>3 DEF changeCompany, Visited
  <2>6. QED
      BY <2>4, <2>5, SearchKeeps
<1>9. QED
    BY <1>1, <1>2, <1>3, <1>4, <1>5, <1>6, <1>7, <1>8

\* Steps that leave the filters alone.
LEMMA SameFilters ==
    ASSUME ListsInv, listing' \in {listing, "away"}, url' \in Url, url'.of = url.of,
           deferred' \in {"", "text"},
           pageRows' \in {"none", "pending", "some", "empty", "failed"},
           listOverlay' \in [name : Overlays, row : Rows \cup {0}],
           inline' \in Mutating, toggle' \in Mutating
    PROVE  ListsInv'
BY DEF ListsInv, ListsTypeOK, OwnerHasTheView

\* The menu or dialog of a row, or of none.
LEMMA OverlayType ==
    ASSUME NEW name \in Overlays, NEW r \in Rows \cup {0}
    PROVE  /\ [name |-> name, row |-> r] \in [name : Overlays, row : Rows \cup {0}]
           /\ NoOverlay \in [name : Overlays, row : Rows \cup {0}]
           /\ [NoOverlay EXCEPT !.name = name] \in [name : Overlays, row : Rows \cup {0}]
BY DEF NoOverlay, Overlays

\* Every step of the lists keeps the invariant.
LEMMA StepLists == ListsInv /\ [ListsNext]_listVars => ListsInv'
<1> SUFFICES ASSUME ListsInv, [ListsNext]_listVars PROVE ListsInv'
    OBVIOUS
<1>0. /\ listing \in {"none", "companies", "contacts", "away"} /\ url \in Url
      /\ url.of \in Filters
      /\ deferred \in {"", "text"} /\ pageRows \in {"none", "pending", "some", "empty", "failed"}
      /\ listOverlay \in [name : Overlays, row : Rows \cup {0}]
      /\ inline \in Mutating /\ toggle \in Mutating
    BY DEF ListsInv, ListsTypeOK, Url
<1>1. CASE UNCHANGED listVars
    BY <1>0, <1>1, SameFilters DEF listVars
<1>2. CASE \E name \in {"companies", "contacts"} : OpenList(name)
  <2>1. PICK name \in {"companies", "contacts"} : OpenList(name)
      BY <1>2
  <2>2. /\ listing = "none" /\ listing' = name /\ url.of = NoFilters
        /\ pageRows' \in {"pending", "some", "empty"} /\ UNCHANGED <<deferred, inline, toggle>>
        /\ \/ UNCHANGED <<url, listOverlay>>
           \/ listOverlay' = [NoOverlay EXCEPT !.name = "create"] /\ UNCHANGED url
           \/ \E r \in Rows : url' = [FirstUrl EXCEPT !.open = r] /\ UNCHANGED listOverlay
      BY <2>1 DEF OpenList, ListsInv
  <2>3. url' \in Url /\ url'.of = NoFilters
    <3>1. CASE UNCHANGED url
        BY <1>0, <2>2, <3>1
    <3>2. CASE \E r \in Rows : url' = [FirstUrl EXCEPT !.open = r]
      <4>1. PICK r \in Rows : url' = [FirstUrl EXCEPT !.open = r]
          BY <3>2
      <4>2. 1 \in 1..LastPage
          BY ListsAssumption
      <4>3. QED
          BY <4>1, <4>2, NoFiltersType, UrlChanges
    <3>3. QED
        BY <2>2, <3>1, <3>2
  <2>4. listOverlay' \in [name : Overlays, row : Rows \cup {0}]
    <3>1. "create" \in Overlays /\ 0 \in Rows \cup {0}
        BY DEF Overlays
    <3>2. QED
        BY <1>0, <2>2, <3>1, OverlayType
  <2>5. ListsTypeOK'
      BY <1>0, <2>2, <2>3, <2>4, NoFiltersType DEF ListsTypeOK, COMPANY_VIEWS, CONTACT_VIEWS
  <2>6. QED
      BY <2>2, <2>3, <2>5, NoFiltersType DEF ListsInv, OwnerHasTheView
<1>3. CASE LeaveList
  <2>1. /\ listing' = "away" /\ url' = FirstUrl /\ deferred' = "" /\ pageRows' = "none"
        /\ listOverlay' = NoOverlay /\ inline' = "idle" /\ toggle' = "idle"
      BY <1>3 DEF LeaveList
  <2>2. listOverlay' \in [name : Overlays, row : Rows \cup {0}]
      BY <2>1 DEF NoOverlay, Overlays
  <2>3. QED
      BY <2>1, <2>2, NoFiltersType DEF ListsInv, ListsTypeOK, OwnerHasTheView, Mutating
<1>4. CASE \/ \E text \in {"", "text"} : EntityListToolbar(text)
           \/ \E v \in COMPANY_VIEWS \cup CONTACT_VIEWS : selectView(v)
           \/ ClearOwner \/ clearFilters
           \/ \E s \in {"", "lead"} : changeStage(s)
           \/ \E o \in CompanyOwners : changeOwner(o)
           \/ \E s \in {"", "name"} : changeSort(s)
           \/ \E c \in {"", "one"} : changeCompany(c)
    BY <1>4, FiltersKeep
<1>5. CASE RowsArrive \/ RetryRows
  <2>1. /\ pageRows' \in {"pending", "some", "empty", "failed"}
        /\ UNCHANGED <<listing, url, deferred, listOverlay, inline, toggle>>
      BY <1>5 DEF RowsArrive, RetryRows
  <2>2. QED
      BY <1>0, <2>1, SameFilters
<1>6. CASE useDebouncedValue
  <2>1. /\ url' = url /\ deferred' = url.of.q
        /\ pageRows' \in {pageRows, "pending", "some", "empty"}
        /\ UNCHANGED <<listing, listOverlay, inline, toggle>>
      BY <1>6 DEF useDebouncedValue, Render
  <2>2. url.of.q \in {"", "text"}
      BY <1>0 DEF Filters
  <2>3. QED
      BY <1>0, <2>1, <2>2, SameFilters
<1>7. CASE \E p \in 1..LastPage : ListPagination(p)
  <2>1. PICK p \in 1..LastPage : ListPagination(p)
      BY <1>7
  <2>2. /\ url' = [url EXCEPT !.page = p] /\ deferred' = deferred
        /\ pageRows' \in {pageRows, "pending", "some", "empty"}
        /\ UNCHANGED <<listing, listOverlay, inline, toggle>>
      BY <2>1 DEF ListPagination, Render
  <2>3. url' \in Url /\ url'.of = url.of
      BY <1>0, <2>2, UrlChanges
  <2>4. QED
      BY <1>0, <2>2, <2>3, SameFilters
<1>8. CASE CloseRow \/ \E r \in Rows : OpenRow(r)
  <2>1. PICK r \in Rows \cup {0} : url' = [url EXCEPT !.open = r]
      BY <1>8 DEF CloseRow, OpenRow
  <2>2. UNCHANGED <<listing, deferred, pageRows, listOverlay, inline, toggle>>
      BY <1>8 DEF CloseRow, OpenRow
  <2>3. url' \in Url /\ url'.of = url.of
    <3>1. 1 \in 1..LastPage
        BY ListsAssumption
    <3>2. url \in Url /\ url.of \in Filters
        BY <1>0
    <3>3. QED
        BY ONLY <2>1, <3>1, <3>2, UrlChanges
  <2>4. QED
      BY <1>0, <2>2, <2>3, SameFilters
<1>9. CASE \/ OpenFilters \/ OpenCreate \/ CloseOverlay
           \/ \E r \in Rows : openInlineEdit(r) \/ OpenActions(r)
           \/ \E name \in {"edit", "confirm"} : FromActions(name)
  <2>1. UNCHANGED <<listing, url, deferred, pageRows, inline, toggle>>
      BY <1>9 DEF OpenFilters, OpenCreate, CloseOverlay, openInlineEdit, OpenActions,
                  FromActions, Overlay
  <2>2. listOverlay' \in [name : Overlays, row : Rows \cup {0}]
    <3>1. CASE OpenFilters
      <4>1. "filters" \in Overlays /\ 0 \in Rows \cup {0}
          BY DEF Overlays
      <4>2. QED
          BY <3>1, <4>1, OverlayType DEF OpenFilters
    <3>2. CASE OpenCreate \/ CloseOverlay \/ \E r \in Rows : openInlineEdit(r) \/ OpenActions(r)
      <4>1. \E name \in Overlays, r \in Rows \cup {0} : listOverlay' = [name |-> name, row |-> r]
          BY <3>2 DEF OpenCreate, CloseOverlay, openInlineEdit, OpenActions, Overlay, Overlays
      <4>2. QED
          BY <4>1, OverlayType
    <3>3. CASE \E name \in {"edit", "confirm"} : FromActions(name)
      <4>1. PICK name \in {"edit", "confirm"} : listOverlay' = [name |-> name, row |-> listOverlay.row]
          BY <3>3 DEF FromActions, Overlay
      <4>2. listOverlay.row \in Rows \cup {0} /\ name \in Overlays
          BY <1>0 DEF Overlays
      <4>3. QED
          BY <4>1, <4>2, OverlayType
    <3>4. QED
        BY <1>9, <3>1, <3>2, <3>3
  <2>3. QED
      BY <1>0, <2>1, <2>2, SameFilters
<1>10. CASE updateInline \/ runToggle \/ ServeRow \/ InlineAnswered \/ closeActions
  <2>1. /\ UNCHANGED <<listing, url, deferred>> /\ inline' \in Mutating /\ toggle' \in Mutating
        /\ pageRows' \in {pageRows, "some", "empty"} /\ listOverlay' \in {listOverlay, NoOverlay}
    <3>1. CASE updateInline \/ runToggle \/ ServeRow
        BY <1>0, <3>1 DEF updateInline, runToggle, ServeRow, Mutating
    <3>2. CASE InlineAnswered \/ closeActions
        BY <1>0, <3>2 DEF InlineAnswered, closeActions, Mutating
    <3>3. QED
        BY <1>10, <3>1, <3>2
  <2>2. NoOverlay \in [name : Overlays, row : Rows \cup {0}]
      BY DEF NoOverlay, Overlays
  <2>3. QED
      BY <1>0, <2>1, <2>2, SameFilters
<1>11. QED
    BY <1>1, <1>2, <1>3, <1>4, <1>5, <1>6, <1>7, <1>8, <1>9, <1>10 DEF ListsNext

\* A list that has not been opened.
LEMMA InitLists == ListsInit => ListsInv
<1>1. NoOverlay \in [name : Overlays, row : Rows \cup {0}]
    BY DEF NoOverlay, Overlays
<1>2. QED
    BY <1>1, NoFiltersType DEF ListsInit, ListsInv, ListsTypeOK, OwnerHasTheView, Mutating

\* The inductive invariant of the lists.
THEOREM ListsInvariance == ListsSpec => []ListsInv
BY InitLists, StepLists, PTL DEF ListsSpec

\* Each list has its own filters, and only those.
THEOREM ListsTypes == ListsSpec => []ListsTypeOK
<1>1. ListsInv => ListsTypeOK
    BY DEF ListsInv
<1>2. QED
    BY <1>1, ListsInvariance, PTL

\* useCompanyListController.ts: the owner that the filter and its chip show is
\* the one the rows are asked for with.
THEOREM OwnerIsAskedFor == ListsSpec => []OwnerShownIsApplied
<1>1. ListsInv => OwnerShownIsApplied
    BY DEF ListsInv, OwnerHasTheView, OwnerShownIsApplied, companyFilters, assignedTo
<1>2. QED
    BY <1>1, ListsInvariance, PTL

-----------------------------------------------------------------------------
(***************************************************************************)
(* The search.  SearchInv adds to the types that cached results are of the *)
(* workspace and the text of their key (ResultsAreTrue), and that the      *)
(* query under way is the one observed (SearchedIsObserved), so that its   *)
(* answer is computed from what is set by now, and within the bound of the *)
(* answers (AnswerIsDue).                                                  *)
(***************************************************************************)
ResultsAreTrue ==
    \A k \in SearchKeys : \A i \in DOMAIN found[k].results :
        found[k].results[i].of = k[2] /\ k[1] \in {0, found[k].results[i].organization}

SearchedIsObserved == searching # <<0, 0>> => searching = key

\* A search that is under way is within the bound.
AnswerIsDue == searching # <<0, 0>> => answers < MaxAnswers

SearchInv == GlobalSearchTypeOK /\ ResultsAreTrue /\ SearchedIsObserved /\ AnswerIsDue

SearchState == [open : BOOLEAN, query : Texts, activeIndex : 1..2, searchAllWorkspaces : BOOLEAN]

\* The groups hold the results of the answer and no others.
LEMMA GroupsAreOfTheAnswer ==
    ASSUME NEW l \in Seq(Results)
    PROVE  LET g == groupGlobalSearchResults(l)
           IN  /\ g \in Seq(Results) /\ Len(g) <= Len(l)
               /\ \A i \in DOMAIN g : \E p \in DOMAIN l : g[i] = l[p]
<1> DEFINE grouped == {i \in DOMAIN l : l[i].type \in Range(resultTypes)}
           R == {p \in grouped \X grouped : groupedBefore(l, p[1], p[2])}
<1>1. grouped \in SUBSET DOMAIN l
    OBVIOUS
<1>2. \A i \in grouped : i \in Nat /\ group(l[i]) \in 1..3
  <2> SUFFICES ASSUME NEW i \in grouped PROVE i \in Nat /\ group(l[i]) \in 1..3
      OBVIOUS
  <2>1. DOMAIN resultTypes = 1..3
      BY DEF resultTypes
  <2>2. i \in DOMAIN l /\ \E n \in DOMAIN resultTypes : resultTypes[n] = l[i].type
      BY DEF Range
  <2>3. QED
      BY <2>1, <2>2 DEF group
<1>3. \A i, j \in grouped : <<i, j>> \in R <=> groupedBefore(l, i, j)
    OBVIOUS
<1>4. \A i, j \in grouped : <<i, j>> \in R <=> \/ group(l[i]) < group(l[j])
                                              \/ (group(l[i]) = group(l[j]) /\ i < j)
    BY <1>3 DEF groupedBefore
<1> HIDE DEF R, grouped
<1>5. IsOrder(grouped, R)
  <2>1. \A i \in grouped : <<i, i>> \notin R
      BY <1>2, <1>4
  <2>2. \A x, y, z \in grouped : <<x, y>> \in R /\ <<y, z>> \in R => <<x, z>> \in R
    <3> SUFFICES ASSUME NEW x \in grouped, NEW y \in grouped, NEW z \in grouped,
                        <<x, y>> \in R, <<y, z>> \in R
                 PROVE  <<x, z>> \in R
        OBVIOUS
    <3>1. PICK a, b, c : a = group(l[x]) /\ b = group(l[y]) /\ c = group(l[z])
        OBVIOUS
    <3>2. /\ a < b \/ (a = b /\ x < y)
          /\ b < c \/ (b = c /\ y < z)
        BY <1>4, <3>1
    <3>3. a < c \/ (a = c /\ x < z)
      <4>1. /\ x \in Nat /\ y \in Nat /\ z \in Nat
            /\ a \in 1..3 /\ b \in 1..3 /\ c \in 1..3
          BY <1>2, <3>1
      <4>2. QED
          BY ONLY <3>2, <4>1
    <3>4. QED
        BY <1>4, <3>1, <3>3
  <2>3. \A x, y \in grouped : x # y => <<x, y>> \in R \/ <<y, x>> \in R
      BY <1>2, <1>4
  <2>4. QED
      BY <2>1, <2>2, <2>3 DEF IsOrder
<1>6. groupGlobalSearchResults(l) = Picked(l, grouped, R)
    BY DEF groupGlobalSearchResults, grouped, R
<1>7. PICK q : q = Picked(l, grouped, R)
    OBVIOUS
<1>8. /\ q \in Seq(Results) /\ Len(q) = Cardinality(grouped) /\ Cardinality(grouped) <= Len(l)
      /\ DOMAIN q = 1..Cardinality(grouped)
      /\ \A i \in 1..Cardinality(grouped) : \E p \in grouped : q[i] = l[p]
  <2>1. l \in Seq(Results)
      OBVIOUS
  <2>2. QED
      BY ONLY <1>1, <1>5, <1>7, <2>1, PickedOfTheList
<1>9. \A i \in DOMAIN q : \E p \in DOMAIN l : q[i] = l[p]
    BY ONLY <1>1, <1>8
<1>10. Len(q) <= Len(l)
    BY ONLY <1>8
<1>11. q = groupGlobalSearchResults(l)
    BY ONLY <1>6, <1>7
<1>12. QED
    BY <1>8, <1>9, <1>10, <1>11

\* What is on the list is of the scope and the query.
LEMMA ShownIsTrue ==
    ASSUME SearchInv
    PROVE  /\ displayedResults \in Seq(Results) /\ Len(displayedResults) <= 2
           /\ \A i \in DOMAIN displayedResults :
                 /\ displayedResults[i].organization \in Places
                 /\ scope \in {0, displayedResults[i].organization}
                 /\ displayedResults[i].of = debounced
<1>1. results \in Seq(Results) /\ Len(results) <= 2
      /\ \A p \in DOMAIN results : /\ scope \in {0, results[p].organization}
                                   /\ results[p].of = debounced
  <2>1. CASE debounced = 0
    <3>1. results = << >>
        BY <2>1 DEF results
    <3>2. QED
        BY <3>1
  <2>2. CASE debounced # 0
    <3>1. key = <<scope, debounced>> /\ scope \in Places \cup {0} /\ debounced \in Texts \ {0}
        BY <2>2 DEF key, globalSearchKey, scope, SearchInv, GlobalSearchTypeOK
    <3>2. key \in SearchKeys /\ key[1] = scope /\ key[2] = debounced
        BY <3>1 DEF SearchKeys
    <3>3. results = found[key].results
        BY <2>2 DEF results
    <3> HIDE DEF key, scope
    <3>4. QED
        BY <3>2, <3>3 DEF SearchInv, GlobalSearchTypeOK, ResultsAreTrue
  <2>3. QED
      BY <2>1, <2>2
<1> HIDE DEF results
<1>2. PICK g : g = displayedResults
    OBVIOUS
<1>3. g \in Seq(Results) /\ Len(g) <= Len(results)
      /\ \A i \in DOMAIN g : \E p \in DOMAIN results : g[i] = results[p]
    BY <1>1, <1>2, GroupsAreOfTheAnswer DEF displayedResults
<1>4. Len(g) \in Nat /\ Len(results) \in Nat
    BY <1>1, <1>3
<1>5. \A i \in DOMAIN g : g[i].organization \in Places
  <2>1. \A i \in DOMAIN g : g[i] \in Results
      BY ONLY <1>3
  <2>2. QED
      BY ONLY <2>1 DEF Results
<1>6. QED
    BY <1>1, <1>2, <1>3, <1>4, <1>5

\* The query that is observed next: SearchInv is about nothing else of a step
\* that observes.
LEMMA StepObserving ==
    ASSUME SearchInv, NEW at \in Places \cup {0}, NEW s \in SearchState, NEW text \in Texts,
           Observing(at, s, text), UNCHANGED <<found, answers>>
    PROVE  SearchInv'
<1>1. PICK k : k = globalSearchKey(at, s, text)
    OBVIOUS
<1>2. /\ current' = at /\ search' = s /\ debounced' = text
      /\ searching' = IF searching = k THEN searching ELSE <<0, 0>>
    BY <1>1 DEF Observing
<1>3. key' = k
    BY <1>1, <1>2 DEF key, globalSearchKey
<1>4. SearchedIsObserved'
    BY <1>2, <1>3 DEF SearchedIsObserved
<1>5. searching' \in SearchKeys \cup {<<0, 0>>}
    BY <1>2 DEF SearchInv, GlobalSearchTypeOK
<1>6. GlobalSearchTypeOK'
    BY <1>2, <1>5 DEF SearchInv, GlobalSearchTypeOK, SearchState
<1>7. ResultsAreTrue'
    BY DEF SearchInv, ResultsAreTrue
<1>8. AnswerIsDue'
    BY <1>2 DEF SearchInv, AnswerIsDue
<1>9. QED
    BY <1>4, <1>6, <1>7, <1>8 DEF SearchInv

\* A search that has not been opened.
LEMMA InitSearch == GlobalSearchInit => SearchInv
<1> SUFFICES ASSUME GlobalSearchInit PROVE SearchInv
    OBVIOUS
<1>1. \A k \in SearchKeys : found[k].known = FALSE /\ found[k].results = << >>
    BY DEF GlobalSearchInit, NoResults
<1>2. << >> \in Seq(Results) /\ Len(<< >>) <= 2 /\ DOMAIN << >> = {}
    OBVIOUS
<1>3. search \in SearchState
    BY DEF GlobalSearchInit, initialGlobalSearchState, SearchState, Texts
<1>4. GlobalSearchTypeOK
  <2>1. /\ current \in Places \cup {0} /\ debounced \in Texts /\ answers \in 0..MaxAnswers
        /\ DOMAIN found = SearchKeys /\ searching \in SearchKeys \cup {<<0, 0>>}
      BY GlobalSearchAssumption DEF GlobalSearchInit, Places, Texts
  <2>2. QED
      BY <1>1, <1>2, <1>3, <2>1 DEF GlobalSearchTypeOK, SearchState
<1>5. ResultsAreTrue
    BY <1>1, <1>2 DEF ResultsAreTrue
<1>6. SearchedIsObserved /\ AnswerIsDue
    BY DEF GlobalSearchInit, SearchedIsObserved, AnswerIsDue
<1>7. QED
    BY <1>4, <1>5, <1>6 DEF SearchInv

\* What comes back for the query under way: it is the one observed, so its
\* results, taken of the scope of now, are of its key.
LEMMA StepAnswered == ASSUME SearchInv, SearchAnswered PROVE SearchInv'
<1> DEFINE matching == {r \in Results : r.of = searching[2] /\ scope \in {0, r.organization}}
<1>1. /\ searching # <<0, 0>> /\ searching' = <<0, 0>> /\ answers' = answers + 1
      /\ UNCHANGED <<current, search, debounced>>
    BY DEF SearchAnswered
<1>2. searching \in SearchKeys /\ searching = key
    BY <1>1 DEF SearchInv, GlobalSearchTypeOK, SearchedIsObserved
<1>3. searching[1] = scope
    BY <1>2 DEF key, globalSearchKey, scope
<1>4. PICK listed \in {<< >>} \cup {<<a>> : a \in matching}
                     \cup {<<p[1], p[2]>> : p \in {q \in matching \X matching : q[1] # q[2]}} :
          found' = [found EXCEPT ![searching] = [known |-> TRUE, results |-> listed]]
    BY DEF SearchAnswered
<1> DEFINE M == matching
<1>50. M \subseteq Results
    OBVIOUS
<1>51. \/ listed = << >> \/ \E a \in M : listed = <<a>>
       \/ \E a, b \in M : listed = <<a, b>>
    BY <1>4
<1>52. \A r \in M : r.of = searching[2] /\ scope \in {0, r.organization}
    OBVIOUS
<1> HIDE DEF M
<1>5. listed \in Seq(M) /\ Len(listed) <= 2
  <2>1. CASE listed = << >>
      BY ONLY <2>1
  <2>2. CASE \E a \in M : listed = <<a>>
      BY ONLY <2>2
  <2>3. CASE \E a, b \in M : listed = <<a, b>>
      BY ONLY <2>3
  <2>4. QED
      BY <1>51, <2>1, <2>2, <2>3
<1>6. \A i \in DOMAIN listed : listed[i] \in M
    BY <1>5
<1>7. listed \in Seq(Results)
    BY ONLY <1>5, <1>50
<1>8. PICK c : c = [known |-> TRUE, results |-> listed]
    OBVIOUS
<1>9. c.known = TRUE /\ c.results = listed
    BY <1>8
<1>10. \A i \in DOMAIN listed : listed[i].of = searching[2]
                             /\ searching[1] \in {0, listed[i].organization}
    BY <1>3, <1>6, <1>52
<1>11. /\ DOMAIN found = SearchKeys
       /\ found' = [found EXCEPT ![searching] = c]
    BY <1>4, <1>8 DEF SearchInv, GlobalSearchTypeOK
<1>12. /\ DOMAIN found' = SearchKeys /\ found'[searching] = c
       /\ \A k \in SearchKeys : k # searching => found'[k] = found[k]
    BY ONLY <1>2, <1>11
<1>13. \A k \in SearchKeys : /\ found'[k].known \in BOOLEAN
                             /\ found'[k].results \in Seq(Results)
                             /\ Len(found'[k].results) <= 2
    BY <1>5, <1>7, <1>9, <1>12 DEF SearchInv, GlobalSearchTypeOK
<1>14. ResultsAreTrue'
    BY <1>9, <1>10, <1>12 DEF SearchInv, ResultsAreTrue
<1>15. answers' \in 0..MaxAnswers
    BY <1>1, GlobalSearchAssumption DEF SearchInv, GlobalSearchTypeOK, AnswerIsDue
<1>16. GlobalSearchTypeOK'
    BY <1>1, <1>12, <1>13, <1>15 DEF SearchInv, GlobalSearchTypeOK
<1>17. QED
    BY <1>1, <1>14, <1>16 DEF SearchInv, SearchedIsObserved, AnswerIsDue

\* No step of the dialog, the reader's or the server's disturbs it.
LEMMA StepSearch == ASSUME SearchInv, [GlobalSearchNext]_searchVars PROVE SearchInv'
<1> USE DEF SearchState
<1>0. /\ current \in Places \cup {0} /\ search \in SearchState /\ debounced \in Texts
      /\ searching \in SearchKeys \cup {<<0, 0>>} /\ answers \in 0..MaxAnswers
      /\ search.query \in Texts
    BY DEF SearchInv, GlobalSearchTypeOK
<1>00. initialGlobalSearchState \in SearchState
    BY DEF initialGlobalSearchState, Texts
<1>1. CASE UNCHANGED searchVars
    BY <1>1 DEF SearchInv, searchVars, GlobalSearchTypeOK, ResultsAreTrue, SearchedIsObserved,
                key, globalSearchKey, AnswerIsDue
<1>2. CASE openSearch
  <2>1. PICK s : s = [search EXCEPT !.open = TRUE, !.searchAllWorkspaces = FALSE]
      OBVIOUS
  <2>2. s \in SearchState
      BY ONLY <1>0, <2>1 DEF SearchState
  <2>3. Observing(current, s, debounced) /\ UNCHANGED <<found, answers>>
      BY <1>2, <2>1 DEF openSearch
  <2>4. QED
      BY <1>0, <2>2, <2>3, StepObserving
<1>3. CASE CloseSearch
    BY <1>0, <1>00, <1>3, StepObserving DEF CloseSearch, closeSearch
<1>4. CASE DebounceEnds
    BY <1>0, <1>4, StepObserving DEF DebounceEnds
<1>5. CASE \E text \in Texts : queryChanged(text)
  <2>1. PICK text \in Texts : queryChanged(text)
      BY <1>5
  <2>2. PICK s : s = [search EXCEPT !.query = text, !.activeIndex = 1]
      OBVIOUS
  <2>3. s \in SearchState
    <3>1. text \in Texts /\ 1 \in 1..2
        BY <2>1
    <3>2. QED
        BY ONLY <1>0, <2>2, <3>1 DEF SearchState
  <2>4. Observing(current, s, debounced) /\ UNCHANGED <<found, answers>>
      BY <2>1, <2>2 DEF queryChanged
  <2>5. QED
      BY <1>0, <2>3, <2>4, StepObserving
<1>6. CASE \E all \in BOOLEAN : scopeChanged(all)
  <2>1. PICK all \in BOOLEAN : scopeChanged(all)
      BY <1>6
  <2>2. PICK s : s = [search EXCEPT !.searchAllWorkspaces = all, !.activeIndex = 1]
      OBVIOUS
  <2>3. s \in SearchState
    <3>1. all \in BOOLEAN /\ 1 \in 1..2
        BY <2>1
    <3>2. QED
        BY ONLY <1>0, <2>2, <3>1 DEF SearchState
  <2>4. Observing(current, s, debounced) /\ UNCHANGED <<found, answers>>
      BY <2>1, <2>2 DEF scopeChanged
  <2>5. QED
      BY <1>0, <2>3, <2>4, StepObserving
<1>7. CASE useGlobalSearch
  <2>1. key \in SearchKeys
      BY <1>0, <1>7 DEF useGlobalSearch, key, globalSearchKey, SearchKeys
  <2>2. key' = key
      BY <1>7 DEF useGlobalSearch, key, globalSearchKey
  <2>3. QED
      BY <1>7, <2>1, <2>2 DEF useGlobalSearch, SearchInv, GlobalSearchTypeOK, ResultsAreTrue,
                              SearchedIsObserved, AnswerIsDue
<1>8. CASE SearchAnswered
    BY <1>8, StepAnswered
<1>9. CASE SearchFails
    BY <1>9, GlobalSearchAssumption
       DEF SearchFails, SearchInv, GlobalSearchTypeOK, ResultsAreTrue, SearchedIsObserved,
           AnswerIsDue
<1>10. ASSUME NEW i \in 1..2, activeIndexChanged(i) PROVE SearchInv'
  <2>1. PICK s : s = [search EXCEPT !.activeIndex = i]
      OBVIOUS
  <2>2. s \in SearchState /\ s.searchAllWorkspaces = search.searchAllWorkspaces
      BY ONLY <1>0, <1>10, <2>1 DEF SearchState
  <2>3. search' = s /\ UNCHANGED <<current, debounced, found, searching, answers>>
      BY <1>10, <2>1 DEF activeIndexChanged
  <2>4. key' = key
      BY <2>2, <2>3 DEF key, globalSearchKey
  <2>5. QED
      BY <2>2, <2>3, <2>4 DEF SearchInv, GlobalSearchTypeOK, ResultsAreTrue, SearchedIsObserved,
             AnswerIsDue
<1>11. ASSUME NEW i \in DOMAIN displayedResults, selectResult(displayedResults[i]) PROVE SearchInv'
  <2>1. displayedResults[i].organization \in Places
      BY ShownIsTrue
  <2>2. QED
      BY <1>0, <1>00, <1>11, <2>1, StepObserving DEF selectResult
<1>12. CASE \E i \in 1..2 : Click(i)
    BY <1>11, <1>12 DEF Click
<1>13. CASE Enter
  <2>1. PICK g : g = displayedResults
      OBVIOUS
  <2>2. g \in Seq(Results) /\ g # << >> /\ search.activeIndex \in 1..2
      BY <1>0, <1>13, <2>1, ShownIsTrue DEF Enter
  <2>3. PICK i : i = IF search.activeIndex <= Len(g) THEN search.activeIndex ELSE 1
      OBVIOUS
  <2>4. i \in DOMAIN g
    <3>1. Len(g) \in Nat /\ Len(g) >= 1 /\ DOMAIN g = 1..Len(g)
        BY ONLY <2>2
    <3>2. QED
        BY ONLY <2>2, <2>3, <3>1
  <2>5. selectResult(displayedResults[i])
      BY <1>13, <2>1, <2>3 DEF Enter
  <2>6. QED
      BY <1>11, <2>1, <2>4, <2>5
<1>14. CASE \E place \in Places \cup {0} : GoTo(place)
    BY <1>0, <1>14, StepObserving DEF GoTo
<1>15. QED
    BY <1>1, <1>2, <1>3, <1>4, <1>5, <1>6, <1>7, <1>8, <1>9, <1>10, <1>12, <1>13, <1>14
       DEF GlobalSearchNext

\* The inductive invariant of the search.
THEOREM SearchInvariance == GlobalSearchSpec => []SearchInv
BY InitSearch, StepSearch, PTL DEF GlobalSearchSpec

\* globalSearchReducer: the highlighted index is a place of a list of results,
\* and what is cached is a list of them under each scope and text.
THEOREM SearchTypes == GlobalSearchSpec => []GlobalSearchTypeOK
<1>1. SearchInv => GlobalSearchTypeOK
    BY DEF SearchInv
<1>2. QED
    BY <1>1, SearchInvariance, PTL

\* displayedResults in GlobalSearch.tsx: what is listed is of the workspace and
\* the text that are set by now, whatever was cached before or arrives late.
THEOREM ResultsAreOfScope == GlobalSearchSpec => []ResultsAreOfTheirScope
<1>1. SearchInv => ResultsAreOfTheirScope
    BY ShownIsTrue DEF ResultsAreOfTheirScope
<1>2. QED
    BY <1>1, SearchInvariance, PTL

(***************************************************************************)
(* The parts in one run: a behaviour of it is, for each part, one of that  *)
(* part, in which the others stutter.                                      *)
(***************************************************************************)
THEOREM RunIsOfEveryPart ==
    WorkspaceDataSpec => CacheSpec /\ BoardSpec /\ FormsSpec /\ ListsSpec /\ GlobalSearchSpec
<1>1. WorkspaceDataInit =>
          CacheInit /\ BoardInit /\ FormsInit /\ ListsInit /\ GlobalSearchInit
    BY DEF WorkspaceDataInit
<1>2. [WorkspaceDataNext]_workspaceDataVars =>
          /\ [CacheNext]_cacheVars /\ [BoardNext]_boardVars /\ [FormsNext]_formsVars
          /\ [ListsNext]_listVars /\ [GlobalSearchNext]_searchVars
    BY DEF WorkspaceDataNext, workspaceDataVars
<1>3. QED
    BY <1>1, <1>2, PTL DEF WorkspaceDataSpec, CacheSpec, BoardSpec, FormsSpec, ListsSpec,
                           GlobalSearchSpec

\* Whatever arrives late, overlaps or fails, the cache, the lanes of the board,
\* the fields of a form, the lists and the search hold values of the shape their
\* components read.
THEOREM WorkspaceDataTypes == WorkspaceDataSpec => []WorkspaceDataTypeOK
<1>1. CacheTypeOK /\ BoardTypeOK /\ FormsTypeOK /\ ListsTypeOK /\ GlobalSearchTypeOK
      => WorkspaceDataTypeOK
    BY DEF WorkspaceDataTypeOK
<1>2. QED
    BY <1>1, RunIsOfEveryPart, CacheTypesHold, BoardTypes, FormsTypesHold, ListsTypes,
       SearchTypes, PTL
=============================================================================
