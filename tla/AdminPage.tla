------------------------------ MODULE AdminPage ------------------------------
(***************************************************************************)
(* The pages of the administrator (src/frontend/src/app/admin:             *)
(* AdminPageContent.tsx) and what AdminService answers them.  Each tab has *)
(* a route of its own, so going to another tab mounts the component anew   *)
(* and loses all of its state: a behaviour is one mount, and activeTab     *)
(* never changes.  The tab "terminal" shows the component of Terminals.    *)
(*                                                                         *)
(* Whatever the page asks for is answered later and in any order, and the  *)
(* code that runs then still has the variables of the moment it was        *)
(* called.  Of a user the model keeps the status and whose name and        *)
(* address the document holds; of a list, the view it answers and the      *)
(* rows; of the form, whose it is and whether it was changed, so that the  *)
(* status and the role it sets are left open.  A request may fail at any   *)
(* time, for whatever reason.  Left out: the password form, the reason of  *)
(* a rejection, the commands for a device (PendingCommands), the           *)
(* parameters in the URL, the window with a log entry, the keyboard but    *)
(* for Escape.                                                             *)
(***************************************************************************)
EXTENDS Terminals, FiniteSetsExt

CONSTANTS
    Resident,           \* ids of user documents
    Device,             \* ids of devices
    Filter,             \* values of the filter
    Rest,               \* search text, sort and limit
    Found,              \* the users each of these finds
    LastPage,           \* bound: pages of a list
    PageSize,           \* rows of a page
    FirstFilter, FirstRest, \* what the page starts with
    Nobody,             \* no user, no device, no list
    MaxClicks           \* bound: changes of the view, and requests

ASSUME PageAssumption ==
    /\ LastPage \in Nat \ {0} /\ MaxClicks \in Nat
    /\ PageSize \in Nat \ {0} /\ Found \in [Rest -> SUBSET Resident]
    /\ FirstFilter \in Filter /\ FirstRest \in Rest
    /\ Nobody \notin Resident \cup Device

VARIABLES
    activeTab,
    resident,           \* the user documents
    view,               \* the filter (or logsOpenedBy), page, search, sort, limit
    shown,              \* usersData, logsData, deviceStatusData
    fetches,            \* loads under way; of one view, the older ones are one
    loading, error,
    modal,              \* which modals are open
    selected,           \* selectedUser
    toDelete,           \* userToDelete
    form,               \* editFormData, while the edit modal is open
    handlers,           \* handlers that await a request
    diagnosis,          \* diagnosticsDeviceId, -Data, -Loading, -Error
    asked,              \* devices whose diagnostics are under way
    (* history *)
    stray,              \* the list asked for or answered last is of another view
    crossed,            \* the answer to a rejection found the edit modal open
    overlapped,         \* diagnostics of another device came into the open modal
    clicks

listVars == <<view, shown, fetches, loading, error, stray>>
dialogVars == <<modal, selected, toDelete, form, crossed>>
diagnosisVars == <<diagnosis, asked, overlapped>>
pageVars == <<resident, listVars, dialogVars, handlers, diagnosisVars, clicks>>
adminVars == <<activeTab, pageVars, terminalVars>>

Tabs == {"users", "logs", "devices", "terminal"}
Status == {"pending", "approved", "rejected", "archived"}
Doc == [status : Status \cup {"deleted"}, of : Resident \cup {Nobody}]
Chosen == [id : Resident, of : Resident \cup {Nobody}]
ASSUME NobodyAssumption == Nobody \notin Chosen

Row == [id : Resident, doc : Doc]
View == [filter : Filter, page : 1 .. LastPage, rest : Rest]
Fetch == [view : View, newest : BOOLEAN, silent : BOOLEAN]
Modal == {"reject", "edit", "delete", "all", "confirm"}
HandlerKind == {"approve", "archive", "reactivate", "other", "reject", "delete",
                "all", "edit", "role"}

\* A handler that awaits its request: the row it was called for, whose form it
\* sends, and the view it was rendered with.  Two that are alike are one.
Handler == [kind : HandlerKind, user : Resident \cup {Nobody},
            of : Resident \cup {Nobody}, view : View, phase : {"sent", "served"}]

NoForm == [of |-> Nobody, changed |-> FALSE]

\* Every change of the view and every request counts.
Click == clicks < MaxClicks /\ clicks' = clicks + 1

\* A step of the tabs that are lists.
OnPage == activeTab # "terminal" /\ UNCHANGED <<activeTab, terminalVars>>

-----------------------------------------------------------------------------
(* Loading a list *)

\* Requests that a new one has made old.
Aged(set) == {[l EXCEPT !.newest = FALSE] : l \in set}

\* What the two effects send when the view has changed: loadUsers twice.
Loads(v) ==
    {[view |-> v, newest |-> TRUE, silent |-> FALSE]}
        \cup (IF activeTab = "users"
              THEN {[view |-> v, newest |-> FALSE, silent |-> FALSE]} ELSE {})

Spin == loading' = TRUE /\ error' = FALSE

\* The view changes and is loaded.
Show(v, sent) ==
    /\ view' = v /\ fetches' = Aged(sent) \cup Loads(v)
    /\ Spin /\ stray' = FALSE
    /\ UNCHANGED shown

\* loadUsers as a handler calls it: of the view it was rendered with.
Reload(v) ==
    /\ fetches' = Aged(fetches)
                      \cup {[view |-> v, newest |-> TRUE, silent |-> FALSE]}
    /\ Spin /\ stray' = (v # view)
    /\ UNCHANGED <<view, shown>>

\* setUsersPage(1), and loadUsers, which still has the old page.
ReloadFirstPage(v) ==
    IF view.page = 1 THEN Reload(v)
    ELSE Show([view EXCEPT !.page = 1],
              fetches \cup {[view |-> v, newest |-> TRUE, silent |-> FALSE]})

\* getUsers: the users that pass the filter and the search.  Nobody can do
\* anything with an entry of the log.
Rows(v) ==
    {[id |-> u, doc |-> resident[u]] :
        u \in {w \in Found[v.rest] : /\ activeTab = "users"
                                     /\ resident[w].status # "deleted"
                                     /\ v.filter \in {"all", resident[w].status}}}

\* skip() and limit(); in which order is left open.
PageOf(rows, p) ==
    LET count == Cardinality(rows) IN
    {some \in SUBSET rows :
        Cardinality(some) = Max({0, Min({PageSize, count - (p - 1) * PageSize})})}

\* A list arrives.
ListAnswers(l) ==
    /\ l \in fetches
    /\ fetches' = fetches \ {l}
    /\ \E rows \in PageOf(Rows(l.view), l.view.page) :
          shown' = [view |-> l.view, rows |-> rows]
    /\ loading' = (loading /\ l.silent)
    /\ stray' = (stray \/ (l.view # view /\ \A k \in fetches \ {l} : ~k.newest))
    /\ UNCHANGED <<view, error, resident, dialogVars, handlers, diagnosisVars,
                   clicks>>
    /\ OnPage

\* Mutant of ListFails: setLoading(FALSE) is not in finally.
ListFailsSpinning(l) ==
    /\ l \in fetches
    /\ fetches' = fetches \ {l} /\ error' = TRUE
    /\ UNCHANGED <<view, shown, loading, stray, resident, dialogVars, handlers,
                   diagnosisVars, clicks>>
    /\ OnPage

ListFails(l) ==
    /\ l \in fetches
    /\ fetches' = fetches \ {l}
    /\ loading' = (loading /\ l.silent) /\ error' = TRUE
    /\ UNCHANGED <<view, shown, stray, resident, dialogVars, handlers, diagnosisVars,
                   clicks>>
    /\ OnPage

AdminInit ==
    /\ activeTab \in Tabs
    /\ resident = [u \in Resident |-> [status |-> "pending", of |-> u]]
    /\ view = [filter |-> FirstFilter, page |-> 1, rest |-> FirstRest]
    /\ fetches = IF activeTab = "terminal" THEN {} ELSE Loads(view)
    /\ shown = [view |-> Nobody, rows |-> {}] /\ loading = TRUE /\ error = FALSE
    /\ modal = {} /\ selected = Nobody /\ toDelete = Nobody
    /\ form = NoForm
    /\ handlers = {}
    /\ diagnosis = [device |-> Nobody, data |-> Nobody,
                    loading |-> FALSE, error |-> FALSE]
    /\ asked = {}
    /\ stray = FALSE /\ crossed = FALSE /\ overlapped = FALSE /\ clicks = 0
    /\ TerminalInit

-----------------------------------------------------------------------------
(* The view *)

\* A window that covers the page.
Rejecting == "reject" \in modal /\ selected # Nobody
Editing == "edit" \in modal /\ selected # Nobody
Covered ==
    \/ Rejecting \/ Editing \/ modal \cap {"delete", "all", "confirm"} # {}
    \/ diagnosis.device # Nobody

Paged == activeTab \in {"users", "logs"}
Listed == ~Covered /\ ~loading /\ ~error /\ shown.view # Nobody

ViewStep ==
    UNCHANGED <<resident, dialogVars, handlers, diagnosisVars>> /\ Click /\ OnPage

\* Mutant of SetFilter: loadUsers does not depend on the filter.
SetFilterOnly(f) ==
    /\ Paged /\ ~Covered /\ f # view.filter
    /\ view' = [view EXCEPT !.filter = f, !.page = 1] /\ stray' = FALSE
    /\ UNCHANGED <<fetches, shown, loading, error>>
    /\ ViewStep

\* A button or a select of the filter.
SetFilter(f) ==
    /\ Paged /\ ~Covered /\ f # view.filter
    /\ Show([view EXCEPT !.filter = f, !.page = 1], fetches)
    /\ ViewStep

\* The limit, or the head of a column (handleSort).
Arrange(r) ==
    /\ Paged /\ ~Covered /\ r # view.rest
    /\ Show([view EXCEPT !.rest = r, !.page = 1], fetches)
    /\ ViewStep

\* 300 ms after the last key in the search field.  The page stays what it was.
SearchDebounced(r) ==
    /\ Paged /\ r # view.rest
    /\ Show([view EXCEPT !.rest = r], fetches)
    /\ ViewStep

\* Mutant of GoToPage: the button behind the last page.
GoPastPage(p) ==
    /\ Paged /\ Listed
    /\ Show([view EXCEPT !.page = p + 1], fetches)
    /\ ViewStep

\* The buttons below a list.
GoToPage(p) ==
    /\ Paged /\ Listed /\ p # view.page
    /\ Show([view EXCEPT !.page = p], fetches)
    /\ ViewStep

\* loadDeviceStatus every five seconds: no spinner, and error stays.
RefreshSilently ==
    /\ activeTab = "devices"
    /\ fetches' = Aged(fetches)
                      \cup {[view |-> view, newest |-> TRUE, silent |-> TRUE]}
    /\ UNCHANGED <<view, shown, loading, error, stray, resident, dialogVars,
                   handlers, diagnosisVars, clicks>>
    /\ OnPage

\* The button of the devices tab.
RefreshDevices ==
    /\ activeTab = "devices" /\ ~Covered /\ ~loading
    /\ Reload(view)
    /\ ViewStep

-----------------------------------------------------------------------------
(* Rows and modals *)

\* Something to do with a row.  The bound ends that too.
OnRow(r) ==
    activeTab = "users" /\ Listed /\ r \in shown.rows /\ clicks < MaxClicks

Begin(kind, user, of) ==
    handlers' = handlers \cup {[kind |-> kind, user |-> user, of |-> of,
                                view |-> view, phase |-> "sent"]}

\* A handler starts: the page changes when its request is answered.
HandlerStep ==
    UNCHANGED <<resident, listVars, dialogVars, diagnosisVars>> /\ Click /\ OnPage

Approve(r) ==
    /\ OnRow(r) /\ r.doc.status = "pending" /\ Begin("approve", r.id, Nobody)
    /\ HandlerStep

Archive(r) ==
    /\ OnRow(r) /\ r.doc.status # "archived" /\ Begin("archive", r.id, Nobody)
    /\ HandlerStep

Reactivate(r) ==
    /\ OnRow(r) /\ r.doc.status = "archived" /\ Begin("reactivate", r.id, Nobody)
    /\ HandlerStep

\* handleSendApprovalEmail, handleResetDevice: nothing the list shows here.
MailOrResetDevice(r) ==
    /\ OnRow(r) /\ Begin("other", r.id, Nobody)
    /\ HandlerStep

DialogStep ==
    UNCHANGED <<resident, listVars, handlers, diagnosisVars, clicks>> /\ OnPage

OpenReject(r) ==
    /\ OnRow(r) /\ r.doc.status = "pending"
    /\ modal' = modal \cup {"reject"}
    /\ selected' = [id |-> r.id, of |-> r.doc.of]
    /\ UNCHANGED <<toDelete, form, crossed>> /\ DialogStep

CancelReject ==
    /\ Rejecting /\ ~Editing
    /\ modal' = modal \ {"reject"} /\ selected' = Nobody
    /\ UNCHANGED <<toDelete, form, crossed>> /\ DialogStep

\* handleRejectUser: the modal stays until the answer.
Reject ==
    /\ Rejecting /\ ~Editing
    /\ Begin("reject", selected.id, Nobody)
    /\ HandlerStep

\* Escape closes the modal, and leaves the user selected.
EscapeReject ==
    /\ "reject" \in modal
    /\ modal' = modal \ {"reject"}
    /\ UNCHANGED <<selected, toDelete, form, crossed>> /\ DialogStep

OpenDelete(r) ==
    /\ OnRow(r)
    /\ modal' = modal \cup {"delete"} /\ toDelete' = r.id
    /\ UNCHANGED <<selected, form, crossed>> /\ DialogStep

\* The button, or Escape.
CloseDelete ==
    /\ "delete" \in modal
    /\ modal' = modal \ {"delete"} /\ toDelete' = Nobody
    /\ UNCHANGED <<selected, form, crossed>> /\ DialogStep

\* handleDeleteUser: the modal stays until the answer.
Delete ==
    /\ "delete" \in modal /\ toDelete # Nobody
    /\ Begin("delete", toDelete, Nobody)
    /\ HandlerStep

\* The button is there if total is not 0, which the model does not keep.
OpenApproveAll ==
    /\ activeTab = "users" /\ view.filter = "pending"
    /\ ~Covered /\ ~loading /\ shown.view # Nobody /\ clicks < MaxClicks
    /\ modal' = modal \cup {"all"}
    /\ UNCHANGED <<selected, toDelete, form, crossed>> /\ DialogStep

\* The button, or Escape.
CloseApproveAll ==
    /\ "all" \in modal /\ modal' = modal \ {"all"}
    /\ UNCHANGED <<selected, toDelete, form, crossed>> /\ DialogStep

\* handleApproveAll closes the modal before it asks.
ApproveAll ==
    /\ "all" \in modal /\ modal' = modal \ {"all"}
    /\ Begin("all", Nobody, Nobody)
    /\ UNCHANGED <<resident, listVars, selected, toDelete, form, crossed,
                   diagnosisVars>>
    /\ Click /\ OnPage

-----------------------------------------------------------------------------
(* The edit modal *)

\* editFormHasChanges.
Changed == form.changed \/ form.of # selected.of

\* Mutant of OpenEdit: setEditFormData is forgotten.
OpenEditOnly(r) ==
    /\ OnRow(r)
    /\ modal' = (modal \ {"confirm"}) \cup {"edit"}
    /\ selected' = [id |-> r.id, of |-> r.doc.of]
    /\ UNCHANGED <<form, toDelete, crossed>> /\ DialogStep

OpenEdit(r) ==
    /\ OnRow(r)
    /\ modal' = (modal \ {"confirm"}) \cup {"edit"}
    /\ selected' = [id |-> r.id, of |-> r.doc.of]
    /\ form' = [of |-> r.doc.of, changed |-> FALSE]
    /\ UNCHANGED <<toDelete, crossed>> /\ DialogStep

\* Another name or address is still that user's; a change may be taken back.
EditForm ==
    /\ Editing /\ "confirm" \notin modal
    /\ form' = [form EXCEPT !.changed = ~@]
    /\ UNCHANGED <<modal, selected, toDelete, crossed>> /\ DialogStep

LeaveEdit ==
    /\ modal' = modal \ {"edit", "confirm"} /\ selected' = Nobody
    /\ form' = NoForm

AskBeforeLeaving ==
    modal' = modal \cup {"confirm"} /\ UNCHANGED <<selected, form>>

CloseEdit ==
    /\ Editing /\ "confirm" \notin modal
    /\ IF Changed THEN AskBeforeLeaving ELSE LeaveEdit
    /\ UNCHANGED <<toDelete, crossed>> /\ DialogStep

\* Escape, when it is the turn of the edit modal.  The second one closes it.
EscapeEdit ==
    /\ "edit" \in modal /\ modal \cap {"reject", "all", "delete"} = {}
    /\ IF Editing /\ Changed /\ "confirm" \notin modal THEN AskBeforeLeaving
       ELSE LeaveEdit
    /\ UNCHANGED <<toDelete, crossed>> /\ DialogStep

ConfirmClose ==
    /\ "confirm" \in modal /\ LeaveEdit
    /\ UNCHANGED <<toDelete, crossed>> /\ DialogStep

CancelClose ==
    /\ "confirm" \in modal /\ modal' = modal \ {"confirm"}
    /\ UNCHANGED <<selected, toDelete, form, crossed>> /\ DialogStep

\* handleEditUser: the whole form, for the user selected now.
SaveEdit ==
    /\ Editing /\ "confirm" \notin modal /\ Changed
    /\ Begin("edit", selected.id, form.of)
    /\ HandlerStep

-----------------------------------------------------------------------------
(* AdminService *)

\* What may become of the document.
Wanted(h, doc) ==
    CASE h.kind \in {"approve", "reactivate"} ->
             {[doc EXCEPT !.status = "approved"]}
      [] h.kind = "archive" -> {[doc EXCEPT !.status = "archived"]}
      [] h.kind = "reject"  -> {[doc EXCEPT !.status = "rejected"]}
      [] h.kind = "delete"  -> {[doc EXCEPT !.status = "deleted"]}
      [] h.kind = "edit"    -> {[status |-> s, of |-> h.of] : s \in Status}
      [] OTHER              -> {doc}

\* updateUser, updateUserRole, deleteUser.
Serve(h) ==
    /\ h \in handlers /\ h.phase = "sent" /\ h.kind # "all"
    /\ resident[h.user].status # "deleted"
    /\ \E doc \in Wanted(h, resident[h.user]) :
          resident' = [resident EXCEPT ![h.user] = doc]
    /\ handlers' = (handlers \ {h}) \cup {[h EXCEPT !.phase = "served"]}
    /\ UNCHANGED <<listVars, dialogVars, diagnosisVars, clicks>> /\ OnPage

\* approveAllPendingUsers.
ServeAll(h) ==
    /\ h \in handlers /\ h.phase = "sent" /\ h.kind = "all"
    /\ resident' = [u \in Resident |->
                       IF resident[u].status = "pending"
                       THEN [resident[u] EXCEPT !.status = "approved"]
                       ELSE resident[u]]
    /\ handlers' = (handlers \ {h}) \cup {[h EXCEPT !.phase = "served"]}
    /\ UNCHANGED <<listVars, dialogVars, diagnosisVars, clicks>> /\ OnPage

\* Another administrator; only the users tab looks at the documents.
AnotherAdmin(u) ==
    /\ activeTab = "users" /\ resident[u].status # "deleted"
    /\ \E s \in (Status \cup {"deleted"}) \ {resident[u].status} :
          resident' = [resident EXCEPT ![u].status = s]
    /\ Click /\ OnPage
    /\ UNCHANGED <<listVars, dialogVars, handlers, diagnosisVars>>

-----------------------------------------------------------------------------
(* The handlers go on *)

\* The request is refused, or it or its answer is lost: a toast.
HandlerFails(h) ==
    /\ h \in handlers /\ handlers' = handlers \ {h}
    /\ UNCHANGED <<resident, listVars, dialogVars, diagnosisVars, clicks>>
    /\ OnPage

Answered(h) ==
    /\ h \in handlers /\ h.phase = "served" /\ handlers' = handlers \ {h}
    /\ UNCHANGED <<resident, diagnosisVars, clicks>> /\ OnPage

\* Approvals go to the first page.
ApproveAnswers(h) ==
    /\ h.kind \in {"approve", "all"} /\ Answered(h)
    /\ IF h.kind = "approve" /\ h.view.page = 1 THEN Reload(h.view)
       ELSE ReloadFirstPage(h.view)
    /\ UNCHANGED dialogVars

StatusAnswers(h) ==
    /\ h.kind \in {"archive", "reactivate", "other"} /\ Answered(h)
    /\ Reload(h.view)
    /\ UNCHANGED dialogVars

\* The modals are closed, whoever they are open for now.
RejectAnswers(h) ==
    /\ h.kind = "reject" /\ Answered(h)
    /\ modal' = modal \ {"reject"} /\ selected' = Nobody
    /\ crossed' = (crossed \/ "edit" \in modal)
    /\ Reload(h.view)
    /\ UNCHANGED <<toDelete, form>>

DeleteAnswers(h) ==
    /\ h.kind = "delete" /\ Answered(h)
    /\ modal' = modal \ {"delete"} /\ toDelete' = Nobody
    /\ Reload(h.view)
    /\ UNCHANGED <<selected, form, crossed>>

\* The second request of handleEditUser, if the role is another one.
RoleFollows(h) ==
    /\ h \in handlers /\ h.kind = "edit" /\ h.phase = "served"
    /\ handlers' = (handlers \ {h})
                       \cup {[h EXCEPT !.kind = "role", !.phase = "sent"]}
    /\ UNCHANGED <<resident, listVars, dialogVars, diagnosisVars, clicks>>
    /\ OnPage

EditAnswers(h) ==
    /\ h.kind \in {"edit", "role"} /\ Answered(h)
    /\ modal' = modal \ {"edit"} /\ selected' = Nobody /\ form' = NoForm
    /\ Reload(h.view)
    /\ UNCHANGED <<toDelete, crossed>>

-----------------------------------------------------------------------------
(* Diagnostics *)

DiagnosisStep == UNCHANGED <<resident, listVars, dialogVars, handlers>> /\ OnPage

\* A row of the devices tab.  loadDeviceStatus leaves the list while it loads.
OpenDiagnostics(d) ==
    /\ activeTab = "devices" /\ shown.view # Nobody /\ ~error
    /\ diagnosis.device = Nobody
    /\ diagnosis' = [device |-> d, data |-> Nobody,
                     loading |-> TRUE, error |-> FALSE]
    /\ asked' = asked \cup {d} /\ overlapped' = FALSE
    /\ DiagnosisStep /\ Click

\* diagnosticsLoading stays what it is.
CloseDiagnostics ==
    /\ diagnosis.device # Nobody
    /\ diagnosis' = [diagnosis EXCEPT !.device = Nobody, !.data = Nobody,
                                      !.error = FALSE]
    /\ UNCHANGED <<asked, overlapped, clicks>> /\ DiagnosisStep

DiagnosticsArrive(d) ==
    /\ d \in asked /\ asked' = asked \ {d}
    /\ diagnosis' = [diagnosis EXCEPT !.data = d, !.loading = FALSE,
                                      !.error = FALSE]
    /\ overlapped' = (overlapped \/ diagnosis.device \notin {d, Nobody})
    /\ UNCHANGED clicks /\ DiagnosisStep

DiagnosticsFail(d) ==
    /\ d \in asked /\ asked' = asked \ {d}
    /\ diagnosis' = [diagnosis EXCEPT !.data = Nobody, !.loading = FALSE,
                                      !.error = TRUE]
    /\ UNCHANGED <<overlapped, clicks>> /\ DiagnosisStep

-----------------------------------------------------------------------------

ListStep ==
    \/ \E l \in fetches : ListAnswers(l) \/ ListFails(l)
    \/ \E f \in Filter : SetFilter(f)
    \/ \E r \in Rest : Arrange(r) \/ SearchDebounced(r)
    \/ \E p \in 1 .. LastPage : GoToPage(p)
    \/ RefreshSilently \/ RefreshDevices

RowStep ==
    \/ \E r \in shown.rows : \/ Approve(r) \/ Archive(r) \/ Reactivate(r)
                             \/ MailOrResetDevice(r)
                             \/ OpenReject(r) \/ OpenDelete(r) \/ OpenEdit(r)
    \/ CancelReject \/ EscapeReject \/ Reject
    \/ CloseDelete \/ Delete \/ OpenApproveAll \/ CloseApproveAll \/ ApproveAll
    \/ EditForm \/ CloseEdit \/ EscapeEdit \/ ConfirmClose \/ CancelClose
    \/ SaveEdit

ServiceStep ==
    \/ \E h \in handlers :
        \/ Serve(h) \/ ServeAll(h) \/ HandlerFails(h)
        \/ ApproveAnswers(h) \/ StatusAnswers(h) \/ RejectAnswers(h)
        \/ DeleteAnswers(h) \/ RoleFollows(h) \/ EditAnswers(h)
    \/ \E u \in Resident : AnotherAdmin(u)

DiagnosticsStep ==
    \/ \E d \in Device : \/ OpenDiagnostics(d) \/ DiagnosticsArrive(d)
                         \/ DiagnosticsFail(d)
    \/ CloseDiagnostics

TerminalTab ==
    activeTab = "terminal" /\ TerminalNext /\ UNCHANGED <<activeTab, pageVars>>

AdminNext ==
    ListStep \/ RowStep \/ ServiceStep \/ DiagnosticsStep \/ TerminalTab

AdminSpec == AdminInit /\ [][AdminNext]_adminVars

FairAdminSpec == AdminSpec /\ TerminalFairness

-----------------------------------------------------------------------------
(* Properties *)

\* What the state variables of the component and the requests hold.
PageTypeOK ==
    /\ activeTab \in Tabs
    /\ resident \in [Resident -> Doc]
    /\ view \in View /\ shown \in [view : View \cup {Nobody}, rows : SUBSET Row]
    /\ fetches \subseteq Fetch /\ loading \in BOOLEAN /\ error \in BOOLEAN
    /\ modal \subseteq Modal /\ selected \in Chosen \cup {Nobody}
    /\ toDelete \in Resident \cup {Nobody}
    /\ form \in [of : Resident \cup {Nobody}, changed : BOOLEAN]
    /\ handlers \subseteq Handler
    /\ diagnosis \in [device : Device \cup {Nobody}, data : Device \cup {Nobody},
                      loading : BOOLEAN, error : BOOLEAN]
    /\ asked \subseteq Device
    /\ {stray, crossed, overlapped} \subseteq BOOLEAN /\ clicks \in 0 .. MaxClicks

\* Once nothing is under way the list answers the filter, the page and the
\* search that the page shows above it, although loads overtake one another and
\* handlers reload with the view of their render: only a load of another view
\* that was sent or answered last makes it stray, until the view changes next.
ListIsCurrent ==
    activeTab # "terminal" /\ fetches = {} /\ ~error /\ ~stray =>
        shown.view = view

\* The diagnostics in the modal are those of the device in its title, but for an
\* answer of an earlier opening that comes into this one (openDiagnostics).
DiagnosticsFit ==
    diagnosis.device # Nobody /\ ~overlapped =>
        \/ diagnosis.loading \/ diagnosis.error
        \/ diagnosis.data \in {Nobody, diagnosis.device}

ShownIsAsked == ListIsCurrent /\ DiagnosticsFit

\* The spinner hides the rows, and nothing else ends it than a load that is under
\* way: whatever fails, overtakes or refreshes silently, there is one.
SpinnerIsLoading ==
    loading /\ activeTab # "terminal" => \E l \in fetches : ~l.silent

\* handleEditUser writes the form of a user to that user: the form and
\* selectedUser are separate states that every way into and out of the modals has
\* to keep together, and only a rejection answered under an open edit modal parts
\* them.
EditsReachTheirUser == ~crossed => \A u \in Resident : resident[u].of = u
=============================================================================
