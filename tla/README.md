# TLA+ models of the QA portal

The portal (`src/backend/app`, FastAPI + SQLAlchemy over Oracle; a React client in
`src/frontend`) runs the testing governance of an organisation: a requester raises a QA
Request, the request's application name is approved, linked Functional, SAST, DAST and
Performance requests go through their approvals and their work, findings are suppressed,
certificates are issued, and test repositories, cycles and defects carry the execution.

The rules live in the handlers. A handler reads rows, checks roles and statuses, assigns
columns, adds an `ApprovalAction`, and commits. Four worker processes, each with a pool of
threads, run handlers at the same time, each over its own session
(`database.py`, `SessionLocal`: READ COMMITTED, `autoflush=False`, no version columns).
There is no message bus and no scheduler. In front of the handlers are pages that work out
for themselves, from a copy they loaded earlier, what to offer to whom, and a request layer
in the browser that caches, shares and repeats reads. So what goes wrong are long
sequences of legal calls, handlers that read before and write after another one's commit,
pages that announce one thing and save another, and rules written twice that part. That is
what these models are about.

## Inventory

| component | state | operations | interacts with | hard |
|---|---|---|---|---|
| QA Request gateway (`routers/qa_requests.py`) | `QARequest`: status, name, kinds, stashed details; `QARequestDelegation` | create, edit, cancel, submit; assign, return, recall | name master (resolve), linked requests (creates them) | submit against anything else; delegation; one raise only |
| QA Request wizard (`QARequests/NewRequestModal.tsx`, `steps/`) | the form, its staged files, the saves under way | open, type, tick, attach, save, discard; submit from the page of the draft | gateway, documents, checklist templates | a save is a chain of calls that may break anywhere |
| Application Name Master (`application_names.py`, `routers/applications.py`) | `ApplicationMaster`: name, status, introducing request | resolve, orphan cleanup, Application Owner decision, legacy SM decision, bulk seed, rename | raises or gives back waiting gateways, rejects linked requests | one row shared by many requests; cleanup; decisions at the same time |
| Functional request (`routers/functional.py`, `Functional.tsx`) | `FunctionalRequest`: status, testers, checklist, certificate | 20 workflow steps from SM approval to closure | gateway name, test cycles, certificate | returns that must come back the same way; cycles that block it; certificate sync |
| SAST, DAST (`routers/sast_dast.py`, `SecurityScan.tsx`) | `SASTRequest`, `DASTRequest`: status, scan results, analyst | approvals, scan, rescan, validation, fix loop, closure | suppression | automatic closure, findings that come and go |
| Performance (`routers/performance.py`) | `PerformanceRequest`: status, testers | approvals, phases, defect-fix loop, requester's decision | gateway name | loops |
| Suppression (`routers/suppression.py`) | `SuppressionRequest`, its scan request | create, relink, three approvals, returns | scan request | must be over before its scan request closes |
| QA Clearance (`routers/signoff.py`, `SignOff.tsx`) | `QASignOff`: status, author, reviewer, approver, text | create, edit, submit, two approvals, reopen | functional request | three people, reopening after issue |
| Business ids (`models.py`) | `IdCounter` rows | claim a number | every create | counter rows held until the session ends: circles |
| Test repository (`routers/test_repository.py`, `TestRepository.tsx`) | `TestCase`, `TestCaseVersion`, checkout | authoring, checkout, two-stage review, archive, bin, import, bulk | projects, execution | versions frozen under review; forms left open |
| Test projects (`routers/test_projects.py`, `TestProjects.tsx`) | `TestProject`, its pending request | create, edit, activate, archive | repository, execution | one live project per application; dialogs left open |
| Test execution (`routers/test_execution.py`, `TestExecution.tsx`) | cycles, executions, runs, version pins | plan, assign, execute, retest, upgrade, complete | functional request, repository, defects | completion against open runs, three routes that record results |
| Defects (`routers/defects.py`, `Defects.tsx`) | `Defect`, home slot, links | raise, twenty transitions, reassign, link | executions | who may do what; which defect governs a slot |
| Pending approvals (`routers/pending_approvals.py`) | - | one list of what waits for whom | all of the above | its rules are copies |
| Checklists, documents (`checklist_config.py`, `documents.py`) | templates, rows, files | seed, edit, upload | readiness gates | matched by text |
| Browser request layer, session (`api.ts`, `AuthContext.tsx`) | read cache, reads in flight, token | read, save, retry, abort, sign in and out | every page | answers out of order |
| Auth, users (`auth.py`, `routers/auth.py`, `deps.py`) | users, roles | login, administration | every handler's guard | - |
| Server cache (`cache.py`) | process-local values | read through, invalidate | name lists, dashboards | invalidation after commit |
| Jobs, reports, dashboards, exports, audit, migrations | derived files, log rows | queries, rendering | read only | - |

What makes each correct: *gateway* - raised at most once, with exactly its requested
children; never moves while somebody else holds it; never waits for a decision that cannot
come. *Wizard* - what it calls saved is stored, a failed save costs one draft at most,
each file ends in one place of the checklist.
*Names* - references never dangle, one live row per name, the shown name is the
linked row's; a decision is final; a rejection binds the request it was made for.
*Linked requests* - no work without approval by somebody else than the requester, a
demanded re-approval is not walked around, what was declared is verified, nothing waits
for a cycle that is not blocked, nothing closes over a finding. *Certificates* - raised,
approved and issued by three people, issued as they were shown, and in step with the
request they clear. *Versions* - approved by a third person, frozen while reviewed and
after, numbers never used twice. *Projects* - one live one per application, a dialog does
what it said. *Cycles, defects* - history stands, a slot is retested only when its defects
allow. *Browser* - no page shows a list from before its own save; every call ends. *Pages* -
an offer is accepted, and who is named as pending is offered something.

## Modules

| part | server | pages, client | promise | proofs | instance |
|---|---|---|---|---|---|
| intake | `Intake`, `IntakeWorkers` | `IntakePage` | `GatewayLifecycle`, `IntakeSerial` | `Intake_proofs`, `IntakeWorkers_proofs` | `IntakeMC`, `IntakeWorkersMC` |
| functional | `Staff`, `Functional` | `FunctionalPage` | | `Clearance_proofs` | `FunctionalMC` |
| clearance | `SignOff`, `Clearance`, `ClearanceChannels` | `ClearancePage` | `SignOff` | `Clearance_proofs` | `ClearanceMC` |
| scans and performance | `Reviews`, `Security`, `Performance`, `ReviewRequests` | `ReviewsPage` | | `Reviews_proofs` | `ReviewsMC` |
| repository and projects | `TestCases`, `Projects`, `Workspace` | `RepositoryPage`, `ProjectsPage` | `TestCases`, `Projects` | `Workspace_proofs` | `RepositoryMC` |
| execution | `Executions` | `ExecutionPage` | | `Executions_proofs` | `ExecutionMC` |
| wizard | `Raising` | `Raising` | | `Raising_proofs` | `RaisingMC` |
| browser | | `Client` | | `Client_proofs` | `ClientMC` |

A variable is a column, an action is a handler that runs to its commit. The page modules
add no state unless a page keeps something across calls (a form, a dialog, a panel); they
state the page's own rules as operators (`Shows...`, `...Buttons`, `Offers`), over a fresh
copy, and compare them with the conditions of the handlers.

### `Intake`

Every handler is a pair: the condition under which it passes its `HTTPException`s
(`CanSubmit`) and the write set its session flushes (`SubmitWrites`); `Flush` applies a
write set to the columns. The pair is written once and used twice: at once in `Intake`, and
cut in two by `IntakeWorkers`.

| variable | column |
|---|---|
| `status`, `link`, `reqName`, `types`, `details`, `numbered` | `QARequest.status`, `application_master_id`, `application_name`, `request_types`, `draft_child_details`, `request_id IS NOT NULL` |
| `appStatus`, `appName`, `origin` | `ApplicationMaster.status`, `name`, `qa_request_id`; `UNUSED` and `DELETED` are rows not there yet and rows deleted |
| `child`, `childName` | a linked request's status up to SM approval, and its own name column (SAST, Performance) |
| `deleg` | the ACTIVE `QARequestDelegation` rows of a gateway or a linked request, oldest first |
| `projects` | the name rows a `TestProject` refers to |

Abstractions: departments are one; document and audit rows and notifications are left out;
`details` is `COMPLETE` when the stash passes the checklist and environment gates of
submit; the Functional bucket of four request types is one kind; a linked request is
followed until its SM approves it; `Copies` are the rows of a kind one gateway could get
(a second one is what must not happen); `Apps` bounds the name rows that are ever
inserted. The rename's `UPDATE ... WHERE application_name = old` is the `cascade` of a
write set. `_raise_child_to_sm`'s branch for a REJECTED name is unreachable, because both
callers exclude it, and is not modelled. Rows at `PENDING_SM` exist only from before the
one-tier flow, so `Init` may contain them.

`GatewayLifecycle` is what a gateway promises without names, people or handlers: drafts are
dropped, raised at once, or wait and are raised or given back; a raise creates all linked
requests in one step, one of a kind. `Intake!ImplementsLifecycle` is the refinement.
`IntakePage` is `RequestDetail.tsx` and the banner about the name.

### `IntakeWorkers`

Threads told apart: `Read` evaluates a handler's condition and builds its write set from
what it reads. In between it takes its locks, which it keeps until its session ends:
delegation handlers the row they decide about when they read it (`SELECT ... FOR UPDATE`),
`submit_request` the counter of request ids between its checks and its lookup of existing
children (`Claim`), and every handler, one by one, the rows it writes and the counters of the
linked requests it inserts (`Lock`). A submit and the decision of a name claim up to four of
those, the decision for several waiting requests one after another (`applications.py:139-142`);
within one request the order is that of `_sync_linked_child_requests` (`SyncOrder`). The order
of the requests (a query without ORDER BY) and of the rows (the ORM's) is left open, which
only adds behaviours. Sessions that wait for each other in a circle exist; the database
refuses a statement of one (`Refused`). Whatever else it refuses (duplicate name,
dangling reference, update of a deleted row) is a `Rollback`. Either way the session is closed
and gives its locks back (`Ended`). A `FOR UPDATE` that has to wait is a handler that has not
read yet.

`IntakeSerial` adds a history variable: `undisturbed` are the threads that have read and
that nobody's commit came between yet. `CommitsAreSerial` says that their commits are steps
of `Intake`.

### `Raising`

| variable | code |
|---|---|
| `template`, `older`, `edits` | `ChecklistTemplateItem` rows in their `sort_order`, what they were before, how often they changed |
| `draft` | the gateway rows with their documents and staged evidence; from the raise on the `checklist` of the linked request and the evidence in its `rows` |
| `wizard` | the form of `NewRequestModal`: what is ticked and attached, which steps are not filled in as they must be |
| `saga`, `ended`, `air` | the calls of `submit()` that have not ended, how the others did, what the server may still handle |
| `page` | the `RequestDetail` behind, with the checklist it read when it was mounted |
| `opened`; `gone`, `item` | wizards counted; history, in no column: what of a draft was deleted by hand, what stood at a place when a file was attached |

The step on the screen decides nothing and is not kept, and the steps are a set: `BrokenRules`
are those `submit()` would send the user back to, of which the code shows the first. A call may
be lost, or handled after the tab gave it up; a discarded wizard goes on saving. The checklist
is read through two caches (300 seconds in the server, 8 in the tab), so that a page or a
wizard may read an older one (`Reads`); the handlers read the rows. What is stored may be
deleted again at any time by whoever may, also while the save that stored it runs
(`DeleteSaved`, `DeleteDocument`, `DeleteFromRow`): the list of saved evidence is read again
after each deletion and by each wizard, and its buttons are never disabled. `Raise` is the first
raise under an approved name; the other ways to be raised are `Intake`'s.

The question before the raise about items without evidence is left out. It is advice: it may be
answered away, and the server asks nothing of the kind. Its counts come from a GET that nobody
waits for (`RequestDetail.tsx:145-169`, 1011-1025), with Submit enabled meanwhile, so nothing
can be promised of it.

### `Staff` and `Functional`

`Staff` holds what all workflows ask of a caller: role checks, the executives' standing in
for QA Leads, the department of QA, and that nobody decides on what they raised. People
may hold several roles; an admin passes every check. `Functional` goes from the raise that
creates a request to QA Completed, one action per handler of `routers/functional.py`, with
the delegation handlers of `routers/qa_requests.py` and the decision on the application
name seen from one request.

| variable | column |
|---|---|
| `fstatus`, `reapproval`, `headId`, `testers` | `FunctionalRequest.status`, `needs_dept_head_reapproval`, `department_head_id`, `assigned_tester_ids` |
| `declared`, `verified` | the checklist rows with `requester_checked`, with `is_complete` |
| `delegate` | `assigned_to_id` of the ACTIVE delegation |
| `nameStatus` | the gateway's `application_master_status` |
| `cycleStatus`, `cycleLink` | `TestCycle.status`, its `TestCycleChildRequestLink` |
| `owed`, `byHand` | history, in no column: a demanded re-approval is open; WAITING_FOR_FIX was entered by a tester |

A cycle acts on the request through `_sync_linked_functional_request_status`, which
`UpdateCycle` contains. Abstractions: uploads and comments are left out; the edit of a
request keeps only the fields that decide something (declarations, an admin's change of the
name); a cycle may complete at any time, since its executions are in `Executions`; whether
its project is active and of the request's application only narrows the choice; who may edit
a cycle is left open. `FunctionalInit` contains drafts, which today's gateway no longer
creates but `submit` still serves. `FunctionalPage` is `Functional.tsx`, with its stepper
and the list of pending approvals.

### `SignOff` and `Clearance`

`SignOff` is the certificate alone: status, author, QA Lead, executive, text; the requester
who reopens it is its environment. The texts stand for all fields `update_signoff` may
change. `Clearance` composes it with `Functional`: `signoff` is `FunctionalRequest.signoff_id`,
issuing a certificate releases the requests that wait with it (`Released`), and changes
required by the requester send both back. `ClearanceSpec` is the API: any certificate can
be linked to any request, and confirmed by hand. `PortalSpec` is what the pages do with it:
they create the certificate and link that one, and never confirm. The second call may be
lost; the model only assumes that it does not arrive after both approvals. That difference
matters: `InStep` holds of the pages and not of the API, where a request
may be linked to a certificate already issued, or share one. Data from before the automatic
release (cleared requests without a certificate) are not among the initial states.
`ClearanceChannels` chooses between the two at the start (`channel`), so that one run and one
theorem speak of both.

### `Reviews`, `Security`, `Performance`, `ReviewRequests`

The three routers share their front: approvals, delegation, readiness. `Reviews` is that
front, with the stages under common names (the head of the module lists them) and `kind`
saying which table a request is in; `Security` adds scan, validation, fix and rescan and the
suppressions, `Performance` its phases, and `ReviewRequests` puts the three together. `scan`
is whether the newest imported result shows a finding, which is all the handlers ask of it;
`supStatus`, `supLink`, `supRaiser` are the columns of the suppressions; `assignees` the
analyst or the testers; `owed` and `supOwed` remember demanded re-approvals. SAST and DAST
follow the same handlers and are one kind. `NameDecided` is what the name of the gateway may do
meanwhile: be rejected, approved, proposed again, or be another one, because an administrator
may change it in the gateway's Functional request.

### `TestCases`, `Projects`, `Workspace`

`draft` and `baseline` are `current_draft_version` and `current_approved_version` with the
columns that decide (number, status, author, submitter, reviewer, approver, archived),
`past` the numbers of the other versions, `holder` `checked_out_by`, `place` whether the
case is in the repository or its bin. Single and bulk handlers are separate actions. Tags,
steps and folders decide nothing and are not kept. `Projects` has a project's
`application`, `owner`, `active`, `archived` and the pending `request`.
`RepositoryPage` adds `form`, the modal's copy (`fresh` while nobody changed the case since
it was filled, `reserved` while its user has held the case since), `ProjectsPage` adds
`dialog`, which keeps what a card said when it was opened. `Workspace` puts both together:
the cases are those of the project `Home`, and `_require_active_project` stands before
every call but reading and giving back.

### `Executions`, `ExecutionPage`

`cycle` is `TestCycle.status`, `slot` a `TestExecution` (adder, runner, pinned version,
recorded attempts), `defect` a `Defect` (status, severity, people, home slot, links, target
release, evidence), `approved` and `archived` what the repository has meanwhile. The status
of a slot is its last attempt's. Three routes record attempts: the quick panel with its
`run_version`, the result dialog, and the bulk call. `panel` is the row and the attempt
number an open quick panel announces.

### `Client`

One tab over a server that is a table of versions. `db`, `valid` are the server's; `token`
is in `localStorage`; `completed`, `shared`, `calls`, `pending` are the maps and the counter
of `api.ts`; `user`, `loading` the state of `AuthContext.tsx`; `saved` the history of what
the tab was told. Every await is a step of its own; a call may be lost, refused, aborted by
its timer and, when it is a read, sent once more. `heard` are the calls whose headers have
come: they have no timer any more, and their bodies never had one.

## How the parts meet

- Gateway, names and linked requests are one module, because a handler of one writes rows
  of the others in the same commit.
- `Intake` ends where `Functional` and `Reviews` begin (`Raise`); the name decision reaches
  these as an environment step (`NameDecided`) with the effect `Intake` gives it.
- `Functional` has the cycles' status and links; `Executions` has what is inside a cycle;
  `TestCases` has what a cycle pins. Each sees the other as an environment that may move at
  any time, so that what is checked of one does not depend on the order in the other.
- `Clearance` is the composition of `Functional` and `SignOff`; `Workspace` that of
  `TestCases`, `Projects` and their pages. Both are related to their parts by proof.

## Runs

| run | instance | shows |
|---|---|---|
| `Intake` | 2 gateways, 2 names, 2 name rows, fair Application Owners | nobody is stranded, children exactly when raised, names agree, decisions bind, who waits is answered |
| `Intake_people` | 1 gateway with FUNCTIONAL and SAST, 3 name rows, requester, approver, admin | delegation, the request page, the refinement of `GatewayLifecycle` |
| `W_threads` | 2 threads, 1 gateway or the raise of 3, 2 kinds, 2 name rows, fair | what the row locks guarantee, that every request ends though sessions wait in circles, that an undisturbed thread is a step of `Intake` |
| `Functional` | 1 request, 2 checklist items (1 mandatory), 2 cycles, 6 people, one with two hats | approvals, re-approval and checklist cannot be walked around; a request never waits for a cycle that is not blocked; the page |
| `Clearance` | 1 request, 2 certificates, by API or by pages; QA people with overlapping roles, an admin | three people behind an issued certificate, issued as shown, in step with the request by the pages, the refinement of `SignOff`, the pages |
| `Reviews` | 1 request of either kind, 2 suppressions, 1 checklist item, 6 people | approvals and re-approvals of requests and suppressions, nothing closes over a finding or an open suppression, the pages |
| `Raising` | 2 drafts, 2 items, 1 file, 2 saves of 2 wizards, 1 change of the checklist, 1 deletion by hand | saved means stored, one draft each and one more for a failed save, a raise puts evidence under one item of the place it was sent to |
| `Client` | 1 person who signs out and in again, 1 list, 2 calls in flight | no page is told a list from before its own save, unless its read began amid another one; sharing is sound; every request settles unless its body stalls |
| `Repository` | 2 cases, 2 projects, engineer, lead, admin | third-person approval, frozen and monotone versions, forms, projects, the pages and dialogs |
| `Execution` | 1 cycle, 2 slots of 2 attempts, 2 defects, 6 people | defects govern retests, history stands, announced attempts are saved, the pages |
| `Repository_rejected`, `Execution_triaged` | as `Repository` with one case; as `Execution` | two things a comment or a message says and the code does not do |

A run's properties are conjunctions of named parts where these speak of one promise
(`NobodyIsStranded`, `RecordsStand`, `PagesAgree`, ...); the comment over each says what
the parts are. The agreement properties (`GatewayPageAgrees`, `RequestPageAgrees`,
`CertificatePageAgrees`, `ReviewPagesAgree`, `PagesAgree`, `ExecutionPagesAgree`) say for
every reachable record and every person that what a page offers is accepted, with the
exceptions listed below under Disagreements excluded by name; where the list of pending
approvals or a "pending with" label names people, that each of them is offered something.
"Accepted" means that the condition of the handler, its `Can...` or `May...`, holds.

### Bounds

Two gateways are what it takes to share, leave and orphan a name row, two names and two or
three rows to relink between them and to propose again; more rows of either kind only repeat
these. Two threads are what a lost update takes. Two cycles are what it takes for one to be
resumed while another stays blocked, two certificates for one to be issued while another is
linked, two suppressions for one to be decided while another is open. A second functional
request would share nothing but cycles (a cycle has one link, so the second request is
`Elsewhere`) and certificates; that no number of requests makes a difference there is what
`RefinesSignOff` and `InStepAlways` prove. Two attempts per slot are a result and its
retest; two versions of a case a pin and its upgrade. Two calls in flight are what sharing
and overtaking take, two saves what a retry takes. Where only one admin acts, the run is
about order, not about permission.

Some products are cut by a constraint in the MC module, each stated with what it leaves out:

- `Quiet` (`IntakeMC`): test projects for one name row only, no request without a kind.
- `Started` (`IntakeWorkersMC`): on one request any handler may start, but none that creates
  a project or a request without kinds; with three, two wait for one name and the third
  is submitted under an approved one, so that its submit and the decision, rejection or seed
  of the name claim the counters of two kinds in opposite orders. What a thread has started
  it may finish, so the fairness is untouched.
- `Instance` (`ClearanceMC`): the API handles one certificate of two texts, the pages two of
  one text which the administrator takes through.
- `Instance` (`RaisingMC`): what is typed is settled in the first wizard and not taken back,
  the second one is about evidence; the checklist loses its first item between the two wizards,
  or under a blank one; a wizard reads it, old or new, before anything is attached, a page reads
  the new one; one file is deleted by hand, of a save that is running. The proofs have none of
  these bounds.
- `NameAtTheFront`, `RaisedAtWork` (`ReviewsMC`): the name of the request is decided, proposed
  again or changed as long as its approvals are under way, and suppressions are raised while QA
  has a request that may be scanned; the proofs cover the rest.
- `Companion`, `SecondProject`, `SettledProject` (`RepositoryMC`): the second case, and the
  second project, live a part of their lives, enough for selections of two at every stage
  and for an application to go elsewhere; beside cases, the home project is only switched on
  and off.
- `Companion`, `Principal`, `Apart` (`ExecutionMC`): the second slot and the second defect
  live a part of theirs, people are fixed to slots and defects where only their roles
  count, and five things that have nothing to do with each other do not vary together.

Those of `ClearanceMC`, `RepositoryMC` and `ExecutionMC` are conjuncts of every step, the
others action constraints; none is a state constraint, so that a property holds of every step
the instance takes. `CHECK_DEADLOCK FALSE` everywhere, because finished
work may leave nothing to do. Symmetry is over row ids and names, which the handlers only
compare, and never used with a liveness property.

### Fairness

- `Intake` (`SubmittedIsAnswered`): for each pending name somebody with the Application Owner role
  eventually decides (the queue of `list_pending_app_owner_names`); nothing is assumed about
  requesters, who may relink, cancel and propose again for ever.
- `W_threads` (`EveryRequestEnds`): a thread goes on (`WF` of its commit or rollback, `SF` of
  each lock it asks for): locks are granted in the order of asking, and a statement of a
  circle is refused (`WF` of some `Refused`), both of which the database does. That the
  handlers then give back what they hold is `get_db`'s `finally`.
- `Client` (`ComesToRest`): only the abort timer (`WF` of `TimerRuns(c) /\ BreaksDown(c)`).
  `executeRequest` clears it once `fetch` resolves, that is with the headers
  (`api.ts:146-148`), so a call that has `heard` them is under no fairness at all. Nothing is
  assumed of the network or of the people, and the property excludes a body that stalls.

The other runs claim nothing about progress: whether a QA Lead ever decides is not the
code's to promise. What takes its place there is that no state is a dead end for everybody:
`NobodyIsStranded`, `WaitingIsExplained`, and the "pending with" parts of the page
agreements.

## Disagreements between code, comments and pages

Two have a run that finds them:

- `Repository_rejected`: after a version is rejected the case cannot be edited again, as
  its next draft would get the number the rejected one already has
  (`test_repository.py:1125`; the docstring at 1086-1090 says the opposite).
- `Execution_triaged`: a cycle is completed over a Critical or High defect that is Triaged,
  which the list of blocking statuses leaves out (`test_execution.py:1059`, against its own
  message at 1067-1072).

The others were met while modelling and have no run: each is what an action does, or was
excluded by name from an agreement property.

*Threads* (they need two sessions; `Intake` holds one handler at a time). A cancelled request
keeps the linked requests of a concurrent submit (`qa_requests.py:1363-1366`). A request
waits for a decision made between its reading and its commit (`applications.py:337`,
`qa_requests.py:1552`). An approval of a name is overwritten by a rejection, one raise
inserts two linked requests of a kind, a draft is submitted while being delegated. Two
sessions that resume the two blocked cycles of a request each see the other blocked and
leave it waiting (`test_execution.py:196`). Uniqueness of a project's application is looked
up and then inserted (`test_projects.py:66-69`).

*Requests.* Mandatory items are enforced at the raise only and may be unticked afterwards
(`functional.py:319`, comment 501-505). Sanity-, Regression- or UAT-only requests are raised
without the mandatory declarations. Details are offered to an admin at every status and
refused (`Functional.tsx:1088`, `functional.py:257-258`; SAST, DAST, Performance alike). The
requester's verdict is offered to any Application Owner and refused (`Functional.tsx:863`,
1086; `functional.py:919`). Unlink is offered to the QA Lead group and on blocked or
completed cycles (`Functional.tsx:1255`; `functional.py:715-729`). The × of the "Readiness
Failed" dialog submits Failed (`Functional.tsx:1502-1526`). "Readiness Passed" is enabled
with unverified optional items. A suppression that is Done keeps the requester from raising
one in the next fix loop, which the comment calls a fresh cycle
(`SecurityScan.tsx:300-304`). A report is offered with an open suppression and refused.
Relinking moves a suppression that SM and department head already approved
(`suppression.py:276-312`). Edit forms send the whole checklist, so the later of two wins.

*Certificates.* An executive's rejection ends the certificate and its request waits for
nobody (`signoff.py:364`, `Functional.tsx:1076-1081`); only the API's fallback moves it. An
executive is offered to request clearance and may create the certificate
(`Functional.tsx:1066-1074`, `signoff.py:165`), and is refused its link to the request
(`functional.py:852`).

*Wizard.* Evidence is stored under the place of its item, so a checklist that changes between
its upload and the raise, or that was read from a cache, moves it to another item
(`steps/useChecklistTemplate.ts:14-18`, `qa_requests.py:242-275`); `EvidenceKeepsItsItem` is what
holds. The question about items without evidence goes by counts that may be outdated
(`RequestDetail.tsx:1007-1025`), and a page keeps the checklist of its mount. A retry after a
failed upload may post a second draft (`NewRequestModal.tsx:280`), which `OneDraftEach` counts;
a file may be deleted while the save that stored it still runs, so that "Saved as Draft" speaks
of what is gone; what is typed while it saves is lost; a discarded wizard still calls
`onCreated`; evidence for a type unticked later stays as an orphan.

*Repository.* A pending case may be deleted and then approved in the bin (docstring
1165-1171). A bulk update edits a Rejected version in place (1086-1089,
`constants.ts:901-902`) and revives an Archived one; a draft revised from a rejected one
starts from the content of the approved version (1125). Who only edited another's draft may
approve it (1439-1449). Submitting may leave nobody to decide; a bulk recommendation does
not exclude the author as the only lead where the single one does (2260-2262, 121-140,
1466-1468). Bulk update and delete are offered on rows somebody else holds (2876-2886). The
history calls an archived baseline "Superseded" (1311); an archived baseline with a draft
offers Archive and not Restore. "Start editing" checks out a case and keeps the form that
was filled before, so an edit made between is overwritten (`test_repository.py:994-999`,
`TestRepository.tsx:1653-1666`, 1795-1804, 3604-3607): `ReservedFormIsFresh` is what holds.

*Projects.* Edit and Deactivate are offered to executives and refused (`TestProjects.tsx:30-32`,
648-666; `test_projects.py:22`, 314). A stale page activates an archived project (596-604,
627-630) or clears another's pending request (433-440); approving from a stale card applies
whatever request is pending by then; an edit form writes back a stale owner. A reactivation
request of an archived project stays in Pending Approvals without a button; cases of a
deactivated project are listed there and their review refused (`pending_approvals.py:29`).
Rows of a deactivated project offer no "Finish editing" although check-in is accepted.

*Execution.* The gate tells a runner to reopen a defect whose reopening locks the slot
(`test_execution.py:470-482`, `constants.ts:970-973`); a Duplicate, Not a Defect or Rejected
home defect locks it for ever. Linked defects other than the home one neither lock nor
block completion. Bulk and rich results do not check `run_version` (2119). The register
offers less than the server accepts (`Defects.tsx:608`). Results are offered in Draft and
Ready cycles and upgrades in locked ones, delete-cycle to an AGM whom the router refuses.
Defects may be linked to slots of completed cycles. The completion dialog counts the first
100 defects it loaded once (`TestExecution.tsx:447`). A residual Medium or Low defect needs
a target release that only Deferred sets. A reporter cannot reopen a Closed defect without
evidence from before (`defects.py:948`, 774-778).

*Browser.* A list read while a save is under way is kept, although it may be from before
the save (`api.ts:184-186` says that saved data is never hidden); `ReadsSeeOwnSaves` is what
holds. The bodies of answers are read without a timer (`api.ts:153`, 176-178), so one that stalls
after its headers keeps its button busy, and the loading screen if it is that of the first `/me`
(`AuthContext.tsx:46`): `ComesToRest` is what holds. A `/me` that answers after a sign-out shows
the pages of who was there before (`AuthContext.tsx:47-48`, against the comment at 69-72); one that fails late signs out
who came meanwhile. Several pages load a
record by id without a guard against a second click (`QARequests/index.tsx`,
`Functional.tsx:1885-1896`, `TestRepository.tsx:2791-2795`, `PendingApprovals.tsx:36-45`,
`Defects.tsx:585-588`), so a slow answer replaces a newer record.

## Proofs

Eight modules prove, for every value of the constants. Assumed are the `ASSUME`s the
components declare about them (`StaffAssumption`, `IntakeAssumption`,
`FunctionalAssumption`, `ReviewsAssumption`, `SecurityAssumption`, `SignOffAssumption`,
`ClearanceAssumption`, `CasesAssumption`, `NoneIsNoVersion`, `ReadersAssumption`,
`ProjectsAssumption`, `ViewersAssumption`, `HomeAssumption`, `ExecutionsAssumption`,
`RaisingAssumption`, `NoneIsNothing`, `ClientAssumption`, and a `NoneIsNoRecord` in `Executions`
and in `Client`): roles are sets of users, None is nobody and no record, the bounds are
numbers, and what is counted by a counter of the code (the calls in flight, the items of a
checklist) is finite.

`Intake_proofs` proves `Spec => []TypeOK` and `Spec => []DelegationMatchesStage`. The type
proof shows that every handler's write set is a `Plan` and that `Flush` of a `Plan` keeps
the type. The delegation invariant is inductive together with `TypeOK`: write sets either
leave delegations alone and move only targets that are not delegated, or open one where
none is.

The other theorems of `Intake_proofs` cover every property of its runs that TLAPS can reach.
`RowSteps` says what a handler may do to a row of the name master: leave it, propose it,
decide it or seed it; `DecisionsBind` follows. `NamesAgree` is inductive with the type: a
rename's cascade reaches every request that shows the old name because names are unique, and
a cleanup deletes only what neither another request nor a project uses; that the request
itself does not keep the deleted row follows from its new name being another one.
`NobodyIsStranded` and `ChildrenExactlyWhenRaised` need one another (`LifeInv`, which adds
that a request that exists is linked): a rejection may pass over a waiting request's linked
requests only because it has none, and an admin's relink moves only raised requests, because
it asks for a Functional one. `LifeNext` shows that every handler either keeps a request and
what it raised (`GateKeeps`) or raises it with one row of each kind (`GateRaised`). With the
possible moves of its status (`NextMoves`) this gives the refinement of `GatewayLifecycle`.
`GatewayPageAgrees` needs them all: that the page asks what the handlers ask is a fact about
every state (`OffersAccepted`), that somebody is offered the way on is one about the states
there are (`SomebodyOffered`: a delegate is a user, a waiting name is the Application Owners',
linked requests come from a raise).
That a first row is copy 1 (`1 \in Copies`) is the one thing these theorems assume beyond
the others.

`IntakeWorkers_proofs` proves, for any number of threads, `RowLocksSuffice`: at most one
delegation per target is active and locks are exclusive. Neither is inductive alone: a
commit opens a delegation it decided on earlier, so the invariant `IInv` adds that what a
session is about to open is still closed and what it is about to close is still open
(`LocksHold`), which holds because nobody else touches a row that is held, and that whatever
a session still wants is something that can be locked (`Sessions`).
`UndisturbedIsSerial` proves `CommitsAreSerial` of `SerialSpec`. Its invariant (`SerialInv`)
says that an undisturbed thread's checks hold of the rows of now and that its write set is
what its handler would build from them; claims and locks come between, and keep it because
they write no row a handler reads. So what is proved of `Intake` holds of threads as
long as they do not overlap, and the disagreements listed under Threads all need an overlap.

`Clearance_proofs` begins with `Functional`: its type and every safety property of its run.
`ApprovalsHold` and `DeclarationsVerified` are inductive together with the type: every
handler that changes what they speak of is confined to statuses at which it may change.
`WaitingIsExplained` rests on one case, the resume of a cycle: either another linked cycle
is still blocked, or the request leaves WAITING_FOR_FIX; and on blocked cycles being neither
unlinked, relinked nor deleted. `RequestPageAlwaysAgrees` is about the page. That what it
offers is accepted, and that the list of pending approvals names exactly those who may
decide, are facts about every typed state; that the stepper tells the truth follows from the
approvals (`FlowOf`). That whoever "Pending With" names has something to do needs the states
there are (`PlaceOf`: who designs or executes has testers, and the statuses after the
clearance are not reached here) and somebody in each group the column names: `Staffed` asks
for an SM and a department head for every request other than its requester, for a QA Lead of
the QA department, and that an admin of that department is an engineer. The last, because an
admin may be made a tester through the API without being one, and the column then names the
QA engineers.

Then it proves of `SignOff` alone the type and `IssuedRightly`. A
certificate leaves its review and comes back, so the invariant for four eyes (`EyesInv`)
speaks of its last reviewer at every status, not only when it is issued. After that it proves
that the API implements
`SignOff` (so `IssuedRightly` holds there as well), that the pages use a part of the API,
and `InStep` of the pages. `InStep` is not inductive: that the linked certificate was raised
for this very request has to be added, because changes required by one request would uncover
another one that shares its certificate. It is the assumption `SignOffAssumption` and the
rule that the pages link what they have just created that give it. `PagesStayInStep` is the
property the run checks, of both channels at once. `CertificatePageAlwaysAgrees` holds of
every state whatever: page, list and handlers ask the same of a certificate.

`Reviews_proofs` proves all safety properties of its run. For `ApprovalsHold` the
invariant (`Approved`) adds that what a lead sent back stays approved, and that it says
whether a new approval is owed, which is what its resubmission goes by. `ClosedIsClean`
needs the last scan to be clean from SECURITY_COMPLETE on; that no suppression is open then
rests on links being possible only in the scan window, and on decided suppressions not being
opened again. `OneSuppression` needs the lookup at every creation and every new link, and an
absent suppression pointing nowhere. `ReviewPagesAlwaysAgree` is laid out as the page of a
Functional request is: offers and the list are facts about typed states, `PendingWithAct` is
one about reachable ones (`PlaceOf`, and `RaisersOK`: a suppression is raised by the requester
of a request or an admin) and about people. Its `Staffed` asks for an SM and a department head
for each possible raiser, a QA Lead, an analyst and an engineer of the QA department, and
again that an admin of that department is both.

`Workspace_proofs` reduces single and bulk handlers to eleven kinds of change (`CaseCalls`) and
proves from these the type, `ApprovedByAThird` and `VersionsStand`. The inductive part
(`Sound`) says of a case that nobody holds it under review, that a version under its second
review has a reviewer who neither wrote nor submitted it, and that the number of a draft is new
and above the approved one. Of the projects it proves `ProjectsAreSound`; return from the
archive is the case that needs the lookup. Of both pages it proves that what is done on the
pages, in a project that is switched and archived meanwhile, implements `CasesSpec` and
`ProjectsSpec`, so that the theorems about these hold of the workspace; `ReservedFormIsFresh`,
for which the invariant adds that a form is of a case and reserved only for the holder, and
`StatusDialogDoesWhatItSays`: whatever happened to the project since the dialog was opened, the
call that follows asks for a state and not for a change. `PagesAlwaysAgree` compares what rows,
review modal, bulk bar and cards offer with the handlers' conditions; each status has its own
label and stage (`StatusShown`, `StagesShown`), so that what the page reads off the label is
what the handler asks of the row. Its one hypothesis is that there is a QA Lead or an
executive: the bulk recommendation asks whether there is one, and the bar does not.

`Executions_proofs` proves of `PagesSpec`, the pages of cycles and defects over their
routes, all that its run checks. `PagesChange` sorts what a step may
do to one slot (add, drop, hand over, repin, record, name an attempt's defect), to one cycle
and to one defect; `RecordedAppends` and `OthersKeep` say what that does to a history. The
type is inductive over all three tables at once: a slot a defect refers to stays because only
an unreferred slot is dropped, and the defects do not change in that step (`ExecutedStays`,
`ReferredWasExecuted`). `HistoryReads` follows from the gate at the one change that appends,
`RecordsStand` from `CompletedExecuted` (a slot of a completed cycle has attempts), which the
completion establishes and the lock keeps. `ExecutionPagesAlwaysAgree` needs more than the type
in two places. The page offers the removal of a slot to whoever added it, the server asks for a
role as well: `AddersExecute` says that whoever added a slot has it. And the dialog that
completes a cycle compares two counts where the server looks at each slot, which comes to the
same because the cases are finitely many (`CountsAgree`; its one hypothesis). Of a runner's
queue the type is what matters: runners execute, and are of the QA department
(`RunnersExecute`).

`Client_proofs` proves the two invariants of the request layer. `ReadsSeeOwnSaves` speaks of
the cache and of shared reads, but what the cache will hold tomorrow is on its way today:
`CInv` says of every call under way that as long as it is current and began in quiet, no save
is under way and its answer is no older than what was saved (`CallsSound`), and the same of
what was kept (`CacheSound`). A save that ends cannot break this, because it made every read
begun before it outdated when it was sent and every read begun since amid it; a retry keeps
the generation its read began in. `SharedIsUnderWay` needs the cardinality of the
calls for the indicator, which is why they are finite.

`Raising_proofs` proves all three properties of its run. A save is a chain of calls each of
which may be lost or arrive after the tab gave it up, so `RInv` speaks of each call on its way:
it carries what its save holds and is never sent before its turn (`CallsMatch`), and what a save
was told is stored was stored: it is with the draft, under the linked request or among what was
deleted by hand (`SavesStore`, over `Held`, which no step makes smaller). `SavedMeansStored` is
the last step of that chain. One draft per form is a count (`OneEach`): drafts, calls that make
one and forms that could still make one are together no more than the wizards opened and the
saves that failed. `Placed` and `PlacedRow` say where evidence is: with the draft until the
raise, and after it under the item its place stood for, unless it has none there; whatever the
wizard showed, and whatever came late.

A page agreement compares what a page offers with the condition of the handler behind it, its
`Can...` or `May...`: the handler is that condition and its effect, so nothing in the modules
is stated with `ENABLED`, which the prover cannot reason about. Only model-checked is liveness
(`SubmittedIsAnswered`, `EveryRequestEnds`, `ComesToRest`), which is out of its reach too. No
module with a theorem uses a recursive operator. The hypotheses of the three theorems about
who can act (two `Staffed`, one `LeadGroup # {}`) are satisfied by the instances of the runs.

## Not modelled

- The server's cache (`cache.py`): a fill that races an invalidation serves an old list for
  its lifetime of 60 to 300 seconds; no handler decides from it.
- Audit and request log, dashboards, reports, exports, background jobs: they read; migrations
  and seeds run before anything else does.
- Files on disk, document rows (but the documents and the evidence of a QA request that its
  wizard and its page write), notifications, comments.
- The question about items without evidence before a raise (see `Raising`); of the submit the
  check of the source of a bug fix (`qa_requests.py:1450-1456`) and that of the caller's role,
  which its owner had when the request was created (1381).
- User administration and the reassignment of a leaver's work; departments beyond who is in
  which; view grants and members of projects.
- Folders, tags, steps and the version history of the repository; rows on the statuses from
  before its review was simplified, which no handler makes.
- Cycle folders, dates, owners and access; galleries; `AddCases` beyond 500 at once, which
  goes on in the background; the API's "Not Executed" attempt, which no page sends.
- The numbers of business ids: the counter rows are locks, what is counted is not kept.
- The planning forms and figures of Performance, the counts of a scan beyond whether there
  is a finding.

Components are "partly" where something of this list belongs to them. More than this is not
reachable faithfully: what is left either decides nothing or is text, files and layout.

### Hazards outside the list

`PROJECT.json` lists the hazards the properties are for. These are real as well and have no
property: a file moved before a commit that fails (`qa_requests.py:79`); two requests that
introduce one name, the second of which fails whole (`application_names.py:100`); two first
submits that each claim an id (`qa_requests.py:1460`); a rename that meets an edit under the
old name (`applications.py:255`); an edit that read DRAFT and commits after the submit
(`qa_requests.py:1222`); a manual retest while a cycle blocks (`functional.py:795`); the
call that links a certificate lost after the one that made it (`Functional.tsx:798`); a
queue that is loaded once (`MyExecutions.tsx:184`); a hidden field that keeps its value
(`validation.ts:92`); the fill of the server's cache (`cache.py:160`).
