------------------------------- MODULE Raising -------------------------------
(* The wizard a QA request is written with (QARequests/NewRequestModal.tsx and  *)
(* steps/), its save as the chain of calls it is (the draft, its documents, the *)
(* evidence of each checklist item), the page of the draft (RequestDetail.tsx)  *)
(* that raises it, and what the server does of those calls. A call may be lost, *)
(* or handled after the tab gave up; the wizard may be discarded while it saves,*)
(* what is stored may be deleted again, and an administrator may change the     *)
(* checklist, which is read from caches, in the meantime.                       *)
EXTENDS Naturals, Sequences, FiniteSets, SequencesExt, Functions

CONSTANTS
  Drafts,     \* QARequest rows that may ever be created
  Items,      \* readiness criteria (the texts: rows are matched by them)
  Mandatory,  \* the criteria marked mandatory
  Files,      \* what is uploaded
  Types,      \* of the request types, those that add a step of their own
  Attempts,   \* 1..n: bound on the saves
  MaxOpened,  \* bound on the wizards opened
  MaxEdits,   \* bound on the changes of the checklist
  None

ASSUME RaisingAssumption ==
  /\ IsFiniteSet(Items) /\ Mandatory \subseteq Items
  /\ Types \subseteq {"functional", "sast", "dast", "performance"}
  /\ Attempts \subseteq Nat \ {0} /\ MaxOpened \in Nat /\ MaxEdits \in Nat
  /\ None \notin Drafts \cup Items \cup Files \cup {"reported", "failed"}

VARIABLES
  template, \* the active checklist items, in sort_order
  older,    \* what they were before
  edits,    \* how often an administrator has changed them
  draft,    \* the gateway rows and the documents that hang on them
  wizard,   \* the form on the screen, or None
  opened,   \* how many wizards have been opened
  saga,     \* saga[t]: the t-th submit(), while its function runs
  ended,    \* how each submit ended, for those that have
  air,      \* calls the server may still handle
  page      \* the RequestDetail on the screen, or None

raisingVars == <<template, older, edits, draft, wizard, opened, saga, ended, air, page>>

----------------------------------------------------------------------------
Places == 1..Cardinality(Items)
Templates == {s \in SeqOf(Items, Cardinality(Items)) : IsInjective(s)}
Body == [types : SUBSET Types, ticked : SUBSET Items]

\* A file of evidence is stored under the place of its item in the checklist; item is
\* what the wizard showed there when it was attached (history).
Evidence == [at : Places, file : Files, item : Items]
Stored == [at : Places, file : Files, item : Items, by : Attempts]
Document == [file : Files, by : Attempts]

\* checklist: the items of the linked functional request, from its creation on; rows:
\* the evidence under them; gone: what was deleted by hand (history).
Draft == [status : {"DRAFT", "RAISED"}, body : Body, docs : SUBSET Document,
          evidence : SUBSET Stored, checklist : Templates \cup {None},
          rows : SUBSET (Items \X Stored), gone : SUBSET (Document \cup Stored)]

\* The steps whose fields have rules of their own.
Ruled == {"details", "type", "sast", "dast"}

\* wrong: the steps, but for "type", whose fields are not filled in as they must be.
Wizard ==
  [editing : Drafts \cup {None}, body : Body, wrong : SUBSET {"details", "sast", "dast"},
   shown : Templates, files : SUBSET Files, staged : SUBSET Evidence]

\* stage: the await submit() is at; left: the places whose upload has not answered.
\* live, home: the wizard and the page that began it have not been closed.
Saga == [stage : {"draft", "documents", "evidence"}, editing : Drafts \cup {None},
         to : Drafts \cup {None}, body : Body, files : SUBSET Files,
         staged : SUBSET Evidence, left : SUBSET Places, live : BOOLEAN, home : BOOLEAN]

Call == [of : Attempts, kind : {"draft"}, to : Drafts \cup {None}, body : Body]
        \cup [of : Attempts, kind : {"documents"}, to : Drafts, files : SUBSET Files]
        \cup [of : Attempts, kind : {"evidence"}, to : Drafts, files : SUBSET Evidence]

\* items: the checklist as the page read it when it was mounted.
Page == [req : Drafts, body : Body, status : {"DRAFT", "RAISED"}, items : Templates]

ASSUME NoneIsNothing == None \notin Draft \cup Wizard \cup Saga \cup Page \cup Templates

\* A read of the checklist may be answered from a cache, of the server or the tab.
Reads == older \cup {template}

Running == {t \in Attempts : saga[t] # None}
Busy == \E t \in Running : saga[t].live
IsNext(t) == ended[t] = None /\ t \notin Running
             /\ \A s \in Attempts : s < t => ended[s] # None \/ s \in Running

----------------------------------------------------------------------------
(* The steps. *)

BuildSteps(ts) == {"details", "type", "documents"} \cup ts

\* The step indicator leads to every step at any time, and asks no rule; so neither the
\* step on the screen nor the order is kept, and a step is used when the wizard has it.
Steps == BuildSteps(wizard.body.types)
AtStep(k) == wizard # None /\ k \in Steps

DetailsStepError(w) == "details" \in w.wrong
TypeStepError(w) == w.body.types = {}
SastStepError(w) == "sast" \in w.body.types /\ "sast" \in w.wrong
DastStepError(w) == "dast" \in w.body.types /\ "dast" \in w.wrong

StepError(w, k) ==
  CASE k = "details" -> DetailsStepError(w)
    [] k = "type" -> TypeStepError(w)
    [] k = "sast" -> SastStepError(w)
    [] k = "dast" -> DastStepError(w)
    [] OTHER -> FALSE

\* submit() asks for every rule, whatever the steps are; one that is broken leads to
\* its step.
BrokenRules(w) == {k \in Ruled : StepError(w, k)}

----------------------------------------------------------------------------
(* The form. *)

OnlyWizard == UNCHANGED <<template, older, edits, draft, opened, saga, ended, air, page>>
Flip(s, x) == IF x \in s THEN s \ {x} ELSE s \cup {x}

\* buildInitialForm: blank, or what the page knows of the draft.
Blank == [types |-> {}, ticked |-> {}]
BlankWizard(d, b) ==
  [editing |-> d, body |-> b, wrong |-> IF d = None THEN {"details", "sast", "dast"} ELSE {},
   shown |-> template, files |-> {}, staged |-> {}]

\* The list, with no request open over it.
OpenNew ==
  /\ wizard = None /\ page = None /\ opened < MaxOpened
  /\ wizard' = BlankWizard(None, Blank)
  /\ opened' = opened + 1
  /\ UNCHANGED <<template, older, edits, draft, saga, ended, air, page>>

EditRequest ==
  /\ wizard = None /\ opened < MaxOpened
  /\ page # None /\ page.status = "DRAFT"
  /\ wizard' = BlankWizard(page.req, page.body)
  /\ opened' = opened + 1
  /\ UNCHANGED <<template, older, edits, draft, saga, ended, air, page>>

\* The fields of a step are filled in as its rules ask, or no longer are.
DetailsStep(w) == [w EXCEPT !.wrong = Flip(@, "details")]
SastStep(w) == [w EXCEPT !.wrong = Flip(@, "sast")]
DastStep(w) == [w EXCEPT !.wrong = Flip(@, "dast")]

Fill(k) ==
  /\ AtStep(k) /\ k \in Ruled \ {"type"}
  /\ wizard' = CASE k = "details" -> DetailsStep(wizard)
                 [] k = "sast" -> SastStep(wizard)
                 [] k = "dast" -> DastStep(wizard)
  /\ OnlyWizard

\* TypeStep: a type is ticked or unticked, and the steps follow.
ToggleType(ty) ==
  /\ AtStep("type")
  /\ wizard' = [wizard EXCEPT !.body.types = Flip(@, ty)]
  /\ OnlyWizard

\* ReadinessChecklistSection of the functional step.
Toggle(i) ==
  /\ AtStep("functional") /\ i \in Range(wizard.shown)
  /\ wizard' = [wizard EXCEPT !.body.ticked = Flip(@, i)]
  /\ OnlyWizard

\* ChecklistEvidencePicker: only an item that is ticked takes a file, which waits for
\* the save; it may be taken out again, ticked or not.
Attach(j, f) ==
  /\ AtStep("functional") /\ j \in DOMAIN wizard.shown
  /\ wizard.shown[j] \in wizard.body.ticked
  /\ wizard' = [wizard EXCEPT !.staged = @ \cup {[at |-> j, file |-> f, item |-> wizard.shown[j]]}]
  /\ OnlyWizard

Unstage(e) ==
  /\ AtStep("functional") /\ e \in wizard.staged
  /\ wizard' = [wizard EXCEPT !.staged = @ \ {e}]
  /\ OnlyWizard

PickFile(f) ==
  /\ AtStep("documents")
  /\ wizard' = [wizard EXCEPT !.files = Flip(@, f)]
  /\ OnlyWizard

\* useChecklistTemplate: the functional step reads the checklist as it is mounted.
ShowsFunctional(items) ==
  /\ AtStep("functional") /\ wizard.shown # items
  /\ wizard' = [wizard EXCEPT !.shown = items]
  /\ OnlyWizard

\* requestClose, and "Discard" to the question it asks: the wizard is gone, a save
\* that is under way is not.
Discard ==
  /\ wizard # None
  /\ wizard' = None
  /\ saga' = [t \in Attempts |-> IF t \in Running THEN [saga[t] EXCEPT !.live = FALSE] ELSE None]
  /\ UNCHANGED <<template, older, edits, draft, opened, ended, air, page>>

----------------------------------------------------------------------------
(* submit() *)

\* (Operators named Bug... are not part of the specification: each one is what
\* the definition after it would be with a mistake in the code.)
BugClickedTwice == wizard # None /\ BrokenRules(wizard) = {}

\* The button is disabled while the wizard saves; a broken rule leads to its step.
MaySubmit == wizard # None /\ ~Busy /\ BrokenRules(wizard) = {}

\* What is sent is what the form held: what is typed or attached meanwhile is not.
Submit(t) ==
  /\ MaySubmit /\ IsNext(t)
  /\ saga' = [saga EXCEPT ![t] =
       [stage |-> "draft", editing |-> wizard.editing, to |-> None, body |-> wizard.body,
        files |-> wizard.files, staged |-> wizard.staged, left |-> {},
        live |-> TRUE, home |-> TRUE]]
  /\ air' = air \cup {[of |-> t, kind |-> "draft", to |-> wizard.editing, body |-> wizard.body]}
  /\ UNCHANGED <<template, older, edits, draft, wizard, opened, ended, page>>

BugEitherOr(s, d) ==
  IF s.files # {} /\ s.stage = "draft"
  THEN [s EXCEPT !.stage = "documents", !.to = d]
  ELSE [s EXCEPT !.stage = "evidence", !.to = d,
                 !.left = IF s.stage = "draft" THEN {e.at : e \in s.staged} ELSE {}]

\* The next await: the documents, if any, then the evidence of all the items at once.
AfterDraft(s, d) ==
  IF s.files # {} /\ s.stage = "draft"
  THEN [s EXCEPT !.stage = "documents", !.to = d]
  ELSE [s EXCEPT !.stage = "evidence", !.to = d, !.left = {e.at : e \in s.staged}]

Uploads(t, s) ==
  IF s.stage = "documents"
  THEN {[of |-> t, kind |-> "documents", to |-> s.to, files |-> s.files]}
  ELSE {[of |-> t, kind |-> "evidence", to |-> s.to, files |-> {e \in s.staged : e.at = j}] :
          j \in s.left}

\* onCreated, of the list or of the page: the request that was saved is shown. It is
\* not asked which wizard is open by now: one of the same kind is closed, one of a
\* page that was opened since goes on over the request now shown.
WizardAfter(t, d) ==
  LET edits_ == wizard # None /\ wizard.editing # None  s == saga[t] IN
  CASE wizard = None -> None
    [] wizard # None /\ ~edits_ -> IF s.editing = None THEN None ELSE wizard
    [] OTHER -> IF s.editing # None /\ s.home THEN None ELSE [wizard EXCEPT !.editing = d]

\* A page that is there stays mounted, with the checklist it has.
Reports(t, d) ==
  /\ wizard' = WizardAfter(t, d)
  /\ saga' = [u \in Attempts |-> IF u \notin Running \ {t} THEN None
                                 ELSE [saga[u] EXCEPT !.live = @ /\ wizard' # None]]
  /\ ended' = [ended EXCEPT ![t] = "reported"]
  /\ \E s \in Reads : page' = [req |-> d, body |-> saga[t].body, status |-> "DRAFT",
                              items |-> IF page = None THEN s ELSE page.items]

\* An answer is heard: the function goes on to the next await, or ends.
GoesOn(t, c, s) ==
  IF s.stage = "evidence" /\ s.left = {}
  THEN Reports(t, s.to) /\ air' = air \ {c}
  ELSE /\ saga' = [saga EXCEPT ![t] = s]
       /\ air' = (air \ {c}) \cup (IF s.stage = saga[t].stage THEN {} ELSE Uploads(t, s))
       /\ UNCHANGED <<ended, wizard, page>>

\* What the server stores of a file the t-th save sends.
AsDocument(t, f) == [file |-> f, by |-> t]
AsEvidence(t, e) == [at |-> e.at, file |-> e.file, item |-> e.item, by |-> t]

\* What the server does of a call, into d.
Handles(c, d) ==
  CASE c.kind = "draft" /\ c.to = None ->
         [status |-> "DRAFT", body |-> c.body, docs |-> {}, evidence |-> {},
          checklist |-> None, rows |-> {}, gone |-> {}]
    [] c.kind = "draft" /\ c.to # None -> [draft[d] EXCEPT !.body = c.body]
    [] c.kind = "documents" ->
         [draft[d] EXCEPT !.docs = @ \cup {AsDocument(c.of, f) : f \in c.files}]
    [] c.kind = "evidence" ->
         [draft[d] EXCEPT !.evidence = @ \cup {AsEvidence(c.of, e) : e \in c.files}]

BugAnyTime(c, d) ==
  IF c.to = None THEN draft[d] = None
  ELSE /\ d = c.to
       /\ c.kind = "draft" => draft[d].status = "DRAFT"
       /\ c.kind = "evidence" => \A e \in c.files : e.at \in DOMAIN template

\* It refuses to edit, or to attach evidence to, what is no draft any more, and
\* evidence of a place the checklist does not have.
Accepts(c, d) ==
  IF c.to = None THEN draft[d] = None
  ELSE /\ d = c.to
       /\ c.kind # "documents" => draft[d].status = "DRAFT"
       /\ c.kind = "evidence" => \A e \in c.files : e.at \in DOMAIN template

Awaited(c) == saga[c.of] # None /\ saga[c.of].stage = c.kind

\* The server handles a call, and submit() hears of it.
Answered(c, d) ==
  /\ c \in air /\ Accepts(c, d) /\ Awaited(c)
  /\ draft' = [draft EXCEPT ![d] = Handles(c, d)]
  /\ GoesOn(c.of, c,
       IF c.kind = "evidence"
       THEN [saga[c.of] EXCEPT !.left = @ \ {e.at : e \in c.files}]
       ELSE AfterDraft(saga[c.of], d))
  /\ UNCHANGED <<template, older, edits, opened>>

\* It handles one whose answer is lost, or comes after the tab gave up.
Unheard(c, d) ==
  /\ c \in air /\ Accepts(c, d)
  /\ draft' = [draft EXCEPT ![d] = Handles(c, d)]
  /\ air' = air \ {c}
  /\ UNCHANGED <<template, older, edits, wizard, opened, saga, ended, page>>

\* A call is refused, cannot be sent, or is given up. The wizard stays as it was:
\* the next submit() begins with the draft again, and a new one with a new draft.
Fails(t) ==
  /\ t \in Running
  /\ saga' = [saga EXCEPT ![t] = None]
  /\ ended' = [ended EXCEPT ![t] = "failed"]
  /\ UNCHANGED <<template, older, edits, draft, wizard, opened, air, page>>

----------------------------------------------------------------------------
(* The page of a request, and its raise. *)

OpenRequest(d) ==
  /\ page = None /\ wizard = None /\ draft[d] # None
  /\ \E s \in Reads :
       page' = [req |-> d, body |-> draft[d].body, status |-> draft[d].status, items |-> s]
  /\ UNCHANGED <<template, older, edits, draft, wizard, opened, saga, ended, air>>

ClosePage ==
  /\ page # None /\ wizard = None
  /\ page' = None
  /\ saga' = [t \in Attempts |-> IF t \in Running THEN [saga[t] EXCEPT !.home = FALSE] ELSE None]
  /\ UNCHANGED <<template, older, edits, draft, wizard, opened, ended, air>>

Declared(b, items) == "functional" \in b.types => Mandatory \cap Range(items) \subseteq b.ticked

\* canSubmit and pendingMandatory: by what the page knows.
OffersSubmit == page # None /\ wizard = None /\ page.status = "DRAFT"
                /\ Declared(page.body, page.items)

\* _promote_draft_checklist_evidence: by the place of each item as it is now; what
\* lies beyond stays where it is, and so does all of it if the type was not asked for.
Promoted(d) ==
  {<<template[e.at], e>> : e \in {x \in draft[d].evidence :
                                    x.at \in DOMAIN template /\ "functional" \in draft[d].body.types}}

\* The checklist of the linked request, if there is one.
SeededFor(d) == IF "functional" \in draft[d].body.types THEN template ELSE None

\* submit_request of an approved name, for what depends on the checklist (the rest of it
\* is Intake's).
Raises(d) ==
  /\ draft[d].status = "DRAFT" /\ Declared(draft[d].body, template)
  /\ draft' = [draft EXCEPT ![d].status = "RAISED", ![d].rows = Promoted(d),
                            ![d].checklist = SeededFor(d),
                            ![d].evidence = @ \ {r[2] : r \in Promoted(d)}]

\* handleSubmitClick, with or without its question about evidence, which holds nothing up.
Raise ==
  /\ OffersSubmit /\ Raises(page.req)
  /\ page' = [page EXCEPT !.status = "RAISED"]
  /\ UNCHANGED <<template, older, edits, wizard, opened, saga, ended, air>>

\* From another tab, by its requester or an administrator.
RaisedElsewhere(d) ==
  /\ draft[d] # None /\ Raises(d)
  /\ UNCHANGED <<template, older, edits, wizard, opened, saga, ended, air, page>>

\* By whoever uploaded it, or an administrator, from the wizard, the page or another tab,
\* while a save runs or not: evidence of a draft (deleteSavedFile) ...
DeleteSaved(d, e) ==
  /\ draft[d] # None /\ e \in draft[d].evidence
  /\ draft[d].status = "DRAFT" /\ e.at \in DOMAIN template
  /\ draft' = [draft EXCEPT ![d].evidence = @ \ {e}, ![d].gone = @ \cup {e}]
  /\ UNCHANGED <<template, older, edits, wizard, opened, saga, ended, air, page>>

\* ... a document, of a draft or not ...
DeleteDocument(d, x) ==
  /\ draft[d] # None /\ x \in draft[d].docs
  /\ draft' = [draft EXCEPT ![d].docs = @ \ {x}, ![d].gone = @ \cup {x}]
  /\ UNCHANGED <<template, older, edits, wizard, opened, saga, ended, air, page>>

\* ... and evidence under an item of the linked request, as long as that may be edited
\* (which is Functional's).
DeleteFromRow(d, r) ==
  /\ draft[d] # None /\ r \in draft[d].rows
  /\ draft' = [draft EXCEPT ![d].rows = @ \ {r}, ![d].gone = @ \cup {r[2]}]
  /\ UNCHANGED <<template, older, edits, wizard, opened, saga, ended, air, page>>

\* checklist_config.py: an item is added, reworded, moved, switched off or deleted, or
\* the defaults are restored.
ChecklistChanges ==
  /\ edits < MaxEdits
  /\ edits' = edits + 1
  /\ template' \in Templates \ {template} /\ older' = older \cup {template}
  /\ UNCHANGED <<draft, wizard, opened, saga, ended, air, page>>

----------------------------------------------------------------------------
RaisingInit ==
  /\ template = SetToSeq(Items) /\ older = {} /\ edits = 0
  /\ draft = [d \in Drafts |-> None]
  /\ wizard = None /\ opened = 0
  /\ saga = [t \in Attempts |-> None] /\ ended = [t \in Attempts |-> None]
  /\ air = {} /\ page = None

RaisingNext ==
  \/ OpenNew \/ EditRequest \/ Discard
  \/ \E s \in Reads : ShowsFunctional(s)
  \/ \E k \in Ruled : Fill(k)
  \/ \E ty \in Types : ToggleType(ty)
  \/ \E i \in Items : Toggle(i)
  \/ \E j \in Places, f \in Files : Attach(j, f)
  \/ wizard # None /\ \E e \in wizard.staged : Unstage(e)
  \/ \E d \in Drafts : draft[d] # None /\
       \/ \E e \in draft[d].evidence : DeleteSaved(d, e)
       \/ \E x \in draft[d].docs : DeleteDocument(d, x)
       \/ \E r \in draft[d].rows : DeleteFromRow(d, r)
  \/ \E f \in Files : PickFile(f)
  \/ \E t \in Attempts : Submit(t) \/ Fails(t)
  \/ \E c \in air, d \in Drafts : Answered(c, d) \/ Unheard(c, d)
  \/ \E d \in Drafts : OpenRequest(d) \/ RaisedElsewhere(d)
  \/ ClosePage \/ Raise \/ ChecklistChanges

RaisingSpec == RaisingInit /\ [][RaisingNext]_raisingVars

----------------------------------------------------------------------------
RaisingTypeOK ==
  /\ template \in Templates /\ older \subseteq Templates /\ edits \in 0..MaxEdits
  /\ draft \in [Drafts -> Draft \cup {None}]
  /\ wizard \in Wizard \cup {None} /\ opened \in 0..MaxOpened
  /\ saga \in [Attempts -> Saga \cup {None}]
  /\ ended \in [Attempts -> {"reported", "failed", None}]
  /\ air \subseteq Call /\ page \in Page \cup {None}

\* Nobody is held up by a field that is not on the screen: once no step of the wizard
\* has anything wrong, nothing keeps submit() from saving (validation.ts, of the blank
\* repository of a request without SAST).
NobodyIsStuck ==
  wizard # None /\ (\A k \in Steps : ~StepError(wizard, k))
    => BrokenRules(wizard) = {}

\* Whatever the server ever took for a draft: with it, under its linked request, or
\* deleted by hand.
Held(row) == row.docs \cup row.evidence \cup {r[2] : r \in row.rows} \cup row.gone

\* "Saved as Draft" is shown only once this very save has had the server store every
\* document and every file of evidence that its form held at the click, through every
\* retry, lost answer and late call; and what is stored stays with the request, through
\* later saves, changes of the checklist and the raise, but for what is deleted by hand.
SavedMeansStored ==
  [][/\ \A t \in Attempts : ended[t] # "reported" /\ ended'[t] = "reported" =>
          /\ \A f \in saga[t].files : AsDocument(t, f) \in Held(draft'[page'.req])
          /\ \A e \in saga[t].staged : AsEvidence(t, e) \in Held(draft'[page'.req])
     /\ \A d \in Drafts : draft[d] # None =>
          draft'[d] # None /\ Held(draft[d]) \subseteq Held(draft'[d])]_raisingVars

\* A form is saved as one draft however often the button is pressed and whatever else is
\* done while it saves, and as at most one more for every save that failed: the wizard
\* does not know what became of that one.
OneDraftEach ==
  Cardinality({d \in Drafts : draft[d] # None})
    <= opened + Cardinality({t \in Attempts : ended[t] = "failed"})

\* Evidence that has a place in the checklist of the linked request is there once the
\* request is raised, however late its call was handled and whatever became of the
\* checklist since it was attached.
NothingIsLeftBehind ==
  \A d \in Drafts : draft[d] # None /\ draft[d].checklist # None =>
    \A e \in draft[d].evidence : e.at \notin DOMAIN draft[d].checklist

\* It is under one item only, which is its own if that one has kept its place from the
\* checklist the wizard showed to the one the raise used.
EvidenceKeepsItsItem ==
  \A d \in Drafts : draft[d] # None => \A r \in draft[d].rows :
    /\ draft[d].checklist[r[2].at] = r[2].item => r[1] = r[2].item
    /\ \A q \in draft[d].rows : q[2] = r[2] => q = r

\* The wizard is sound: typed, no dead end, and one form is one draft but for failures.
WizardIsSound == RaisingTypeOK /\ NobodyIsStuck /\ OneDraftEach

\* A raise takes the evidence along, to where it belongs.
EvidenceIsInPlace == NothingIsLeftBehind /\ EvidenceKeepsItsItem

=============================================================================
