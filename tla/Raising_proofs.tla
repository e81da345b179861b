--------------------------- MODULE Raising_proofs ---------------------------
(* Theorems about Raising, for any number of drafts, checklist items, files,    *)
(* saves and wizards: what a save that reports has stored, that one form is one *)
(* draft, and where its evidence is.                                            *)
EXTENDS Raising, FiniteSetTheorems, TLAPS

\* The drafts there are, and the calls under way that make one.
Made == {d \in Drafts : draft[d] # None}
Creating == {c \in air : c.kind = "draft" /\ c.to = None}

\* What refers to a draft refers to one that exists. A wizard that edits one was opened
\* from a page, and the page is still there.
Linked ==
  /\ wizard # None /\ wizard.editing # None => wizard.editing \in Made /\ page # None
  /\ page # None => page.req \in Made
  /\ \A t \in Running : /\ saga[t].editing \in Made \cup {None}
                        /\ saga[t].stage # "draft" => saga[t].to \in Made
  /\ \A c \in air : c.to \in Made \cup {None}

\* Only a raise gives a draft's linked request its checklist and rows; what it leaves with
\* the draft has no place there.
PlacedRow(a) ==
  /\ a.status = "DRAFT" => a.checklist = None
  /\ a.checklist = None => a.rows = {}
  /\ a.checklist # None => /\ \A e \in a.evidence : e.at \notin DOMAIN a.checklist
                           /\ \A r \in a.rows : r[1] = a.checklist[r[2].at]
Placed == \A d \in Made : PlacedRow(draft[d])

\* A save that runs has not ended; a wizard that one still reports to is the one that
\* began it: both write a new draft, or both edit one.
SavesRun ==
  \A t \in Running :
    /\ ended[t] = None
    /\ saga[t].live => wizard # None /\ (saga[t].editing = None <=> wizard.editing = None)

\* A call is of a save that was begun, and carries what that save holds, to its draft;
\* none is sent before its turn.
CallsMatch ==
  \A c \in air :
    /\ c.of \in Running \/ ended[c.of] # None
    /\ c.of \in Running /\ c.kind # "draft" =>
         /\ saga[c.of].stage # "draft" /\ c.to = saga[c.of].to
         /\ c.kind = "documents" => c.files = saga[c.of].files
         /\ c.kind = "evidence" =>
              /\ saga[c.of].stage = "evidence"
              /\ \E j \in Places : c.files = {e \in saga[c.of].staged : e.at = j}

\* What a save has been told is stored was stored, by this save.
SavesStore ==
  \A t \in Running : saga[t].stage = "evidence" =>
    /\ \A f \in saga[t].files : AsDocument(t, f) \in Held(draft[saga[t].to])
    /\ \A e \in saga[t].staged :
         e.at \in saga[t].left \/ AsEvidence(t, e) \in Held(draft[saga[t].to])

\* A wizard that could still write a new draft of its own.
FormIsBlank == wizard # None /\ wizard.editing = None /\ ~Busy
BlankForms == IF FormIsBlank THEN 1 ELSE 0
Failed == {t \in Attempts : ended[t] = "failed"}

\* Every draft that exists, that is being made, or that may yet be made has a wizard of
\* its own that was opened for it, or a save that failed: its wizard is blank again.
OneEach ==
  /\ IsFiniteSet(Made) /\ IsFiniteSet(Creating) /\ IsFiniteSet(Failed)
  /\ Cardinality(Made) + Cardinality(Creating) + BlankForms <= opened + Cardinality(Failed)

\* The inductive invariant. What is reported as stored follows a save through all its
\* calls, so it speaks of every call that is still on its way.
RInv ==
  /\ RaisingTypeOK /\ Linked /\ Placed /\ SavesRun /\ CallsMatch /\ SavesStore /\ OneEach

----------------------------------------------------------------------------
(* Types. *)

LEMMA TemplateShape ==
  ASSUME NEW s \in Templates
  PROVE  DOMAIN s \subseteq Places /\ \A j \in DOMAIN s : s[j] \in Items
<1>1. Cardinality(Items) \in Nat
  BY RaisingAssumption, FS_CardinalityType
<1>2. PICK m \in 0..Cardinality(Items) : s \in [1..m -> Items]
  BY DEF Templates, SeqOf
<1> QED
  BY <1>1, <1>2 DEF Places

LEMMA FirstTemplate == SetToSeq(Items) \in Templates
<1> DEFINE n == Cardinality(Items)
<1>1. n \in Nat /\ ExistsBijection(1..n, Items)
  BY RaisingAssumption, FS_CardinalityType
<1>2. \E f \in [1..n -> Items] : IsInjective(f)
  BY <1>1 DEF ExistsBijection, Bijection, Injection
<1>3. SetToSeq(Items) \in [1..n -> Items] /\ IsInjective(SetToSeq(Items))
  BY <1>2 DEF SetToSeq
<1>4. SetToSeq(Items) \in SeqOf(Items, n)
  BY <1>1, <1>3 DEF SeqOf
<1> QED
  BY <1>3, <1>4 DEF Templates

LEMMA RInit == RaisingInit => RInv
<1> SUFFICES ASSUME RaisingInit PROVE RInv
  OBVIOUS
<1> USE DEF RaisingInit
<1>1. RaisingTypeOK
  BY FirstTemplate, RaisingAssumption DEF RaisingTypeOK
<1>2. Made = {} /\ Creating = {} /\ Running = {} /\ Failed = {}
  BY RaisingAssumption DEF Made, Creating, Running, Failed
<1>3. Linked /\ Placed /\ SavesRun /\ CallsMatch /\ SavesStore
  BY <1>2 DEF Linked, Placed, SavesRun, CallsMatch, SavesStore
<1>4. OneEach
  BY <1>2, FS_EmptySet DEF OneEach, BlankForms, FormIsBlank
<1> QED
  BY <1>1, <1>3, <1>4 DEF RInv

----------------------------------------------------------------------------
(* The steps, by what they do. *)

\* Something is typed, ticked, attached or taken out, or the checklist is read.
FormStep ==
  /\ wizard # None /\ wizard' \in Wizard /\ wizard'.editing = wizard.editing
  /\ OnlyWizard

\* Something that is stored for a draft is deleted by hand.
Deletes ==
  \E d \in Made : \E b \in Draft :
    /\ draft' = [draft EXCEPT ![d] = b]
    /\ b.status = draft[d].status /\ b.checklist = draft[d].checklist
    /\ b.evidence \subseteq draft[d].evidence /\ b.rows \subseteq draft[d].rows
    /\ Held(draft[d]) \subseteq Held(b)
    /\ UNCHANGED <<template, older, edits, wizard, opened, saga, ended, air, page>>

LEMMA DeleteSteps ==
  ASSUME RaisingTypeOK, NEW d \in Drafts, NEW x,
         DeleteSaved(d, x) \/ DeleteDocument(d, x) \/ DeleteFromRow(d, x)
  PROVE  Deletes
<1>1. d \in Made /\ draft[d] \in Draft
  BY DEF DeleteSaved, DeleteDocument, DeleteFromRow, Made, RaisingTypeOK
<1> DEFINE a == draft[d]
<1> USE DEF Held, Draft
<1>2. CASE DeleteSaved(d, x)
  <2> DEFINE b == [a EXCEPT !.evidence = a.evidence \ {x}, !.gone = a.gone \cup {x}]
  <2>1. b \in Draft /\ draft' = [draft EXCEPT ![d] = b]
    BY <1>1, <1>2 DEF DeleteSaved
  <2>2. /\ b.status = a.status /\ b.checklist = a.checklist /\ b.rows = a.rows /\ b.docs = a.docs
        /\ b.evidence = a.evidence \ {x} /\ b.gone = a.gone \cup {x}
    BY <1>1
  <2> HIDE DEF b
  <2>3. Held(a) \subseteq Held(b)
    BY <2>2
  <2> QED
    BY <1>1, <1>2, <2>1, <2>2, <2>3 DEF DeleteSaved, Deletes
<1>3. CASE DeleteDocument(d, x)
  <2> DEFINE b == [a EXCEPT !.docs = a.docs \ {x}, !.gone = a.gone \cup {x}]
  <2>1. b \in Draft /\ draft' = [draft EXCEPT ![d] = b]
    BY <1>1, <1>3 DEF DeleteDocument
  <2>2. /\ b.status = a.status /\ b.checklist = a.checklist /\ b.rows = a.rows
        /\ b.evidence = a.evidence /\ b.docs = a.docs \ {x} /\ b.gone = a.gone \cup {x}
    BY <1>1
  <2> HIDE DEF b
  <2>3. Held(a) \subseteq Held(b)
    BY <2>2
  <2> QED
    BY <1>1, <1>3, <2>1, <2>2, <2>3 DEF DeleteDocument, Deletes
<1>4. CASE DeleteFromRow(d, x)
  <2> DEFINE b == [a EXCEPT !.rows = a.rows \ {x}, !.gone = a.gone \cup {x[2]}]
  <2>0. x \in a.rows /\ x[2] \in Stored
    BY <1>1, <1>4 DEF DeleteFromRow
  <2>1. b \in Draft /\ draft' = [draft EXCEPT ![d] = b]
    BY <1>1, <1>4, <2>0 DEF DeleteFromRow
  <2>2. /\ b.status = a.status /\ b.checklist = a.checklist /\ b.docs = a.docs
        /\ b.evidence = a.evidence /\ b.rows = a.rows \ {x} /\ b.gone = a.gone \cup {x[2]}
    BY <1>1
  <2> HIDE DEF b
  <2>3. Held(a) \subseteq Held(b)
    BY <2>2
  <2> QED
    BY <1>1, <1>4, <2>1, <2>2, <2>3 DEF DeleteFromRow, Deletes
<1> QED
  BY <1>2, <1>3, <1>4

LEMMA FormSteps ==
  ASSUME RaisingTypeOK,
         \/ \E s \in Reads : ShowsFunctional(s)
         \/ \E k \in Ruled : Fill(k)
         \/ \E ty \in Types : ToggleType(ty)
         \/ \E i \in Items : Toggle(i)
         \/ \E j \in Places, f \in Files : Attach(j, f)
         \/ wizard # None /\ \E e \in wizard.staged : Unstage(e)
         \/ \E f \in Files : PickFile(f)
  PROVE  FormStep
<1>0. ASSUME wizard # None PROVE wizard \in Wizard
  BY <1>0 DEF RaisingTypeOK
<1> USE DEF FormStep, AtStep, OnlyWizard, Wizard, Body, Flip
<1>1. ASSUME NEW s \in Reads, ShowsFunctional(s) PROVE FormStep
  <2>1. wizard # None /\ wizard \in Wizard /\ s \in Templates
    BY <1>0, <1>1 DEF ShowsFunctional, Reads, RaisingTypeOK
  <2> QED
    BY <1>1, <2>1 DEF ShowsFunctional
<1>2. ASSUME NEW k \in Ruled, Fill(k) PROVE FormStep
  <2>1. wizard # None /\ wizard \in Wizard /\ OnlyWizard /\ k \in {"details", "sast", "dast"}
    BY <1>0, <1>2 DEF Fill, Ruled
  <2>2. wizard' = [wizard EXCEPT !.wrong = Flip(wizard.wrong, k)]
    BY <1>2, <2>1 DEF Fill, DetailsStep, SastStep, DastStep
  <2> QED
    BY <2>1, <2>2
<1>3. ASSUME NEW ty \in Types, ToggleType(ty) PROVE FormStep
  BY <1>0, <1>3 DEF ToggleType
<1>4. ASSUME NEW i \in Items, Toggle(i) PROVE FormStep
  BY <1>0, <1>4 DEF Toggle
<1>5. ASSUME NEW j \in Places, NEW f \in Files, Attach(j, f) PROVE FormStep
  <2>1. wizard # None /\ wizard \in Wizard /\ j \in DOMAIN wizard.shown
    BY <1>0, <1>5 DEF Attach
  <2>2. wizard.shown[j] \in Items
    BY <2>1, TemplateShape
  <2> DEFINE e == [at |-> j, file |-> f, item |-> wizard.shown[j]]
  <2>3. e \in Evidence
    BY <2>2 DEF Evidence
  <2>4. wizard' = [wizard EXCEPT !.staged = wizard.staged \cup {e}] /\ OnlyWizard
    BY <1>5 DEF Attach
  <2> HIDE DEF e
  <2> QED
    BY <2>1, <2>3, <2>4
<1>6. ASSUME wizard # None, NEW e \in wizard.staged, Unstage(e) PROVE FormStep
  BY <1>0, <1>6 DEF Unstage
<1>7. ASSUME NEW f \in Files, PickFile(f) PROVE FormStep
  BY <1>0, <1>7 DEF PickFile
<1> QED
  BY <1>1, <1>2, <1>3, <1>4, <1>5, <1>6, <1>7

\* Every step is one of these.
LEMMA RaisingSteps ==
  ASSUME RaisingTypeOK, Linked, RaisingNext
  PROVE  \/ FormStep \/ Deletes
         \/ OpenNew \/ EditRequest \/ Discard
         \/ \E t \in Attempts : Submit(t)
         \/ \E t \in Attempts : Fails(t)
         \/ \E c \in air, d \in Drafts : Answered(c, d)
         \/ \E c \in air, d \in Drafts : Unheard(c, d)
         \/ \E d \in Drafts : OpenRequest(d)
         \/ ClosePage \/ Raise
         \/ \E d \in Drafts : RaisedElsewhere(d)
         \/ ChecklistChanges
<1>1. ASSUME NEW d \in Drafts, NEW x, DeleteSaved(d, x) \/ DeleteDocument(d, x) \/ DeleteFromRow(d, x)
      PROVE  Deletes
  BY <1>1, DeleteSteps
<1> QED
  BY <1>1, FormSteps DEF RaisingNext

----------------------------------------------------------------------------
(* What the server makes of a draft. *)

\* A call it accepts and handles.
Handled(c, d) ==
  /\ Accepts(c, d)
  /\ draft' = [draft EXCEPT ![d] = Handles(c, d)]

LEMMA CallKinds ==
  ASSUME RaisingTypeOK, NEW c \in air
  PROVE  /\ c.of \in Attempts /\ c.to \in Drafts \cup {None}
         /\ c.kind \in {"draft", "documents", "evidence"}
         /\ c.kind = "draft" => c.body \in Body
         /\ c.kind = "documents" => c.files \subseteq Files /\ c.to \in Drafts
         /\ c.kind = "evidence" => c.files \subseteq Evidence /\ c.to \in Drafts
<1>1. c \in Call
  BY DEF RaisingTypeOK
<1> QED
  BY <1>1 DEF Call

\* A new draft is made of a call that names none.
LEMMA HandlesNew ==
  ASSUME RaisingTypeOK, Linked, NEW c \in air, NEW d \in Drafts, Accepts(c, d), c.to = None
  PROVE  /\ d \notin Made /\ c.kind = "draft" /\ Handles(c, d) \in Draft
         /\ PlacedRow(Handles(c, d))
<1>1. c.kind = "draft" /\ c.body \in Body
  BY CallKinds, RaisingAssumption
<1>2. Handles(c, d) = [status |-> "DRAFT", body |-> c.body, docs |-> {}, evidence |-> {},
                       checklist |-> None, rows |-> {}, gone |-> {}]
  BY <1>1 DEF Handles
<1>3. d \notin Made
  BY DEF Accepts, Made
<1> QED
  BY <1>1, <1>2, <1>3 DEF Draft, PlacedRow

\* Any other goes into the draft it names, which keeps what it has.
LEMMA HandlesOld ==
  ASSUME RaisingTypeOK, Linked, NEW c \in air, NEW d \in Drafts, Accepts(c, d), c.to # None
  PROVE  /\ d = c.to /\ d \in Made /\ draft[d] \in Draft
         /\ Handles(c, d) \in Draft /\ Held(draft[d]) \subseteq Held(Handles(c, d))
         /\ PlacedRow(draft[d]) => PlacedRow(Handles(c, d))
         /\ c.kind = "documents" => \A f \in c.files : AsDocument(c.of, f) \in Held(Handles(c, d))
         /\ c.kind = "evidence" => \A e \in c.files : AsEvidence(c.of, e) \in Held(Handles(c, d))
<1>1. d = c.to /\ d \in Made
  BY DEF Accepts, Linked
<1>2. draft[d] \in Draft
  BY <1>1 DEF RaisingTypeOK, Made
<1> DEFINE a == draft[d]
           b == Handles(c, d)
<1>3. CASE c.kind = "draft"
  <2>1. c.body \in Body /\ b = [a EXCEPT !.body = c.body]
    BY <1>3, CallKinds DEF Handles
  <2>2. /\ b \in Draft /\ b.status = a.status /\ b.checklist = a.checklist /\ b.rows = a.rows
        /\ b.docs = a.docs /\ b.evidence = a.evidence /\ b.gone = a.gone
    BY <1>2, <2>1 DEF Draft
  <2> QED
    BY <1>1, <1>2, <1>3, <2>2 DEF Held, PlacedRow
<1>4. CASE c.kind = "documents"
  <2> DEFINE new == {AsDocument(c.of, f) : f \in c.files}
  <2>1. c.files \subseteq Files /\ c.of \in Attempts /\ b = [a EXCEPT !.docs = a.docs \cup new]
    BY <1>4, CallKinds DEF Handles
  <2>2. new \subseteq Document /\ \A f \in c.files : AsDocument(c.of, f) \in new
    BY <2>1 DEF AsDocument, Document
  <2> HIDE DEF new
  <2>3. /\ b \in Draft /\ b.status = a.status /\ b.checklist = a.checklist /\ b.rows = a.rows
        /\ b.docs = a.docs \cup new /\ b.evidence = a.evidence /\ b.gone = a.gone
    BY <1>2, <2>1, <2>2 DEF Draft
  <2> QED
    BY <1>1, <1>2, <1>4, <2>2, <2>3 DEF Held, PlacedRow
<1>5. CASE c.kind = "evidence"
  <2> DEFINE new == {AsEvidence(c.of, e) : e \in c.files}
  <2>1. c.files \subseteq Evidence /\ c.of \in Attempts /\ b = [a EXCEPT !.evidence = a.evidence \cup new]
    BY <1>5, CallKinds DEF Handles
  <2>2. new \subseteq Stored /\ \A e \in c.files : AsEvidence(c.of, e) \in new
    BY <2>1 DEF AsEvidence, Evidence, Stored
  <2>3. a.status = "DRAFT"
    BY <1>1, <1>5 DEF Accepts
  <2> HIDE DEF new
  <2>4. /\ b \in Draft /\ b.status = a.status /\ b.checklist = a.checklist /\ b.rows = a.rows
        /\ b.docs = a.docs /\ b.evidence = a.evidence \cup new /\ b.gone = a.gone
    BY <1>2, <2>1, <2>2 DEF Draft
  <2> QED
    BY <1>1, <1>2, <1>5, <2>2, <2>3, <2>4 DEF Held, PlacedRow
<1> QED
  BY <1>3, <1>4, <1>5, CallKinds

\* What becomes of the evidence of a draft that is raised.
LEMMA RaisesKeeps ==
  ASSUME RaisingTypeOK, NEW d \in Made, Raises(d), PlacedRow(draft[d])
  PROVE  /\ draft[d] \in Draft /\ draft'[d] \in Draft
         /\ draft' = [draft EXCEPT ![d] = draft'[d]]
         /\ Held(draft[d]) \subseteq Held(draft'[d]) /\ PlacedRow(draft'[d])
<1>1. d \in Drafts /\ draft[d] \in Draft
  BY DEF RaisingTypeOK, Made
<1> DEFINE a == draft[d]
           taken == {r[2] : r \in Promoted(d)}
           raised == [a EXCEPT !.status = "RAISED", !.rows = Promoted(d), !.checklist = SeededFor(d),
                               !.evidence = a.evidence \ taken]
<1>2. draft' = [draft EXCEPT ![d] = raised] /\ a.status = "DRAFT"
  BY DEF Raises
<1>3. /\ \A r \in Promoted(d) :
           r[2] \in a.evidence /\ r[1] = template[r[2].at] /\ SeededFor(d) = template
      /\ SeededFor(d) = None => Promoted(d) = {}
      /\ SeededFor(d) # None => SeededFor(d) = template
                                /\ \A e \in a.evidence : e.at \in DOMAIN template => e \in taken
  <2>1. \A r \in Promoted(d) :
           r[2] \in a.evidence /\ r[1] = template[r[2].at] /\ SeededFor(d) = template
    BY DEF Promoted, SeededFor
  <2>2. ASSUME SeededFor(d) = None PROVE Promoted(d) = {}
    BY <2>1, <2>2, NoneIsNothing DEF RaisingTypeOK
  <2>3. ASSUME SeededFor(d) # None, NEW e \in a.evidence, e.at \in DOMAIN template PROVE e \in taken
    <3>1. <<template[e.at], e>> \in Promoted(d)
      BY <2>3 DEF Promoted, SeededFor
    <3>2. e = <<template[e.at], e>>[2]
      OBVIOUS
    <3> QED
      BY <3>1, <3>2
  <2> QED
    BY <2>1, <2>2, <2>3 DEF SeededFor
<1>4. Promoted(d) \subseteq Items \X Stored
  <2>1. \A j \in DOMAIN template : template[j] \in Items
    BY TemplateShape DEF RaisingTypeOK
  <2> QED
    BY <1>1, <2>1 DEF Promoted, Draft
<1>5. SeededFor(d) \in Templates \cup {None}
  BY DEF SeededFor, RaisingTypeOK
<1> HIDE DEF taken
<1>6. raised \in Draft
  BY <1>1, <1>4, <1>5 DEF Draft
<1>7. /\ raised.status = "RAISED" /\ raised.docs = a.docs /\ raised.gone = a.gone
      /\ raised.checklist = SeededFor(d)
      /\ raised.rows = Promoted(d) /\ raised.evidence = a.evidence \ taken
  BY <1>1 DEF Draft
<1> HIDE DEF raised
<1>8. draft'[d] = raised /\ draft' = [draft EXCEPT ![d] = draft'[d]]
  BY <1>1, <1>2 DEF RaisingTypeOK
<1>9. a.rows = {}
  BY <1>2 DEF PlacedRow
<1>10. Held(a) \subseteq Held(raised)
  BY <1>7, <1>9 DEF Held, taken
<1>11. PlacedRow(raised)
  BY <1>3, <1>7 DEF PlacedRow
<1> QED
  BY <1>1, <1>6, <1>8, <1>10, <1>11

----------------------------------------------------------------------------
(* What submit() makes of an answer. *)

\* The save at its next await, after the answer to c about d.
NextSaga(c, d) ==
  IF c.kind = "evidence"
  THEN [saga[c.of] EXCEPT !.left = @ \ {e.at : e \in c.files}]
  ELSE AfterDraft(saga[c.of], d)

\* b is a later on: it holds the same.
Carries(a, b) ==
  /\ b.editing = a.editing /\ b.body = a.body /\ b.files = a.files /\ b.staged = a.staged
  /\ b.live = a.live /\ b.home = a.home

LEMMA NextSagaIs ==
  ASSUME RaisingTypeOK, Linked, CallsMatch, NEW c \in air, NEW d \in Drafts, Accepts(c, d), Awaited(c)
  PROVE  /\ c.of \in Running /\ saga[c.of] \in Saga /\ saga[c.of].stage = c.kind
         /\ NextSaga(c, d) \in Saga /\ Carries(saga[c.of], NextSaga(c, d))
         /\ NextSaga(c, d).to = d
         /\ \/ /\ c.kind = "draft" /\ NextSaga(c, d).stage = "documents"
            \/ /\ c.kind = "draft" /\ saga[c.of].files = {} /\ NextSaga(c, d).stage = "evidence"
               /\ NextSaga(c, d).left = {e.at : e \in saga[c.of].staged}
            \/ /\ c.kind = "documents" /\ NextSaga(c, d).stage = "evidence"
               /\ NextSaga(c, d).left = {e.at : e \in saga[c.of].staged}
            \/ /\ c.kind = "evidence" /\ NextSaga(c, d).stage = "evidence"
               /\ NextSaga(c, d).left = saga[c.of].left \ {e.at : e \in c.files}
<1>1. c.of \in Running /\ saga[c.of] \in Saga /\ saga[c.of].stage = c.kind
  BY CallKinds DEF Running, Awaited, RaisingTypeOK
<1>2. {e.at : e \in saga[c.of].staged} \subseteq Places
  BY <1>1 DEF Saga, Evidence
<1> DEFINE a == saga[c.of]
           places == {e.at : e \in a.staged}
<1> USE DEF Carries
<1>3. CASE c.kind = "evidence"
  <2> DEFINE answered == {e.at : e \in c.files}
  <2>1. NextSaga(c, d) = [a EXCEPT !.left = a.left \ answered]
    BY <1>3 DEF NextSaga
  <2>2. a.to = d
    BY <1>1, <1>3, CallKinds, RaisingAssumption DEF CallsMatch, Accepts
  <2> HIDE DEF answered
  <2>3. /\ NextSaga(c, d) \in Saga /\ Carries(a, NextSaga(c, d)) /\ NextSaga(c, d).to = d
        /\ NextSaga(c, d).stage = "evidence" /\ NextSaga(c, d).left = a.left \ answered
    BY <1>1, <1>3, <2>1, <2>2 DEF Saga
  <2> QED
    BY <1>1, <1>3, <2>3 DEF answered
<1>4. CASE c.kind # "evidence"
  <2>1. NextSaga(c, d) = AfterDraft(a, d) /\ c.kind \in {"draft", "documents"}
    BY <1>4, CallKinds DEF NextSaga
  <2>2. CASE a.files # {} /\ a.stage = "draft"
    <3>1. NextSaga(c, d) = [a EXCEPT !.stage = "documents", !.to = d]
      BY <2>1, <2>2 DEF AfterDraft
    <3> QED
      BY <1>1, <1>4, <2>2, <3>1 DEF Saga
  <2>3. CASE ~(a.files # {} /\ a.stage = "draft")
    <3>1. NextSaga(c, d) = [a EXCEPT !.stage = "evidence", !.to = d, !.left = places]
      BY <2>1, <2>3 DEF AfterDraft
    <3> HIDE DEF places
    <3>2. /\ NextSaga(c, d) \in Saga /\ Carries(a, NextSaga(c, d)) /\ NextSaga(c, d).to = d
          /\ NextSaga(c, d).stage = "evidence" /\ NextSaga(c, d).left = places
      BY <1>1, <1>2, <3>1 DEF Saga, places
    <3> QED
      BY <1>1, <2>1, <2>3, <3>2 DEF places
  <2> QED
    BY <2>2, <2>3
<1> QED
  BY <1>3, <1>4

\* The next calls are of this save and carry what it holds.
LEMMA UploadsAre ==
  ASSUME NEW t \in Attempts, NEW s \in Saga, s.stage # "draft", s.to \in Drafts
  PROVE  /\ Uploads(t, s) \subseteq Call
         /\ \A c \in Uploads(t, s) :
              /\ c.of = t /\ c.to = s.to /\ c.kind = s.stage
              /\ c.kind = "documents" => c.files = s.files
              /\ c.kind = "evidence" =>
                   c.files \subseteq s.staged /\ \E j \in Places : c.files = {e \in s.staged : e.at = j}
<1>1. CASE s.stage = "documents"
  <2> DEFINE c == [of |-> t, kind |-> "documents", to |-> s.to, files |-> s.files]
  <2>1. Uploads(t, s) = {c}
    BY <1>1 DEF Uploads
  <2>2. c \in Call
    BY DEF Call, Saga
  <2> QED
    BY <1>1, <2>1, <2>2
<1>2. CASE s.stage = "evidence"
  <2> DEFINE c(j) == [of |-> t, kind |-> "evidence", to |-> s.to, files |-> {e \in s.staged : e.at = j}]
  <2>1. Uploads(t, s) = {c(j) : j \in s.left}
    BY <1>2 DEF Uploads
  <2>2. ASSUME NEW j \in s.left PROVE c(j) \in Call /\ j \in Places
    BY DEF Call, Saga
  <2> QED
    BY <1>2, <2>1, <2>2
<1> QED
  BY <1>1, <1>2 DEF Saga

LEMMA NextUploads ==
  ASSUME RaisingTypeOK, Linked, CallsMatch, NEW c \in air, NEW d \in Drafts, Accepts(c, d), Awaited(c)
  PROVE  \A x \in Uploads(c.of, NextSaga(c, d)) :
           /\ x.of = c.of /\ x.to = d /\ x.kind = NextSaga(c, d).stage
           /\ x.kind = "documents" => x.files = saga[c.of].files
           /\ x.kind = "evidence" =>
                /\ x.files \subseteq saga[c.of].staged
                /\ \E j \in Places : x.files = {e \in saga[c.of].staged : e.at = j}
<1>1. /\ c.of \in Attempts /\ NextSaga(c, d) \in Saga /\ NextSaga(c, d).stage # "draft"
      /\ NextSaga(c, d).to = d /\ NextSaga(c, d).files = saga[c.of].files
      /\ NextSaga(c, d).staged = saga[c.of].staged
  BY NextSagaIs, CallKinds DEF Carries
<1> DEFINE n == NextSaga(c, d)
<1> HIDE DEF n
<1>2. n \in Saga /\ n.stage # "draft" /\ n.to \in Drafts
  BY <1>1 DEF n
<1>3. \A x \in Uploads(c.of, n) :
        /\ x.of = c.of /\ x.to = n.to /\ x.kind = n.stage
        /\ x.kind = "documents" => x.files = n.files
        /\ x.kind = "evidence" =>
             x.files \subseteq n.staged /\ \E j \in Places : x.files = {e \in n.staged : e.at = j}
  BY <1>1, <1>2, UploadsAre
<1> QED
  BY <1>1, <1>3 DEF n

\* What it counts on is stored by then.
LEMMA NextSagaStores ==
  ASSUME RaisingTypeOK, Linked, CallsMatch, SavesStore,
         NEW c \in air, NEW d \in Drafts, Handled(c, d), Awaited(c), NextSaga(c, d).stage = "evidence"
  PROVE  /\ \A f \in saga[c.of].files : AsDocument(c.of, f) \in Held(draft'[d])
         /\ \A e \in saga[c.of].staged :
              e.at \in NextSaga(c, d).left \/ AsEvidence(c.of, e) \in Held(draft'[d])
<1> DEFINE s == NextSaga(c, d)
           a == saga[c.of]
           t == c.of
<1>1. c.of \in Running /\ a \in Saga /\ a.stage = c.kind
  BY NextSagaIs DEF Handled
<1>2. draft'[d] = Handles(c, d)
  BY DEF Handled, RaisingTypeOK
<1>3. CASE c.kind = "draft"
  <2>1. a.files = {} /\ s.left = {e.at : e \in a.staged}
    BY <1>3, NextSagaIs DEF Handled
  <2> QED
    BY <2>1
<1>4. CASE c.kind = "documents"
  <2>1. s.left = {e.at : e \in a.staged}
    BY <1>4, NextSagaIs DEF Handled
  <2>2. c.to # None /\ c.files = a.files
    BY <1>1, <1>4, CallKinds, RaisingAssumption DEF CallsMatch
  <2>3. \A f \in a.files : AsDocument(t, f) \in Held(Handles(c, d))
    BY <1>4, <2>2, HandlesOld DEF Handled
  <2> QED
    BY <1>2, <2>1, <2>3
<1>5. CASE c.kind = "evidence"
  <2>1. s.left = a.left \ {e.at : e \in c.files}
    BY <1>5, NextSagaIs DEF Handled
  <2>2. c.to # None /\ a.to = c.to /\ \E j \in Places : c.files = {e \in a.staged : e.at = j}
    BY <1>1, <1>5, CallKinds, RaisingAssumption DEF CallsMatch
  <2>3. /\ d = c.to /\ Held(draft[d]) \subseteq Held(Handles(c, d))
        /\ \A e \in c.files : AsEvidence(t, e) \in Held(Handles(c, d))
    BY <1>5, <2>2, HandlesOld DEF Handled
  <2>4. /\ \A f \in a.files : AsDocument(t, f) \in Held(draft[d])
        /\ \A e \in a.staged : e.at \in a.left \/ AsEvidence(t, e) \in Held(draft[d])
    BY <1>1, <1>5, <2>2, <2>3 DEF SavesStore
  <2>5. ASSUME NEW e \in a.staged, e.at \notin s.left
        PROVE  AsEvidence(t, e) \in Held(draft'[d])
    <3>1. CASE e.at \in a.left
      <4>1. e \in c.files
        BY <2>1, <2>2, <2>5, <3>1
      <4> QED
        BY <1>2, <2>3, <4>1
    <3>2. CASE e.at \notin a.left
      BY <1>2, <2>3, <2>4, <3>2
    <3> QED
      BY <3>1, <3>2
  <2> QED
    BY <1>2, <2>3, <2>4, <2>5
<1> QED
  BY <1>3, <1>4, <1>5, CallKinds

----------------------------------------------------------------------------
(* The type invariant is kept. *)

LEMMA FormsTyped ==
  ASSUME NEW d \in Drafts \cup {None}, NEW b \in Body, template \in Templates
  PROVE  /\ BlankWizard(d, b) \in Wizard
         /\ BlankWizard(d, b).editing = d /\ BlankWizard(d, b).shown = template
         /\ BlankWizard(d, b).staged = {}
  BY DEF BlankWizard, Wizard

LEMMA BlankTyped == Blank \in Body
  BY DEF Blank, Body

\* A report.
LEMMA ReportTyped ==
  ASSUME RaisingTypeOK, NEW t \in Running, NEW d \in Drafts, Reports(t, d)
  PROVE  /\ wizard' \in Wizard \cup {None} /\ saga' \in [Attempts -> Saga \cup {None}]
         /\ ended' \in [Attempts -> {"reported", "failed", None}] /\ page' \in Page
<1>1. t \in Attempts /\ saga[t] \in Saga /\ saga[t].body \in Body
  BY DEF Running, RaisingTypeOK, Saga
<1>2. wizard' \in Wizard \cup {None}
  BY <1>1 DEF Reports, WizardAfter, RaisingTypeOK, Wizard
<1>3. \A u \in Attempts : saga'[u] \in Saga \cup {None}
  <2> TAKE u \in Attempts
  <2>1. PICK l \in BOOLEAN : l <=> saga[u].live /\ wizard' # None
    OBVIOUS
  <2>2. saga'[u] = IF u \notin Running \ {t} THEN None ELSE [saga[u] EXCEPT !.live = saga[u].live /\ wizard' # None]
    BY DEF Reports
  <2>3. u \in Running => saga[u] \in Saga
    BY DEF Running, RaisingTypeOK
  <2> QED
    BY <2>2, <2>3 DEF Saga
<1>4. saga' \in [Attempts -> Saga \cup {None}]
  BY <1>3 DEF Reports
<1>5. page' \in Page
  <2>1. PICK s \in Reads :
          page' = [req |-> d, body |-> saga[t].body, status |-> "DRAFT",
                   items |-> IF page = None THEN s ELSE page.items]
    BY DEF Reports
  <2>2. (IF page = None THEN s ELSE page.items) \in Templates
    BY DEF Reads, RaisingTypeOK, Page
  <2> QED
    BY <1>1, <2>1, <2>2 DEF Page
<1> QED
  BY <1>1, <1>2, <1>4, <1>5 DEF Reports, RaisingTypeOK

\* A call the server handles leaves a draft.
LEMMA HandledTyped ==
  ASSUME RaisingTypeOK, Linked, NEW c \in air, NEW d \in Drafts, Handled(c, d)
  PROVE  /\ Handles(c, d) \in Draft /\ draft'[d] = Handles(c, d)
         /\ draft' \in [Drafts -> Draft \cup {None}]
         /\ Made' = Made \cup {d}
<1>1. Handles(c, d) \in Draft
  BY HandlesNew, HandlesOld DEF Handled
<1>2. draft'[d] = Handles(c, d) /\ draft' \in [Drafts -> Draft \cup {None}]
  BY <1>1 DEF Handled, RaisingTypeOK
<1>3. Made' = Made \cup {d}
  BY <1>1, <1>2, NoneIsNothing DEF Handled, RaisingTypeOK, Made
<1> QED
  BY <1>1, <1>2, <1>3

\* How an answer that is heard goes on.
LEMMA AnswersEnd ==
  ASSUME RaisingTypeOK, Linked, CallsMatch, NEW c \in air, NEW d \in Drafts, Answered(c, d)
  PROVE  /\ Handled(c, d) /\ Awaited(c) /\ UNCHANGED <<template, older, edits, opened>>
         /\ \/ /\ NextSaga(c, d).stage = "evidence" /\ NextSaga(c, d).left = {}
               /\ Reports(c.of, d) /\ air' = air \ {c}
            \/ /\ saga' = [saga EXCEPT ![c.of] = NextSaga(c, d)]
               /\ \/ air' = air \ {c} /\ NextSaga(c, d).stage = saga[c.of].stage
                  \/ /\ NextSaga(c, d).stage # saga[c.of].stage
                     /\ air' = (air \ {c}) \cup Uploads(c.of, NextSaga(c, d))
               /\ UNCHANGED <<ended, wizard, page>>
<1>1. Handled(c, d) /\ Awaited(c) /\ UNCHANGED <<template, older, edits, opened>>
  BY DEF Answered, Handled
<1>2. GoesOn(c.of, c, NextSaga(c, d))
  BY DEF Answered, NextSaga
<1>3. NextSaga(c, d).to = d
  BY <1>1, NextSagaIs DEF Handled
<1> QED
  BY <1>1, <1>2, <1>3 DEF GoesOn

LEMMA TypesKept ==
  ASSUME RaisingTypeOK, Linked, Placed, CallsMatch, [RaisingNext]_raisingVars
  PROVE  RaisingTypeOK'
<1> USE DEF RaisingTypeOK
<1>0. CASE UNCHANGED raisingVars
  BY <1>0 DEF raisingVars
<1>1. CASE FormStep
  BY <1>1 DEF FormStep, OnlyWizard
<1>2. CASE Deletes
  <2>1. PICK d \in Made, b \in Draft :
          /\ draft' = [draft EXCEPT ![d] = b]
          /\ UNCHANGED <<template, older, edits, wizard, opened, saga, ended, air, page>>
    BY <1>2 DEF Deletes
  <2> QED
    BY <2>1
<1>3. CASE OpenNew
  BY <1>3, FormsTyped, BlankTyped, RaisingAssumption DEF OpenNew
<1>4. CASE EditRequest
  <2>1. page \in Page /\ page.req \in Drafts /\ page.body \in Body
    BY <1>4 DEF EditRequest, Page
  <2> QED
    BY <1>4, <2>1, FormsTyped, RaisingAssumption DEF EditRequest
<1>5. CASE Discard
  <2>1. \A t \in Running : saga[t] \in Saga /\ [saga[t] EXCEPT !.live = FALSE] \in Saga
    BY DEF Running, Saga
  <2>2. saga' \in [Attempts -> Saga \cup {None}]
    BY <1>5, <2>1 DEF Discard
  <2> QED
    BY <1>5, <2>2 DEF Discard
<1>6. ASSUME NEW t \in Attempts, Submit(t) PROVE RaisingTypeOK'
  <2>1. wizard \in Wizard
    BY <1>6 DEF Submit, MaySubmit
  <2> DEFINE s == [stage |-> "draft", editing |-> wizard.editing, to |-> None, body |-> wizard.body,
                   files |-> wizard.files, staged |-> wizard.staged, left |-> {},
                   live |-> TRUE, home |-> TRUE]
             c == [of |-> t, kind |-> "draft", to |-> wizard.editing, body |-> wizard.body]
  <2>2. s \in Saga
    BY <2>1 DEF Saga, Wizard
  <2>3. c \in Call
    BY <2>1 DEF Call, Wizard
  <2>4. saga' = [saga EXCEPT ![t] = s] /\ air' = air \cup {c}
    BY <1>6 DEF Submit
  <2> HIDE DEF s, c
  <2> QED
    BY <1>6, <2>2, <2>3, <2>4 DEF Submit
<1>7. ASSUME NEW t \in Attempts, Fails(t) PROVE RaisingTypeOK'
  BY <1>7 DEF Fails
<1>8. ASSUME NEW c \in air, NEW d \in Drafts, Answered(c, d) PROVE RaisingTypeOK'
  <2>1. Handled(c, d) /\ Awaited(c) /\ UNCHANGED <<template, older, edits, opened>>
    BY <1>8, AnswersEnd
  <2>2. draft' \in [Drafts -> Draft \cup {None}]
    BY <2>1, HandledTyped
  <2>3. /\ c.of \in Running /\ c.of \in Attempts /\ NextSaga(c, d) \in Saga
        /\ NextSaga(c, d).to = d /\ NextSaga(c, d).stage # "draft"
    BY <2>1, NextSagaIs DEF Handled, Running
  <2>4. Uploads(c.of, NextSaga(c, d)) \subseteq Call
    BY <2>3, UploadsAre
  <2>5. CASE Reports(c.of, d) /\ air' = air \ {c}
    BY <2>1, <2>2, <2>3, <2>5, ReportTyped
  <2>6. CASE saga' = [saga EXCEPT ![c.of] = NextSaga(c, d)] /\ UNCHANGED <<ended, wizard, page>>
    BY <1>8, <2>1, <2>2, <2>3, <2>4, <2>6, AnswersEnd
  <2> QED
    BY <1>8, <2>5, <2>6, AnswersEnd
<1>9. ASSUME NEW c \in air, NEW d \in Drafts, Unheard(c, d) PROVE RaisingTypeOK'
  <2>1. Handled(c, d)
    BY <1>9 DEF Unheard, Handled
  <2> QED
    BY <1>9, <2>1, HandledTyped DEF Unheard
<1>10. ASSUME NEW d \in Drafts, OpenRequest(d) PROVE RaisingTypeOK'
  <2>1. draft[d] \in Draft /\ Reads \subseteq Templates
    BY <1>10 DEF OpenRequest, Reads
  <2> QED
    BY <1>10, <2>1 DEF OpenRequest, Page, Draft
<1>11. CASE ClosePage
  <2>1. \A t \in Running : saga[t] \in Saga /\ [saga[t] EXCEPT !.home = FALSE] \in Saga
    BY DEF Running, Saga
  <2> QED
    BY <1>11, <2>1 DEF ClosePage
<1>12. ASSUME NEW d \in Made, Raises(d)
       PROVE  draft' \in [Drafts -> Draft \cup {None}]
  <2>1. PlacedRow(draft[d])
    BY DEF Placed
  <2>2. draft'[d] \in Draft /\ draft' = [draft EXCEPT ![d] = draft'[d]]
    BY <1>12, <2>1, RaisesKeeps
  <2> QED
    BY <2>2
<1>13. CASE Raise
  <2>1. page \in Page /\ page.req \in Made /\ Raises(page.req)
    BY <1>13 DEF Raise, OffersSubmit, Linked
  <2>2. [page EXCEPT !.status = "RAISED"] \in Page
    BY <2>1 DEF Page
  <2>3. draft' \in [Drafts -> Draft \cup {None}]
    BY <1>12, <2>1
  <2> QED
    BY <1>13, <2>2, <2>3 DEF Raise
<1>14. ASSUME NEW d \in Drafts, RaisedElsewhere(d) PROVE RaisingTypeOK'
  <2>1. d \in Made /\ Raises(d)
    BY <1>14 DEF RaisedElsewhere, Made
  <2> QED
    BY <1>12, <1>14, <2>1 DEF RaisedElsewhere
<1>15. CASE ChecklistChanges
  BY <1>15, RaisingAssumption DEF ChecklistChanges
<1> QED
  BY RaisingSteps, <1>0, <1>1, <1>2, <1>3, <1>4, <1>5, <1>6, <1>7, <1>8, <1>9, <1>10, <1>11,
     <1>13, <1>14, <1>15

----------------------------------------------------------------------------
(* The drafts are kept, and so is what refers to them. *)

LEMMA DraftSteps ==
  ASSUME RaisingTypeOK, Linked, CallsMatch, [RaisingNext]_raisingVars
  PROVE  \/ UNCHANGED draft
         \/ Deletes
         \/ \E c \in air, d \in Drafts : Handled(c, d) /\ UNCHANGED <<template, older, edits>>
         \/ \E d \in Made : Raises(d) /\ UNCHANGED <<template, older, edits>>
<1>1. ASSUME NEW c \in air, NEW d \in Drafts, Answered(c, d) \/ Unheard(c, d)
      PROVE  Handled(c, d) /\ UNCHANGED <<template, older, edits>>
  BY <1>1 DEF Answered, Unheard, Handled
<1>2. ASSUME Raise PROVE \E d \in Made : Raises(d) /\ UNCHANGED <<template, older, edits>>
  BY <1>2 DEF Raise, OffersSubmit, Linked
<1>3. ASSUME NEW d \in Drafts, RaisedElsewhere(d) PROVE d \in Made /\ Raises(d) /\ UNCHANGED <<template, older, edits>>
  BY <1>3 DEF RaisedElsewhere, Made
<1>4. ASSUME \/ UNCHANGED raisingVars \/ FormStep \/ OpenNew \/ EditRequest \/ Discard
             \/ \E t \in Attempts : Submit(t) \/ Fails(t)
             \/ \E d \in Drafts : OpenRequest(d)
             \/ ClosePage \/ ChecklistChanges
      PROVE  UNCHANGED draft
  BY <1>4 DEF raisingVars, FormStep, OnlyWizard, OpenNew, EditRequest, Discard, Submit, Fails,
              OpenRequest, ClosePage, ChecklistChanges
<1> QED
  BY RaisingSteps, <1>1, <1>2, <1>3, <1>4

\* No draft goes away, nor does what it holds.
DraftsStand ==
  /\ Made \subseteq Made'
  /\ \A d \in Made : Held(draft[d]) \subseteq Held(draft'[d])

LEMMA DraftsAlwaysStand ==
  ASSUME RaisingTypeOK, Linked, Placed, CallsMatch, [RaisingNext]_raisingVars
  PROVE  DraftsStand /\ Placed'
<1> USE DEF DraftsStand, Placed
<1>1. CASE UNCHANGED draft
  BY <1>1 DEF Made
\* One draft is replaced by another.
<1>2. ASSUME NEW d \in Made, NEW b \in Draft, draft' = [draft EXCEPT ![d] = b],
             Held(draft[d]) \subseteq Held(b), PlacedRow(b)
      PROVE  DraftsStand /\ Placed'
  <2>1. draft'[d] = b /\ \A q \in Drafts \ {d} : draft'[q] = draft[q]
    BY <1>2 DEF Made, RaisingTypeOK
  <2>2. Made' = Made
    BY <1>2, <2>1, NoneIsNothing DEF Made
  <2>3. \A q \in Made : Held(draft[q]) \subseteq Held(draft'[q]) /\ PlacedRow(draft'[q])
    BY <1>2, <2>1 DEF Made
  <2> QED
    BY <2>2, <2>3
<1>3. CASE Deletes
  <2>1. PICK d \in Made, b \in Draft :
          /\ draft' = [draft EXCEPT ![d] = b]
          /\ b.status = draft[d].status /\ b.checklist = draft[d].checklist
          /\ b.evidence \subseteq draft[d].evidence /\ b.rows \subseteq draft[d].rows
          /\ Held(draft[d]) \subseteq Held(b)
    BY <1>3 DEF Deletes
  <2>2. PlacedRow(draft[d])
    OBVIOUS
  <2>3. PlacedRow(b)
    BY <2>1, <2>2 DEF PlacedRow
  <2> QED
    BY <1>2, <2>1, <2>3
<1>4. ASSUME NEW c \in air, NEW d \in Drafts, Handled(c, d) PROVE DraftsStand /\ Placed'
  <2>1. /\ draft' = [draft EXCEPT ![d] = Handles(c, d)] /\ Handles(c, d) \in Draft
        /\ Accepts(c, d) /\ Made' = Made \cup {d}
        /\ draft'[d] = Handles(c, d) /\ \A q \in Drafts \ {d} : draft'[q] = draft[q]
    BY <1>4, HandledTyped DEF Handled, RaisingTypeOK
  <2>2. CASE c.to # None
    <3>1. d \in Made /\ Held(draft[d]) \subseteq Held(Handles(c, d)) /\ PlacedRow(Handles(c, d))
      BY <2>1, <2>2, HandlesOld
    <3> QED
      BY <1>2, <2>1, <3>1
  <2>3. CASE c.to = None
    <3>1. d \notin Made /\ PlacedRow(Handles(c, d))
      BY <2>1, <2>3, HandlesNew
    <3>2. \A q \in Made : draft'[q] = draft[q]
      BY <2>1, <3>1 DEF Made
    <3> QED
      BY <2>1, <3>1, <3>2
  <2> QED
    BY <2>2, <2>3
<1>5. ASSUME NEW d \in Made, Raises(d) PROVE DraftsStand /\ Placed'
  <2>1. PlacedRow(draft[d])
    OBVIOUS
  <2>2. /\ draft'[d] \in Draft /\ draft' = [draft EXCEPT ![d] = draft'[d]]
        /\ Held(draft[d]) \subseteq Held(draft'[d]) /\ PlacedRow(draft'[d])
    BY <1>5, <2>1, RaisesKeeps
  <2>3. PICK b : b = draft'[d]
    OBVIOUS
  <2> QED
    BY <1>2, <2>2, <2>3
<1> QED
  BY DraftSteps, <1>1, <1>3, <1>4, <1>5

LEMMA LinksKept ==
  ASSUME RaisingTypeOK, Linked, Placed, SavesRun, CallsMatch, [RaisingNext]_raisingVars
  PROVE  Linked'
<1>0. Made \subseteq Made'
  BY DraftsAlwaysStand DEF DraftsStand
<1> USE <1>0, RaisingAssumption, NoneIsNothing DEF Linked
<1>1. CASE UNCHANGED raisingVars
  BY <1>1 DEF raisingVars, Running
<1>2. CASE FormStep
  BY <1>2 DEF FormStep, OnlyWizard, Running
<1>3. CASE Deletes
  BY <1>3 DEF Deletes, Running
<1>4. CASE OpenNew
  BY <1>4, FormsTyped, BlankTyped DEF OpenNew, Running, RaisingTypeOK
<1>5. CASE EditRequest
  <2>1. page.req \in Drafts /\ page.body \in Body /\ page.req \in Made
    BY <1>5 DEF EditRequest, Page, RaisingTypeOK
  <2> QED
    BY <1>5, <2>1, FormsTyped DEF EditRequest, Running, RaisingTypeOK
<1>6. CASE Discard
  <2>1. \A t \in Running' : /\ t \in Running /\ saga'[t].editing = saga[t].editing
                            /\ saga'[t].stage = saga[t].stage /\ saga'[t].to = saga[t].to
    BY <1>6 DEF Discard, Running, RaisingTypeOK, Saga
  <2> QED
    BY <1>6, <2>1 DEF Discard
<1>7. ASSUME NEW t \in Attempts, Submit(t) PROVE Linked'
  <2>1. wizard \in Wizard /\ wizard.editing \in Made \cup {None}
    BY <1>7 DEF Submit, MaySubmit, RaisingTypeOK
  <2>2. /\ saga'[t].editing = wizard.editing /\ saga'[t].stage = "draft"
        /\ \A u \in Attempts \ {t} : saga'[u] = saga[u]
    BY <1>7 DEF Submit, RaisingTypeOK
  <2>3. \A c \in air' : c \in air \/ c.to = wizard.editing
    BY <1>7 DEF Submit
  <2>4. UNCHANGED <<wizard, page>>
    BY <1>7 DEF Submit
  <2> QED
    BY <2>1, <2>2, <2>3, <2>4 DEF Running
<1>8. ASSUME NEW t \in Attempts, Fails(t) PROVE Linked'
  BY <1>8 DEF Fails, Running, RaisingTypeOK
<1>9. ASSUME NEW c \in air, NEW d \in Drafts, Answered(c, d) PROVE Linked'
  <2>1. /\ Handled(c, d) /\ Awaited(c) /\ d \in Made' /\ c.of \in Running /\ c.of \in Attempts
        /\ NextSaga(c, d) \in Saga /\ NextSaga(c, d).editing = saga[c.of].editing
        /\ NextSaga(c, d).to = d /\ NextSaga(c, d).stage # "draft"
    <3>1. Handled(c, d) /\ Awaited(c)
      BY <1>9, AnswersEnd
    <3>2. d \in Made'
      BY <3>1, HandledTyped
    <3> QED
      BY <3>1, <3>2, NextSagaIs DEF Handled, Running, Carries
  <2>2. CASE Reports(c.of, d) /\ air' = air \ {c}
    <3>1. page' # None /\ page'.req = d
      <4>1. page' \in Page
        BY <2>1, <2>2, ReportTyped
      <4> QED
        BY <2>2, <4>1 DEF Reports
    <3>2. wizard' # None => \/ wizard'.editing \in {d, None}
                            \/ wizard # None /\ wizard'.editing = wizard.editing
      BY <2>2 DEF Reports, WizardAfter, RaisingTypeOK, Wizard
    <3>3. \A t \in Running' : /\ t \in Running /\ saga'[t].editing = saga[t].editing
                              /\ saga'[t].stage = saga[t].stage /\ saga'[t].to = saga[t].to
      BY <2>2 DEF Reports, Running, RaisingTypeOK, Saga
    <3> QED
      BY <2>1, <2>2, <3>1, <3>2, <3>3
  <2>3. CASE saga' = [saga EXCEPT ![c.of] = NextSaga(c, d)] /\ UNCHANGED <<ended, wizard, page>>
    <3>1. /\ saga'[c.of] = NextSaga(c, d)
          /\ \A u \in Attempts \ {c.of} : saga'[u] = saga[u]
      BY <2>1, <2>3 DEF RaisingTypeOK
    <3>2. \A x \in air' : x \in air \/ x.to = d
      <4>1. \A x \in Uploads(c.of, NextSaga(c, d)) : x.to = d
        BY <2>1, NextUploads DEF Handled
      <4>2. air' \subseteq air \cup Uploads(c.of, NextSaga(c, d))
        BY <1>9, AnswersEnd
      <4> QED
        BY <4>1, <4>2
    <3> QED
      BY <2>1, <2>3, <3>1, <3>2 DEF Running
  <2> QED
    BY <1>9, <2>2, <2>3, AnswersEnd
<1>10. ASSUME NEW c \in air, NEW d \in Drafts, Unheard(c, d) PROVE Linked'
  BY <1>10 DEF Unheard, Running
<1>11. ASSUME NEW d \in Drafts, OpenRequest(d) PROVE Linked'
  BY <1>11 DEF OpenRequest, Running, Made
<1>12. CASE ClosePage
  <2>1. \A t \in Running' : /\ t \in Running /\ saga'[t].editing = saga[t].editing
                            /\ saga'[t].stage = saga[t].stage /\ saga'[t].to = saga[t].to
    BY <1>12 DEF ClosePage, Running, RaisingTypeOK, Saga
  <2> QED
    BY <1>12, <2>1 DEF ClosePage
<1>13. CASE Raise
  <2>1. page # None /\ page' # None /\ page'.req = page.req /\ UNCHANGED <<wizard, saga, air>>
    <3>1. page # None /\ page \in Page
      BY <1>13 DEF Raise, OffersSubmit, RaisingTypeOK
    <3>2. page' \in Page /\ page'.req = page.req /\ UNCHANGED <<wizard, saga, air>>
      BY <1>13, <3>1 DEF Raise, Page
    <3> QED
      BY <3>1, <3>2
  <2> QED
    BY <2>1 DEF Running
<1>14. ASSUME NEW d \in Drafts, RaisedElsewhere(d) PROVE Linked'
  BY <1>14 DEF RaisedElsewhere, Running
<1>15. CASE ChecklistChanges
  BY <1>15 DEF ChecklistChanges, Running
<1> QED
  BY RaisingSteps, <1>1, <1>2, <1>3, <1>4, <1>5, <1>6, <1>7, <1>8, <1>9, <1>10, <1>11,
     <1>12, <1>13, <1>14, <1>15

----------------------------------------------------------------------------
(* The saves, and the calls they wait for. *)

\* b is the save a where it was, though its wizard or its page may have been closed.
SameSave(a, b) ==
  /\ b.stage = a.stage /\ b.editing = a.editing /\ b.to = a.to
  /\ b.files = a.files /\ b.staged = a.staged /\ b.left = a.left

\* No save begins or goes on, though one may end.
SavesStay ==
  /\ air' \subseteq air
  /\ \A t \in Attempts : ended[t] # None \/ t \in Running => ended'[t] # None \/ t \in Running'
  /\ \A t \in Running' :
       /\ t \in Running /\ SameSave(saga[t], saga'[t]) /\ ended'[t] = ended[t]
       /\ saga'[t].live => /\ saga[t].live /\ wizard # None /\ wizard' # None
                           /\ wizard'.editing = None <=> wizard.editing = None

\* One goes on.
Proceeds(c, d) ==
  /\ Handled(c, d) /\ Awaited(c)
  /\ saga' = [saga EXCEPT ![c.of] = NextSaga(c, d)]
  /\ \/ air' = air \ {c} /\ NextSaga(c, d).stage = saga[c.of].stage
     \/ /\ NextSaga(c, d).stage # saga[c.of].stage
        /\ air' = (air \ {c}) \cup Uploads(c.of, NextSaga(c, d))
  /\ UNCHANGED <<ended, wizard, page, template, older, edits, opened>>

LEMMA SaveSteps ==
  ASSUME RaisingTypeOK, Linked, SavesRun, CallsMatch, [RaisingNext]_raisingVars
  PROVE  \/ SavesStay
         \/ \E t \in Attempts : Submit(t)
         \/ \E c \in air, d \in Drafts : Proceeds(c, d)
<1> USE DEF SavesStay, SameSave, Running
<1>1. ASSUME UNCHANGED <<saga, ended>>, air' \subseteq air,
             wizard # None => wizard' # None /\ (wizard'.editing = None <=> wizard.editing = None)
      PROVE  SavesStay
  BY <1>1 DEF SavesRun
<1>2. ASSUME \/ UNCHANGED raisingVars \/ FormStep \/ Deletes \/ OpenNew \/ EditRequest
             \/ \E c \in air, d \in Drafts : Unheard(c, d)
             \/ \E d \in Drafts : OpenRequest(d)
             \/ Raise
             \/ \E d \in Drafts : RaisedElsewhere(d)
             \/ ChecklistChanges
      PROVE  SavesStay
  <2>1. UNCHANGED <<saga, ended>> /\ air' \subseteq air
    BY <1>2 DEF raisingVars, FormStep, OnlyWizard, Deletes, OpenNew, EditRequest, Unheard, OpenRequest,
                Raise, RaisedElsewhere, ChecklistChanges
  <2>2. wizard # None => wizard' # None /\ (wizard'.editing = None <=> wizard.editing = None)
    BY <1>2, NoneIsNothing
    DEF raisingVars, FormStep, OnlyWizard, Deletes, OpenNew, EditRequest, Unheard, OpenRequest,
        Raise, RaisedElsewhere, ChecklistChanges
  <2> QED
    BY <1>1, <2>1, <2>2
<1>3. ASSUME Discard \/ ClosePage PROVE SavesStay
  <2>1. \A t \in Running : saga[t] \in Saga
    BY DEF RaisingTypeOK
  <2>2. CASE Discard
    BY <2>1, <2>2, NoneIsNothing DEF Discard, Saga
  <2>3. CASE ClosePage
    BY <2>1, <2>3, NoneIsNothing DEF ClosePage, Saga, SavesRun
  <2> QED
    BY <1>3, <2>2, <2>3
<1>4. ASSUME NEW t \in Attempts, Fails(t) PROVE SavesStay
  BY <1>4, RaisingAssumption DEF Fails, RaisingTypeOK, SavesRun
<1>5. ASSUME NEW c \in air, NEW d \in Drafts, Answered(c, d) PROVE SavesStay \/ Proceeds(c, d)
  <2>1. Handled(c, d) /\ Awaited(c) /\ UNCHANGED <<template, older, edits, opened>> /\ c.of \in Attempts
    BY <1>5, AnswersEnd, CallKinds
  <2>2. CASE Reports(c.of, d) /\ air' = air \ {c}
    <3>1. \A t \in Running : saga[t] \in Saga
      BY DEF RaisingTypeOK
    <3>2. \A t \in Running' : /\ t \in Running \ {c.of} /\ SameSave(saga[t], saga'[t])
                              /\ saga'[t].live => saga[t].live /\ wizard' # None
      BY <2>2, <3>1, NoneIsNothing DEF Reports, Saga
    <3>3. wizard # None /\ wizard' # None => (wizard'.editing = None <=> wizard.editing = None)
      BY <2>2, RaisingAssumption DEF Reports, WizardAfter, RaisingTypeOK, Wizard
    <3>4. ended'[c.of] # None /\ \A t \in Attempts \ {c.of} : ended'[t] = ended[t]
      BY <2>1, <2>2, RaisingAssumption DEF Reports, RaisingTypeOK
    <3>5. \A t \in Running \ {c.of} : t \in Running'
      BY <2>2, <3>1, NoneIsNothing DEF Reports, Saga
    <3>6. \A t \in Running' : saga'[t].live => wizard # None
      BY <3>2 DEF SavesRun
    <3> QED
      BY <2>2, <3>2, <3>3, <3>4, <3>5, <3>6
  <2> QED
    BY <1>5, <2>1, <2>2, AnswersEnd DEF Proceeds
<1> QED
  BY RaisingSteps, <1>2, <1>3, <1>4, <1>5

\* What is submitted begins with the draft, and is one save more.
LEMMA SubmitBegins ==
  ASSUME RaisingTypeOK, CallsMatch, NEW t \in Attempts, Submit(t)
  PROVE  /\ wizard \in Wizard /\ ~Busy /\ UNCHANGED <<draft, wizard, ended, template, older, edits, opened, page>>
         /\ t \notin Running /\ ended[t] = None /\ Running' = Running \cup {t}
         /\ \A u \in Running : saga'[u] = saga[u]
         /\ saga'[t].stage = "draft" /\ saga'[t].editing = wizard.editing /\ saga'[t].live
         /\ saga'[t].staged = wizard.staged
         /\ \A c \in air : c.of # t
         /\ \E c : /\ air' = air \cup {c} /\ c \notin air
                   /\ c.of = t /\ c.kind = "draft" /\ c.to = wizard.editing
<1>1. wizard \in Wizard /\ ~Busy /\ ended[t] = None /\ t \notin Running
  BY DEF Submit, MaySubmit, IsNext, RaisingTypeOK
<1> DEFINE s == [stage |-> "draft", editing |-> wizard.editing, to |-> None, body |-> wizard.body,
                 files |-> wizard.files, staged |-> wizard.staged, left |-> {},
                 live |-> TRUE, home |-> TRUE]
           c == [of |-> t, kind |-> "draft", to |-> wizard.editing, body |-> wizard.body]
<1>2. s \in Saga
  BY <1>1 DEF Saga, Wizard
<1>3. /\ s.stage = "draft" /\ s.editing = wizard.editing /\ s.live /\ s.staged = wizard.staged
      /\ c.of = t /\ c.kind = "draft" /\ c.to = wizard.editing
  OBVIOUS
<1>4. saga' = [saga EXCEPT ![t] = s] /\ air' = air \cup {c}
  BY DEF Submit
<1> HIDE DEF s, c
<1>5. saga'[t] = s /\ \A u \in Attempts \ {t} : saga'[u] = saga[u]
  BY <1>4 DEF RaisingTypeOK
<1>6. Running' = Running \cup {t} /\ \A u \in Running : saga'[u] = saga[u]
  BY <1>1, <1>2, <1>5, NoneIsNothing DEF Running
<1>7. \A x \in air : x.of # t
  BY <1>1 DEF CallsMatch
<1>8. c \notin air
  BY <1>3, <1>7
<1> QED
  BY <1>1, <1>3, <1>4, <1>5, <1>6, <1>7, <1>8 DEF Submit

\* When a save goes on, the others stay where they are.
LEMMA ProceedsOn ==
  ASSUME RaisingTypeOK, Linked, CallsMatch, NEW c \in air, NEW d \in Drafts, Proceeds(c, d)
  PROVE  /\ c.of \in Running /\ Running' = Running /\ NextSaga(c, d) \in Saga
         /\ saga'[c.of] = NextSaga(c, d) /\ Carries(saga[c.of], NextSaga(c, d))
         /\ \A u \in Running \ {c.of} : saga'[u] = saga[u]
         /\ \A x \in air' : x \in air \/ (x \in Uploads(c.of, NextSaga(c, d))
                                          /\ NextSaga(c, d).stage # saga[c.of].stage)
<1>1. /\ c.of \in Running /\ c.of \in Attempts /\ NextSaga(c, d) \in Saga
      /\ Carries(saga[c.of], NextSaga(c, d))
  BY NextSagaIs DEF Proceeds, Handled, Running
<1>2. saga'[c.of] = NextSaga(c, d) /\ \A u \in Attempts \ {c.of} : saga'[u] = saga[u]
  BY <1>1 DEF Proceeds, RaisingTypeOK
<1> QED
  BY <1>1, <1>2, NoneIsNothing DEF Proceeds, Running

LEMMA SavesRunKept ==
  ASSUME RaisingTypeOK, Linked, SavesRun, CallsMatch, [RaisingNext]_raisingVars
  PROVE  SavesRun'
<1>1. CASE SavesStay
  BY <1>1 DEF SavesStay, SameSave, SavesRun
<1>2. ASSUME NEW t \in Attempts, Submit(t) PROVE SavesRun'
  <2>1. wizard # None
    BY <1>2 DEF Submit, MaySubmit
  <2> QED
    BY <1>2, <2>1, SubmitBegins DEF SavesRun
<1>3. ASSUME NEW c \in air, NEW d \in Drafts, Proceeds(c, d) PROVE SavesRun'
  <2>1. /\ Running' = Running /\ UNCHANGED <<ended, wizard>>
        /\ \A u \in Running : saga'[u].live = saga[u].live /\ saga'[u].editing = saga[u].editing
    BY <1>3, ProceedsOn DEF Proceeds, Carries
  <2>2. \A u \in Running : saga'[u].live => saga[u].live
    BY <2>1
  <2> QED
    BY <2>1, <2>2 DEF SavesRun
<1> QED
  BY SaveSteps, <1>1, <1>2, <1>3

LEMMA CallsMatchKept ==
  ASSUME RaisingTypeOK, Linked, SavesRun, CallsMatch, [RaisingNext]_raisingVars
  PROVE  CallsMatch'
<1>1. CASE SavesStay
  <2> SUFFICES ASSUME NEW x \in air'
               PROVE  /\ x.of \in Running' \/ ended'[x.of] # None
                      /\ x.of \in Running' /\ x.kind # "draft" =>
                           /\ saga'[x.of].stage # "draft" /\ x.to = saga'[x.of].to
                           /\ x.kind = "documents" => x.files = saga'[x.of].files
                           /\ x.kind = "evidence" =>
                                /\ saga'[x.of].stage = "evidence"
                                /\ \E j \in Places : x.files = {e \in saga'[x.of].staged : e.at = j}
    BY DEF CallsMatch, Places
  <2>1. x \in air /\ x.of \in Attempts
    BY <1>1, CallKinds DEF SavesStay
  <2> QED
    BY <1>1, <2>1 DEF SavesStay, SameSave, CallsMatch
<1>2. ASSUME NEW t \in Attempts, Submit(t) PROVE CallsMatch'
  BY <1>2, SubmitBegins DEF CallsMatch, Places
<1>3. ASSUME NEW c \in air, NEW d \in Drafts, Proceeds(c, d) PROVE CallsMatch'
  <2> DEFINE n == NextSaga(c, d)
  <2>1. /\ c.of \in Running /\ Running' = Running /\ saga'[c.of] = n /\ Carries(saga[c.of], n)
        /\ \A u \in Running \ {c.of} : saga'[u] = saga[u]
        /\ \A x \in air' : x \in air \/ (x \in Uploads(c.of, n) /\ n.stage # saga[c.of].stage)
        /\ UNCHANGED ended
    BY <1>3, ProceedsOn DEF Proceeds
  <2>2. /\ n.stage # "draft" /\ n.to = d
        /\ saga[c.of].stage # "draft" => saga[c.of].to = d
        /\ saga[c.of].stage = "evidence" => n.stage = "evidence"
    BY <1>3, NextSagaIs, CallKinds, RaisingAssumption DEF Proceeds, Handled, Accepts, CallsMatch
  <2>3. \A x \in Uploads(c.of, n) :
          /\ x.of = c.of /\ x.to = d /\ x.kind = n.stage
          /\ x.kind = "documents" => x.files = saga[c.of].files
          /\ x.kind = "evidence" => \E j \in Places : x.files = {e \in saga[c.of].staged : e.at = j}
    BY <1>3, NextUploads DEF Proceeds, Handled
  <2> HIDE DEF n
  <2> SUFFICES ASSUME NEW x \in air'
               PROVE  /\ x.of \in Running' \/ ended'[x.of] # None
                      /\ x.of \in Running' /\ x.kind # "draft" =>
                           /\ saga'[x.of].stage # "draft" /\ x.to = saga'[x.of].to
                           /\ x.kind = "documents" => x.files = saga'[x.of].files
                           /\ x.kind = "evidence" =>
                                /\ saga'[x.of].stage = "evidence"
                                /\ \E j \in Places : x.files = {e \in saga'[x.of].staged : e.at = j}
    BY DEF CallsMatch, Places
  <2>4. CASE x \in air /\ x.of # c.of
    BY <2>1, <2>4 DEF CallsMatch
  <2>5. CASE x \in air /\ x.of = c.of
    BY <2>1, <2>2, <2>5 DEF CallsMatch, Carries
  <2>6. CASE x \in Uploads(c.of, n)
    BY <2>1, <2>2, <2>3, <2>6 DEF Carries
  <2> QED
    BY <2>1, <2>4, <2>5, <2>6
<1> QED
  BY SaveSteps, <1>1, <1>2, <1>3

LEMMA SavesStoreKept ==
  ASSUME RaisingTypeOK, Linked, Placed, SavesRun, CallsMatch, SavesStore, [RaisingNext]_raisingVars
  PROVE  SavesStore'
\* A save that was at its evidence and still is, as it was.
<1>1. ASSUME NEW t \in Running, NEW b, SameSave(saga[t], b), b.stage = "evidence"
      PROVE  /\ \A f \in b.files : AsDocument(t, f) \in Held(draft'[b.to])
             /\ \A e \in b.staged : e.at \in b.left \/ AsEvidence(t, e) \in Held(draft'[b.to])
  <2>1. /\ saga[t].stage = "evidence" /\ b.to = saga[t].to /\ b.files = saga[t].files
        /\ b.staged = saga[t].staged /\ b.left = saga[t].left
    BY <1>1 DEF SameSave
  <2>2. b.to \in Made
    BY <2>1 DEF Linked
  <2>3. Held(draft[b.to]) \subseteq Held(draft'[b.to])
    BY <2>2, DraftsAlwaysStand DEF DraftsStand
  <2>4. /\ \A f \in b.files : AsDocument(t, f) \in Held(draft[b.to])
        /\ \A e \in b.staged : e.at \in b.left \/ AsEvidence(t, e) \in Held(draft[b.to])
    BY <2>1 DEF SavesStore
  <2> QED
    BY <2>3, <2>4
<1> USE DEF AsDocument, AsEvidence, Held
<1>2. CASE SavesStay
  BY <1>1, <1>2 DEF SavesStay, SavesStore
<1>3. ASSUME NEW t \in Attempts, Submit(t) PROVE SavesStore'
  BY <1>1, <1>3, SubmitBegins DEF SavesStore, SameSave
<1>4. ASSUME NEW c \in air, NEW d \in Drafts, Proceeds(c, d) PROVE SavesStore'
  <2> DEFINE n == NextSaga(c, d)
  <2>1. /\ c.of \in Running /\ Running' = Running /\ saga'[c.of] = n
        /\ \A u \in Running \ {c.of} : saga'[u] = saga[u]
        /\ n.files = saga[c.of].files /\ n.staged = saga[c.of].staged
    BY <1>4, ProceedsOn DEF Carries
  <2>2. /\ n.to = d
        /\ n.stage = "evidence" =>
             /\ \A f \in n.files : AsDocument(c.of, f) \in Held(draft'[d])
             /\ \A e \in n.staged : e.at \in n.left \/ AsEvidence(c.of, e) \in Held(draft'[d])
    BY <1>4, <2>1, NextSagaStores, NextSagaIs DEF Proceeds, Handled
  <2> HIDE DEF n
  <2> QED
    BY <1>1, <2>1, <2>2 DEF SavesStore, SameSave
<1> QED
  BY SaveSteps, <1>2, <1>3, <1>4

----------------------------------------------------------------------------
(* One form, one draft. *)

\* Only a failure makes one more of them.
LEMMA FailuresStay ==
  ASSUME RaisingTypeOK, Linked, SavesRun, CallsMatch, [RaisingNext]_raisingVars
  PROVE  Failed' = Failed \/ \E t \in Attempts : Fails(t) /\ t \notin Failed /\ Failed' = Failed \cup {t}
<1>1. UNCHANGED ended => Failed' = Failed
  BY DEF Failed
<1>2. ASSUME NEW t \in Attempts, Fails(t) PROVE t \notin Failed /\ Failed' = Failed \cup {t}
  <2>1. ended[t] = None
    BY <1>2 DEF Fails, SavesRun
  <2> QED
    BY <1>2, <2>1, RaisingAssumption DEF Fails, Failed, RaisingTypeOK
<1>3. ASSUME NEW c \in air, NEW d \in Drafts, Answered(c, d) PROVE Failed' = Failed
  <2>1. CASE Reports(c.of, d)
    <3>1. c.of \in Running
      BY <1>3, AnswersEnd, NextSagaIs DEF Handled
    <3>2. ended[c.of] = None
      BY <3>1 DEF SavesRun
    <3> QED
      BY <2>1, <3>2, RaisingAssumption DEF Reports, RaisingTypeOK, Failed
  <2> QED
    BY <1>1, <1>3, <2>1, AnswersEnd
<1> QED
  BY RaisingSteps, <1>1, <1>2, <1>3
  DEF raisingVars, FormStep, OnlyWizard, Deletes, OpenNew, EditRequest, Discard, Submit, Unheard,
      OpenRequest, ClosePage, Raise, RaisedElsewhere, ChecklistChanges

\* The sum is never more than the wizards opened and the saves that failed.
LEMMA SumKept ==
  ASSUME OneEach, opened \in Nat, opened' \in Nat, Failed' = Failed,
         \/ /\ Made' = Made /\ Creating' = Creating /\ (FormIsBlank' => FormIsBlank) /\ opened' >= opened
         \/ Made' = Made /\ Creating' = Creating /\ opened' = opened + 1
         \/ /\ Made' = Made /\ FormIsBlank /\ ~FormIsBlank' /\ opened' = opened
            /\ \E c : Creating' = Creating \cup {c}
         \/ /\ (FormIsBlank' => FormIsBlank) /\ opened' = opened
            /\ \E d : \E c \in Creating : Made' = Made \cup {d} /\ Creating' = Creating \ {c}
  PROVE  OneEach'
<1> DEFINE m == Cardinality(Made)
           n == Cardinality(Creating)
           o == Cardinality(Failed)
<1>1. /\ IsFiniteSet(Made) /\ IsFiniteSet(Creating) /\ IsFiniteSet(Failed)
      /\ m \in Nat /\ n \in Nat /\ o \in Nat
  BY FS_CardinalityType DEF OneEach
<1>2. BlankForms = (IF FormIsBlank THEN 1 ELSE 0) /\ BlankForms' = (IF FormIsBlank' THEN 1 ELSE 0)
  BY DEF BlankForms
<1>3. m + n + BlankForms <= opened + o
  BY DEF OneEach
<1>4. ASSUME NEW c PROVE /\ IsFiniteSet(Creating \cup {c}) /\ IsFiniteSet(Creating \ {c})
                         /\ Cardinality(Creating \cup {c}) \in {n, n + 1}
                         /\ c \in Creating => Cardinality(Creating \ {c}) = n - 1
  BY <1>1, FS_AddElement, FS_RemoveElement
<1>5. ASSUME NEW d PROVE IsFiniteSet(Made \cup {d}) /\ Cardinality(Made \cup {d}) \in {m, m + 1}
  BY <1>1, FS_AddElement
<1>0. IsFiniteSet(Failed') /\ Cardinality(Failed') = o
  BY <1>1
<1> SUFFICES /\ IsFiniteSet(Made') /\ IsFiniteSet(Creating')
             /\ Cardinality(Made') + Cardinality(Creating') + BlankForms' <= opened' + o
  BY <1>0 DEF OneEach
<1>6. CASE Made' = Made /\ Creating' = Creating /\ (FormIsBlank' => FormIsBlank) /\ opened' >= opened
  BY <1>1, <1>2, <1>3, <1>6
<1>7. CASE Made' = Made /\ Creating' = Creating /\ opened' = opened + 1
  BY <1>1, <1>2, <1>3, <1>7
<1>8. CASE /\ Made' = Made /\ FormIsBlank /\ ~FormIsBlank' /\ opened' = opened
           /\ \E c : Creating' = Creating \cup {c}
  <2>1. PICK c : Creating' = Creating \cup {c}
    BY <1>8
  <2>2. IsFiniteSet(Creating') /\ Cardinality(Creating') \in {n, n + 1}
    BY <1>4, <2>1
  <2> QED
    BY <1>1, <1>2, <1>3, <1>8, <2>2
<1>9. CASE /\ (FormIsBlank' => FormIsBlank) /\ opened' = opened
           /\ \E d : \E c \in Creating : Made' = Made \cup {d} /\ Creating' = Creating \ {c}
  <2>1. PICK d : \E c \in Creating : Made' = Made \cup {d} /\ Creating' = Creating \ {c}
    BY <1>9
  <2>3. PICK c \in Creating : Made' = Made \cup {d} /\ Creating' = Creating \ {c}
    BY <2>1
  <2>2. /\ IsFiniteSet(Creating') /\ Cardinality(Creating') = n - 1
        /\ IsFiniteSet(Made') /\ Cardinality(Made') \in {m, m + 1}
    BY <1>4, <1>5, <2>3
  <2> QED
    BY <1>1, <1>2, <1>3, <1>9, <2>2
<1> QED
  BY <1>6, <1>7, <1>8, <1>9

\* A call that is handled has made its draft, or it was not there to make one.
LEMMA HandledMakes ==
  ASSUME RaisingTypeOK, Linked, NEW c \in air, NEW d \in Drafts, Handled(c, d),
         \A x : x.kind = "draft" => (x \in air' <=> x \in air \ {c})
  PROVE  \/ Made' = Made /\ Creating' = Creating
         \/ c \in Creating /\ Made' = Made \cup {d} /\ Creating' = Creating \ {c}
<1>1. Made' = Made \cup {d}
  BY HandledTyped
<1>2. Creating' = Creating \ {c}
  BY DEF Creating
<1>3. CASE c.to = None
  BY <1>1, <1>2, <1>3, HandlesNew DEF Handled, Creating
<1>4. CASE c.to # None
  BY <1>1, <1>2, <1>4, HandlesOld DEF Handled, Creating
<1> QED
  BY <1>3, <1>4

LEMMA OneEachKept ==
  ASSUME RaisingTypeOK, Linked, Placed, SavesRun, CallsMatch, OneEach,
         [RaisingNext]_raisingVars, RaisingTypeOK'
  PROVE  OneEach'
<1>0. /\ opened \in Nat /\ opened' \in Nat
      /\ Failed' = Failed \/ \E t \in Attempts : Fails(t) /\ t \notin Failed /\ Failed' = Failed \cup {t}
  BY FailuresStay, RaisingAssumption DEF RaisingTypeOK
\* A save fails: its wizard, if that is there, may write a draft again.
<1>16. ASSUME NEW t \in Attempts, Fails(t), t \notin Failed, Failed' = Failed \cup {t}
       PROVE  OneEach'
  <2>1. /\ IsFiniteSet(Made) /\ IsFiniteSet(Creating) /\ IsFiniteSet(Failed)
        /\ Cardinality(Made) \in Nat /\ Cardinality(Creating) \in Nat /\ Cardinality(Failed) \in Nat
        /\ Cardinality(Made) + Cardinality(Creating) + BlankForms <= opened + Cardinality(Failed)
    BY FS_CardinalityType DEF OneEach
  <2>2. Made' = Made /\ Creating' = Creating /\ opened' = opened
    BY <1>16 DEF Fails, Made, Creating
  <2>3. IsFiniteSet(Failed') /\ Cardinality(Failed') = Cardinality(Failed) + 1
    BY <1>16, <2>1, FS_AddElement
  <2>4. BlankForms \in {0, 1} /\ BlankForms' \in {0, 1}
    BY DEF BlankForms
  <2> QED
    BY <1>0, <2>1, <2>2, <2>3, <2>4 DEF OneEach
<1> SUFFICES ASSUME Failed' = Failed PROVE OneEach'
  BY <1>0, <1>16
<1>1. ASSUME Made' = Made, Creating' = Creating, FormIsBlank' => FormIsBlank, opened' >= opened PROVE OneEach'
  BY <1>0, <1>1, SumKept
<1>2. ASSUME UNCHANGED <<draft, air, opened, saga>>, FormIsBlank' => FormIsBlank PROVE OneEach'
  BY <1>0, <1>1, <1>2 DEF Made, Creating
<1>3. CASE \/ UNCHANGED raisingVars \/ FormStep \/ \E d \in Drafts : OpenRequest(d)
           \/ ChecklistChanges
  <2>1. UNCHANGED <<draft, air, opened, saga>>
    BY <1>3 DEF raisingVars, FormStep, OnlyWizard, OpenRequest, ChecklistChanges
  <2>2. wizard' = wizard \/ (wizard # None /\ wizard'.editing = wizard.editing)
    BY <1>3 DEF raisingVars, FormStep, OpenRequest, ChecklistChanges
  <2> QED
    BY <1>2, <2>1, <2>2 DEF FormIsBlank, Busy, Running
<1>4. CASE Deletes
  <2>1. PICK d \in Made, b \in Draft : /\ draft' = [draft EXCEPT ![d] = b]
                                       /\ UNCHANGED <<wizard, opened, saga, air>>
    BY <1>4 DEF Deletes
  <2>2. Made' = Made
    BY <2>1, NoneIsNothing DEF Made, RaisingTypeOK
  <2> QED
    BY <1>0, <1>1, <2>1, <2>2 DEF Creating, FormIsBlank, Busy, Running
<1>5. CASE OpenNew
  BY <1>0, <1>5, SumKept DEF OpenNew, Made, Creating
<1>6. CASE EditRequest
  BY <1>0, <1>6, SumKept DEF EditRequest, Made, Creating
<1>7. CASE Discard
  BY <1>0, <1>1, <1>7 DEF Discard, Made, Creating, FormIsBlank
<1>8. CASE ClosePage
  <2>1. FormIsBlank' => FormIsBlank
    BY <1>8 DEF ClosePage, FormIsBlank
  <2> QED
    BY <1>0, <1>1, <1>8, <2>1 DEF ClosePage, Made, Creating
<1>9. ASSUME NEW t \in Attempts, Submit(t) PROVE OneEach'
  <2>1. /\ wizard # None /\ ~Busy /\ UNCHANGED <<draft, opened, wizard>>
        /\ t \in Running' /\ saga'[t].live
    BY <1>9, SubmitBegins DEF Submit, MaySubmit
  <2>2. PICK c : /\ air' = air \cup {c} /\ c.kind = "draft" /\ c.to = wizard.editing
    BY <1>9, SubmitBegins
  <2>3. Made' = Made /\ ~FormIsBlank'
    BY <2>1 DEF Made, FormIsBlank, Busy
  <2>4. CASE wizard.editing = None
    <3>1. Creating' = Creating \cup {c} /\ FormIsBlank
      BY <2>1, <2>2, <2>4 DEF Creating, FormIsBlank
    <3> QED
      BY <1>0, <2>1, <2>3, <3>1, SumKept
  <2>5. CASE wizard.editing # None
    <3>1. Creating' = Creating
      BY <2>2, <2>5 DEF Creating
    <3> QED
      BY <1>0, <1>1, <2>1, <2>3, <3>1
  <2> QED
    BY <2>4, <2>5
<1>10. ASSUME NEW t \in Attempts, Fails(t) PROVE OneEach'
  <2>1. ended[t] = None /\ ended'[t] = "failed"
    BY <1>10 DEF Fails, SavesRun, RaisingTypeOK
  <2> QED
    BY <2>1, RaisingAssumption DEF Failed
<1>11. ASSUME NEW c \in air, NEW d \in Drafts, Answered(c, d) PROVE OneEach'
  <2>1. Handled(c, d) /\ Awaited(c) /\ opened' = opened
    BY <1>11, AnswersEnd
  <2>2. c.of \in Running
    BY <2>1, NextSagaIs DEF Handled
  <2>3. FormIsBlank' => FormIsBlank
    <3>1. CASE Reports(c.of, d)
      <4> SUFFICES ASSUME FormIsBlank' PROVE FormIsBlank
        OBVIOUS
      <4>1. /\ wizard # None /\ wizard.editing = None /\ wizard' # None
            /\ saga[c.of].editing # None
        BY <3>1, RaisingAssumption DEF Reports, WizardAfter, RaisingTypeOK, Wizard, FormIsBlank
      <4>2. ASSUME NEW u \in Running, saga[u].live PROVE FALSE
        <5>1. u # c.of /\ u \in Attempts /\ saga[u] \in Saga
          BY <4>1, <4>2 DEF SavesRun, Running, RaisingTypeOK
        <5>2. saga'[u] = [saga[u] EXCEPT !.live = saga[u].live /\ wizard' # None]
          BY <3>1, <5>1 DEF Reports, Running
        <5>3. saga'[u] \in Saga /\ saga'[u].live
          BY <4>1, <4>2, <5>1, <5>2 DEF Saga
        <5>4. u \in Running'
          BY <5>1, <5>3, NoneIsNothing DEF Running
        <5> QED
          BY <5>3, <5>4 DEF FormIsBlank, Busy
      <4> QED
        BY <4>1, <4>2 DEF FormIsBlank, Busy
    <3>2. CASE Proceeds(c, d)
      <4>1. Running' = Running /\ \A u \in Running : saga'[u].live = saga[u].live
        BY <3>2, ProceedsOn DEF Carries
      <4>2. wizard' = wizard
        BY <3>2 DEF Proceeds
      <4> QED
        BY <4>1, <4>2 DEF FormIsBlank, Busy
    <3> QED
      BY <1>11, <2>1, <3>1, <3>2, AnswersEnd DEF Proceeds
  <2>4. \A x : x.kind = "draft" => (x \in air' <=> x \in air \ {c})
    <3>1. \A x \in Uploads(c.of, NextSaga(c, d)) : x.kind # "draft"
      BY <2>1, NextUploads, NextSagaIs DEF Handled
    <3> QED
      BY <1>11, <3>1, AnswersEnd
  <2>5. \/ Made' = Made /\ Creating' = Creating
        \/ c \in Creating /\ Made' = Made \cup {d} /\ Creating' = Creating \ {c}
    BY <2>1, <2>4, HandledMakes
  <2> QED
    BY <1>0, <1>1, <2>1, <2>3, <2>5, SumKept
<1>12. ASSUME NEW c \in air, NEW d \in Drafts, Unheard(c, d) PROVE OneEach'
  <2>1. Handled(c, d) /\ air' = air \ {c} /\ UNCHANGED <<wizard, saga, opened>>
    BY <1>12 DEF Unheard, Handled
  <2>2. \/ Made' = Made /\ Creating' = Creating
        \/ c \in Creating /\ Made' = Made \cup {d} /\ Creating' = Creating \ {c}
    BY <2>1, HandledMakes
  <2>3. FormIsBlank' => FormIsBlank
    BY <2>1 DEF FormIsBlank, Busy, Running
  <2> QED
    BY <1>0, <1>1, <2>1, <2>2, <2>3, SumKept
<1>13. ASSUME Raise \/ \E d \in Drafts : RaisedElsewhere(d) PROVE OneEach'
  <2>1. PICK d \in Made : Raises(d)
    BY <1>13 DEF Raise, OffersSubmit, Linked, RaisedElsewhere, Made
  <2>2. d \in Drafts /\ draft' = [draft EXCEPT ![d] = draft'[d]] /\ draft'[d] \in Draft
    BY <2>1, RaisesKeeps DEF Made, Placed
  <2>3. Made' = Made
    BY <2>2, NoneIsNothing DEF Made, RaisingTypeOK
  <2>4. UNCHANGED <<wizard, saga, opened, air>>
    BY <1>13 DEF Raise, RaisedElsewhere
  <2> QED
    BY <1>0, <1>1, <2>3, <2>4 DEF Creating, FormIsBlank, Busy, Running
<1> QED
  BY RaisingSteps, <1>3, <1>4, <1>5, <1>6, <1>7, <1>8, <1>9, <1>10, <1>11, <1>12, <1>13

----------------------------------------------------------------------------
(* The theorems. *)

LEMMA RStep == RInv /\ [RaisingNext]_raisingVars => RInv'
<1> SUFFICES ASSUME RInv, [RaisingNext]_raisingVars PROVE RInv'
  OBVIOUS
<1> USE DEF RInv
<1>1. RaisingTypeOK'
  BY TypesKept
<1>2. Linked' /\ Placed'
  BY LinksKept, DraftsAlwaysStand
<1>3. SavesRun' /\ CallsMatch' /\ SavesStore'
  BY SavesRunKept, CallsMatchKept, SavesStoreKept
<1>4. OneEach'
  BY <1>1, OneEachKept
<1> QED
  BY <1>1, <1>2, <1>3, <1>4

LEMMA RAlways == RaisingSpec => []RInv
  BY RInit, RStep, PTL DEF RaisingSpec

\* Whatever is typed, discarded, refused or lost, the wizard is sound: a form without
\* an error on any of its steps can be saved (NewRequestModal.tsx, submit), and every
\* draft on the server has a wizard of its own, or the failure of a save that its wizard
\* made good with another draft (NewRequestModal.tsx, upsert).
THEOREM WizardAlwaysSound == RaisingSpec => []WizardIsSound
<1>1. RInv => NobodyIsStuck
  <2> SUFFICES ASSUME wizard # None, \A k \in Steps : ~StepError(wizard, k),
                      NEW k \in Ruled, StepError(wizard, k)
               PROVE  FALSE
    BY DEF NobodyIsStuck, BrokenRules
  <2>1. k \in Steps
    BY DEF Steps, BuildSteps, Ruled, StepError, SastStepError, DastStepError
  <2> QED
    BY <2>1
<1>2. RInv => OneDraftEach
  <2> SUFFICES ASSUME RInv PROVE Cardinality(Made) <= opened + Cardinality(Failed)
    BY DEF OneDraftEach, Made, Failed
  <2>1. /\ Cardinality(Made) \in Nat /\ Cardinality(Creating) \in Nat /\ opened \in Nat
        /\ Cardinality(Failed) \in Nat
        /\ Cardinality(Made) + Cardinality(Creating) + BlankForms <= opened + Cardinality(Failed)
    BY FS_CardinalityType, RaisingAssumption DEF RInv, OneEach, RaisingTypeOK
  <2>2. BlankForms \in {0, 1}
    BY DEF BlankForms
  <2> QED
    BY <2>1, <2>2
<1>3. RInv => WizardIsSound
  BY <1>1, <1>2 DEF RInv, WizardIsSound
<1> QED
  BY <1>3, RAlways, PTL

\* Whatever becomes of the checklist, and however late a call is handled, evidence that
\* has a place in the checklist of a raised request is there, under one item, which is its
\* own if that has kept its place (qa_requests.py, _promote_draft_checklist_evidence).
THEOREM EvidenceAlwaysInPlace == RaisingSpec => []EvidenceIsInPlace
<1>1. ASSUME RInv, NEW d \in Drafts, draft[d] # None
      PROVE  /\ draft[d] \in Draft
             /\ draft[d].checklist = None => draft[d].rows = {}
             /\ draft[d].checklist # None =>
                  /\ \A e \in draft[d].evidence : e.at \notin DOMAIN draft[d].checklist
                  /\ \A r \in draft[d].rows : r[1] = draft[d].checklist[r[2].at]
  BY <1>1 DEF RInv, RaisingTypeOK, Placed, PlacedRow, Made
<1>2. RInv => NothingIsLeftBehind
  BY <1>1 DEF NothingIsLeftBehind
<1>3. ASSUME RInv, NEW d \in Drafts, draft[d] # None, NEW r \in draft[d].rows
      PROVE  /\ draft[d].checklist[r[2].at] = r[2].item => r[1] = r[2].item
             /\ \A q \in draft[d].rows : q[2] = r[2] => q = r
  <2>1. draft[d].rows \subseteq Items \X Stored /\ draft[d].checklist # None
    BY <1>1, <1>3 DEF Draft
  <2>2. \A q \in draft[d].rows : q[1] = draft[d].checklist[q[2].at] /\ q = <<q[1], q[2]>>
    BY <1>1, <1>3, <2>1
  <2> QED
    BY <2>2
<1>4. RInv => EvidenceIsInPlace
  BY <1>2, <1>3 DEF EvidenceIsInPlace, EvidenceKeepsItsItem
<1> QED
  BY <1>4, RAlways, PTL

\* When the wizard says "Saved as Draft", this very save has had the server store the
\* documents and the evidence its form held at the click, through every lost, late or
\* repeated call; and what the server has stored stays, unless it is deleted by hand.
THEOREM SavedIsAlwaysStored == RaisingSpec => SavedMeansStored
<1> DEFINE Told(t) ==
      /\ \A f \in saga[t].files : AsDocument(t, f) \in Held(draft'[page'.req])
      /\ \A e \in saga[t].staged : AsEvidence(t, e) \in Held(draft'[page'.req])
<1>1. ASSUME RInv, [RaisingNext]_raisingVars,
             NEW t \in Attempts, ended[t] # "reported", ended'[t] = "reported"
      PROVE  Told(t)
  <2>1. ended' # ended
    BY <1>1
  <2>2. ASSUME NEW u \in Attempts, Fails(u) PROVE FALSE
    BY <1>1, <2>2 DEF Fails, RInv, RaisingTypeOK
  <2>3. PICK c \in air, d \in Drafts : Answered(c, d)
    BY <1>1, <2>1, <2>2, RaisingSteps
    DEF RInv, raisingVars, FormStep, OnlyWizard, Deletes, OpenNew, EditRequest, Discard, Submit, Unheard,
        OpenRequest, ClosePage, Raise, RaisedElsewhere, ChecklistChanges
  <2>4. /\ Handled(c, d) /\ Awaited(c) /\ Reports(c.of, d)
        /\ NextSaga(c, d).stage = "evidence" /\ NextSaga(c, d).left = {}
    BY <1>1, <2>1, <2>3, AnswersEnd DEF RInv
  <2>5. t = c.of
    BY <1>1, <2>4 DEF Reports, RInv, RaisingTypeOK
  <2>6. page'.req = d
    BY <2>4 DEF Reports
  <2>7. /\ \A f \in saga[t].files : AsDocument(t, f) \in Held(draft'[d])
        /\ \A e \in saga[t].staged : AsEvidence(t, e) \in Held(draft'[d])
    BY <1>1, <2>4, <2>5, NextSagaStores DEF RInv
  <2> QED
    BY <2>6, <2>7
<1>2. ASSUME RInv, [RaisingNext]_raisingVars, NEW d \in Drafts, draft[d] # None
      PROVE  draft'[d] # None /\ Held(draft[d]) \subseteq Held(draft'[d])
  <2>1. DraftsStand
    BY <1>2, DraftsAlwaysStand DEF RInv
  <2> QED
    BY <1>2, <2>1 DEF DraftsStand, Made
<1> DEFINE Stays(d) == draft'[d] # None /\ Held(draft[d]) \subseteq Held(draft'[d])
<1>3. RInv /\ [RaisingNext]_raisingVars =>
        [/\ \A t \in Attempts : ended[t] # "reported" /\ ended'[t] = "reported" => Told(t)
         /\ \A d \in Drafts : draft[d] # None => Stays(d)]_raisingVars
  BY <1>1, <1>2
<1> QED
  BY <1>3, RAlways, PTL DEF RaisingSpec, SavedMeansStored

=============================================================================
