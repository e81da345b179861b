---------------------------- MODULE Client_proofs ----------------------------
(* Theorems about Client, for every number of people, paths, calls and saves.   *)
EXTENDS Client, FiniteSetTheorems, TLAPS

\* What a read of path p may answer.
AnswerOf(p) == IF p = Me THEN Users ELSE Versions

\* The purposes with which a read of /me is a step of the session.
SessionPurposes == {"loadMe", "login", "refreshUser"}

\* A call is what its kind promises. The last part is the heart of the cache: while a read
\* is current and began in quiet, no save is under way, so what it is answered is no
\* older than what this tab has saved.
Sound(r) ==
  /\ r.for \cap SessionPurposes # {} => r.kind = "get" /\ r.key[2] = Me
  /\ r.kind = "login" /\ r.at # "failed" => r.value \in Users
  /\ r.kind = "get" /\ r.at = "answered" => r.value \in AnswerOf(r.key[2])
  /\ r.kind = "save" /\ r.at = "answered" /\ r.key[2] \in Paths =>
       r.value \in Versions /\ r.value <= db[r.key[2]]
  /\ r.kind = "get" /\ r.current /\ ~r.amid =>
       /\ Saving = {}
       /\ r.at = "answered" /\ r.key[2] \in Paths => r.value >= saved[r.key[2]]

CallsSound == \A c \in Live : Sound(calls[c])

\* The same of what the cache has kept.
CacheSound ==
  \A k \in Keys : completed[k] # None =>
    /\ completed[k].value \in AnswerOf(k[2])
    /\ ~completed[k].amid =>
         /\ Saving = {}
         /\ k[2] \in Paths => completed[k].value >= saved[k[2]]

SavedIsCommitted == \A p \in Paths : saved[p] <= db[p]

\* The inductive invariant: what the cache answers is sound only because every read that
\* could still be cached was sound while it was on its way.
CInv == CTypeOK /\ SharedIsUnderWay /\ CallsSound /\ CacheSound /\ SavedIsCommitted

----------------------------------------------------------------------------
(* The helpers of api.ts. *)

LEMMA KeyFacts ==
  /\ \A k \in Keys : k[1] \in Users \cup {None} /\ k[2] \in AllPaths /\ k = <<k[1], k[2]>>
  /\ \A t \in Users \cup {None}, p \in AllPaths :
       <<t, p>> \in Keys /\ <<t, p>>[1] = t /\ <<t, p>>[2] = p
  BY DEF Keys

\* A new call is a call, and has the fields it was given.
LEMMA RequestFacts ==
  ASSUME NEW kind \in {"get", "save", "login"}, NEW p \in AllPaths, NEW why \in Purposes,
         NEW t \in Users \cup {None}, NEW other, NEW r, r = Request(kind, p, why, t, other)
  PROVE  /\ r \in CallRecord /\ r # None
         /\ r.kind = kind /\ r.key = <<t, p>> /\ r.as = t /\ r.for = {why} /\ r.at = "sent"
         /\ r.value = None /\ r.current /\ (r.amid <=> other # {})
  <1>1. r \in CallRecord
    BY KeyFacts DEF Request, CallRecord, Values
  <1> QED BY <1>1, NoneIsNoRecord DEF Request

\* Outdated only takes away that a call is current.
LEMMA OutdatedFacts ==
  ASSUME NEW cs \in [Calls -> CallRecord \cup {None}]
  PROVE  /\ Outdated(cs) \in [Calls -> CallRecord \cup {None}]
         /\ \A c \in Calls :
              /\ Outdated(cs)[c] = None <=> cs[c] = None
              /\ cs[c] # None =>
                   LET r == cs[c]  s == Outdated(cs)[c] IN
                   /\ s.kind = r.kind /\ s.key = r.key /\ s.for = r.for /\ s.at = r.at
                   /\ s.value = r.value /\ s.amid = r.amid /\ s.current = FALSE /\ s.as = r.as
  <1>1. ASSUME NEW c \in Calls, cs[c] # None
        PROVE  [cs[c] EXCEPT !.current = FALSE] \in CallRecord
    <2>1. cs[c] \in CallRecord BY <1>1
    <2> QED BY <2>1 DEF CallRecord
  <1>2. \A c \in Calls :
          Outdated(cs)[c] = IF cs[c] = None THEN None ELSE [cs[c] EXCEPT !.current = FALSE]
    BY DEF Outdated
  <1>3. Outdated(cs) \in [Calls -> CallRecord \cup {None}]
    BY <1>1, <1>2 DEF Outdated
  <1>4. ASSUME NEW c \in Calls, cs[c] # None
        PROVE  LET r == cs[c]  s == Outdated(cs)[c] IN
               /\ s # None /\ s.kind = r.kind /\ s.key = r.key /\ s.for = r.for /\ s.at = r.at
               /\ s.value = r.value /\ s.amid = r.amid /\ s.current = FALSE /\ s.as = r.as
    <2>1. cs[c] \in CallRecord BY <1>4
    <2>2. Outdated(cs)[c] = [cs[c] EXCEPT !.current = FALSE] BY <1>2, <1>4
    <2>3. Outdated(cs)[c] # None BY <1>1, <1>4, <2>2, NoneIsNoRecord
    <2> QED BY <2>1, <2>2, <2>3 DEF CallRecord
  <1> QED BY <1>2, <1>3, <1>4

\* The counter follows the calls: one more, one less, or the same.
LEMMA CountMore ==
  ASSUME ClientAssumption, NEW c \in Calls \ Live, pending = Cardinality(Live),
         pending' = pending + 1, Live' = Live \cup {c}
  PROVE  pending' = Cardinality(Live')
  <1>1. IsFiniteSet(Live) BY FS_Subset DEF ClientAssumption, Live
  <1> QED BY <1>1, FS_AddElement

LEMMA CountLess ==
  ASSUME ClientAssumption, NEW c \in Live, pending = Cardinality(Live),
         pending' = pending - 1, Live' = Live \ {c}
  PROVE  pending' = Cardinality(Live')
  <1>1. IsFiniteSet(Live) BY FS_Subset DEF ClientAssumption, Live
  <1> QED BY <1>1, FS_RemoveElement

----------------------------------------------------------------------------
(* Steps of the call table. *)

\* Saves of the server go up, and while no save of this tab is under way none begins and
\* nothing is told to be saved.
Quiet ==
  /\ db' \in [Paths -> Versions] /\ \A p \in Paths : db'[p] >= db[p]
  /\ \A d \in Calls : calls'[d] # None /\ calls'[d].kind = "save" => d \in Saving
  /\ Saving = {} => saved' = saved

\* What was sound stays sound in a quiet step.
LEMMA QuietKeeps ==
  ASSUME ClientAssumption, CInv, Quiet, NEW CONSTANT r, r \in CallRecord, Sound(r)
  PROVE  Sound(r)'
  <1>1. Saving = {} => Saving' = {} BY DEF Quiet, Saving, Live
  <1>2. ASSUME r.kind = "save", r.at = "answered", r.key[2] \in Paths
        PROVE  r.value \in Versions /\ r.value <= db'[r.key[2]]
    <2>1. r.value \in Versions /\ r.value <= db[r.key[2]] BY <1>2 DEF Sound
    <2>2. db[r.key[2]] \in Versions /\ db'[r.key[2]] \in Versions BY <1>2 DEF Quiet, CInv, CTypeOK
    <2>3. db'[r.key[2]] >= db[r.key[2]] BY <1>2 DEF Quiet
    <2> QED BY <2>1, <2>2, <2>3 DEF Versions, ClientAssumption
  <1>3. ASSUME r.kind = "get", r.current, ~r.amid
        PROVE  Saving' = {} /\ saved' = saved
    BY <1>1, <1>3 DEF Sound, Quiet
  <1> QED BY <1>2, <1>3 DEF Sound, AnswerOf, Versions

LEMMA QuietCache ==
  ASSUME CInv, Quiet, completed' = completed
  PROVE  CacheSound'
  <1>1. Saving = {} => Saving' = {} BY DEF Quiet, Saving, Live
  <1> QED BY <1>1 DEF CInv, CacheSound, Quiet, AnswerOf, Versions

\* A quiet step that changes one call, and may settle others, keeps the rest sound.
LEMMA OneCallStep ==
  ASSUME ClientAssumption, CInv, Quiet, calls' \in [Calls -> CallRecord \cup {None}],
         NEW CONSTANT c \in Calls,
         \A d \in Calls \ {c} : calls'[d] = calls[d] \/ calls'[d] = None,
         calls'[c] # None => Sound(calls[c])'
  PROVE  CallsSound'
  <1>1. ASSUME NEW CONSTANT d \in Calls \ {c}, calls'[d] # None PROVE Sound(calls[d])'
    <2>1. PICK r : r = calls[d] OBVIOUS
    <2>2. r \in CallRecord /\ calls'[d] = r BY <1>1, <2>1
    <2>3. Sound(r) BY <1>1, <2>1, <2>2 DEF CInv, CallsSound, Live
    <2>4. Sound(r)' BY <2>2, <2>3, QuietKeeps
    <2> QED BY <2>2, <2>4 DEF Sound
  <1> QED BY <1>1 DEF CallsSound, Live

\* An outdated call is sound, whatever has been sent or saved since.
LEMMA OutdatedSound ==
  ASSUME CInv, UNCHANGED db, NEW CONSTANT c \in Calls, calls[c] # None,
         NEW CONSTANT s, s = Outdated(calls)[c]
  PROVE  Sound(s)'
  <1>1. Sound(calls[c]) BY DEF CInv, CallsSound, Live
  <1>2. calls \in [Calls -> CallRecord \cup {None}] BY DEF CInv, CTypeOK
  <1>3. LET r == calls[c] IN
        /\ s.kind = r.kind /\ s.key = r.key /\ s.for = r.for /\ s.at = r.at
        /\ s.value = r.value /\ s.current = FALSE
    BY <1>2, OutdatedFacts
  <1> QED BY <1>1, <1>3 DEF Sound, AnswerOf, Versions

\* Emptying the cache and outdating the calls, one of which may be replaced.
LEMMA OutdateStep ==
  ASSUME ClientAssumption, CInv, UNCHANGED db, completed' = NothingRead, NEW CONSTANT c \in Calls,
         calls' \in [Calls -> CallRecord \cup {None}],
         \A d \in Calls \ {c} : calls'[d] = Outdated(calls)[d],
         calls'[c] # None /\ calls'[c] # Outdated(calls)[c] => Sound(calls[c])'
  PROVE  CallsSound' /\ CacheSound' /\ completed' \in [Keys -> ReadValues \cup {None}]
  <1>1. ASSUME NEW CONSTANT d \in Calls, calls'[d] # None, calls'[d] = Outdated(calls)[d]
        PROVE  Sound(calls[d])'
    <2>1. PICK r : r = Outdated(calls)[d] OBVIOUS
    <2>2. calls[d] # None BY <1>1, OutdatedFacts DEF CInv, CTypeOK
    <2>3. Sound(r)' BY <2>1, <2>2, OutdatedSound
    <2> QED BY <1>1, <2>1, <2>3 DEF Sound
  <1>2. CallsSound' BY <1>1 DEF CallsSound, Live
  <1>3. \A k \in Keys : completed'[k] = None BY DEF NothingRead
  <1> QED BY <1>2, <1>3 DEF CacheSound, NothingRead

----------------------------------------------------------------------------
(* What the tab does. *)

\* A save is sent: the caches are emptied, and the reads on their way outdated.
LEMMA SendStep ==
  ASSUME ClientAssumption, CInv, NEW c \in Calls, NEW p \in AllPaths,
         NEW why \in {"page", "department"}, Send(c, "save", p, why),
         UNCHANGED <<db, valid, token, user, loading, saved>>
  PROVE  CInv'
  <1> DEFINE r == NewCall("save", p, why)
  <1>0. token \in Users \cup {None} /\ calls \in [Calls -> CallRecord \cup {None}]
    BY DEF CInv, CTypeOK
  <1>1. /\ r \in CallRecord /\ r # None /\ r.kind = "save" /\ r.for = {why} /\ r.at = "sent"
    <2>1. why \in Purposes BY DEF Purposes
    <2>2. r = Request("save", p, why, token, Saving) BY DEF NewCall
    <2> HIDE DEF r
    <2> QED BY <1>0, <2>1, <2>2, RequestFacts
  <1> HIDE DEF r
  <1>2. calls' = [Outdated(calls) EXCEPT ![c] = r] BY DEF Send, r
  <1>3. /\ calls' \in [Calls -> CallRecord \cup {None}] /\ calls'[c] = r
        /\ \A d \in Calls \ {c} : calls'[d] = Outdated(calls)[d]
    BY <1>0, <1>1, <1>2, OutdatedFacts
  <1>4. Sound(calls[c])' BY <1>1, <1>3 DEF Sound, SessionPurposes
  <1>5. CallsSound' /\ CacheSound' /\ completed' \in [Keys -> ReadValues \cup {None}]
    BY <1>3, <1>4, OutdateStep DEF Send
  <1>6. pending' = Cardinality(Live')
    <2>1. \A d \in Calls : calls'[d] # None <=> d = c \/ calls[d] # None
      <3>1. \A d \in Calls : Outdated(calls)[d] = None <=> calls[d] = None
        BY <1>0, OutdatedFacts
      <3> QED BY <1>1, <1>3, <3>1
    <2>2. Live' = Live \cup {c} /\ c \notin Live BY <2>1 DEF Live, Send
    <2> QED BY <2>2, CountMore DEF Send, CInv, CTypeOK
  <1>7. CTypeOK' BY <1>3, <1>5, <1>6 DEF CInv, CTypeOK, Send, NothingRead
  <1>8. SharedIsUnderWay' BY DEF Send, SharedIsUnderWay, NothingRead
  <1> QED BY <1>5, <1>7, <1>8 DEF CInv, SavedIsCommitted

\* Somebody signs in: the caches are emptied as by a save.
LEMMA LoginStep ==
  ASSUME ClientAssumption, CInv, NEW c \in Calls, NEW u \in Users, Login(c, u)
  PROVE  CInv'
  <1> DEFINE q == NewCall("login", Me, "page")
             r == [q EXCEPT !.value = u]
  <1>0. token \in Users \cup {None} /\ calls \in [Calls -> CallRecord \cup {None}]
    BY DEF CInv, CTypeOK
  <1>1. q \in CallRecord /\ q.kind = "login" /\ q.for = {"page"}
    <2>1. "page" \in Purposes /\ Me \in AllPaths BY DEF Purposes, AllPaths
    <2>2. q = Request("login", Me, "page", token, Saving) BY DEF NewCall
    <2> HIDE DEF q
    <2> QED BY <1>0, <2>1, <2>2, RequestFacts
  <1>2. calls' = [Outdated(calls) EXCEPT ![c] = r] BY DEF Login
  <1> HIDE DEF q
  <1>3. r \in CallRecord /\ r # None /\ r.kind = "login" /\ r.for = {"page"} /\ r.value = u
    <2>1. r \in CallRecord BY <1>1 DEF CallRecord, Values
    <2> QED BY <1>1, <2>1, NoneIsNoRecord DEF CallRecord
  <1> HIDE DEF r
  <1>4. /\ calls' \in [Calls -> CallRecord \cup {None}] /\ calls'[c] = r
        /\ \A d \in Calls \ {c} : calls'[d] = Outdated(calls)[d]
    BY <1>0, <1>2, <1>3, OutdatedFacts
  <1>5. Sound(calls[c])' BY <1>3, <1>4 DEF Sound, SessionPurposes
  <1>6. CallsSound' /\ CacheSound' /\ completed' \in [Keys -> ReadValues \cup {None}]
    BY <1>4, <1>5, OutdateStep DEF Login
  <1>7. pending' = Cardinality(Live')
    <2>1. \A d \in Calls : calls'[d] # None <=> d = c \/ calls[d] # None
      <3>1. \A d \in Calls : Outdated(calls)[d] = None <=> calls[d] = None
        BY <1>0, OutdatedFacts
      <3> QED BY <1>3, <1>4, <3>1
    <2>2. Live' = Live \cup {c} /\ c \notin Live BY <2>1 DEF Live, Login
    <2> QED BY <2>2, CountMore DEF Login, CInv, CTypeOK
  <1>8. CTypeOK' BY <1>4, <1>6, <1>7 DEF CInv, CTypeOK, Login, NothingRead
  <1>9. SharedIsUnderWay' BY DEF Login, SharedIsUnderWay, NothingRead
  <1> QED BY <1>6, <1>8, <1>9 DEF CInv, SavedIsCommitted, Login

\* Signing out forgets what was read and what is shared.
LEMMA LogoutStep == ASSUME ClientAssumption, CInv, Logout PROVE CInv'
  <1>0. calls \in [Calls -> CallRecord \cup {None}] BY DEF CInv, CTypeOK
  <1>1. calls' = Outdated(calls) /\ completed' = NothingRead /\ UNCHANGED db
    BY DEF Logout, SetToken
  <1>2. CallsSound' /\ CacheSound' /\ completed' \in [Keys -> ReadValues \cup {None}]
    <2>1. ASSUME NEW c \in Calls
          PROVE  CallsSound' /\ CacheSound' /\ completed' \in [Keys -> ReadValues \cup {None}]
      BY <1>0, <1>1, OutdateStep, OutdatedFacts
    <2>2. CASE Calls = {}
      BY <1>1, <2>2 DEF CallsSound, Live, CacheSound, NothingRead
    <2> QED BY <2>1, <2>2
  <1>3. Live' = Live BY <1>0, <1>1, OutdatedFacts DEF Live
  <1>4. CTypeOK'
    BY <1>0, <1>1, <1>2, <1>3, OutdatedFacts DEF CInv, CTypeOK, Logout, SetToken, NothingRead
  <1>5. SharedIsUnderWay' BY DEF Logout, SharedIsUnderWay, NothingRead
  <1> QED BY <1>2, <1>4, <1>5 DEF CInv, SavedIsCommitted, Logout

\* A read that gets one more reader is the same read.
LEMMA AttachedFacts ==
  ASSUME NEW cs \in [Calls -> CallRecord \cup {None}], NEW k \in Keys, NEW why \in Purposes,
         shared[k] \in Calls, cs[shared[k]] # None,
         NEW t, t = Attached(cs, k, why)
  PROVE  /\ t \in [Calls -> CallRecord \cup {None}]
         /\ \A d \in Calls \ {shared[k]} : t[d] = cs[d]
         /\ LET r == cs[shared[k]]  s == t[shared[k]] IN
            /\ s # None /\ s.kind = r.kind /\ s.key = r.key /\ s.for = r.for \cup {why}
            /\ s.at = r.at /\ s.value = r.value /\ s.current = r.current /\ s.amid = r.amid
  <1> DEFINE c == shared[k]
             s == [cs[c] EXCEPT !.for = cs[c].for \cup {why}]
  <1>1. t = [cs EXCEPT ![c] = s] BY DEF Attached
  <1>2. cs[c] \in CallRecord OBVIOUS
  <1>3. s \in CallRecord BY <1>2 DEF CallRecord
  <1>4. /\ s # None /\ s.kind = cs[c].kind /\ s.key = cs[c].key /\ s.for = cs[c].for \cup {why}
        /\ s.at = cs[c].at /\ s.value = cs[c].value /\ s.current = cs[c].current
        /\ s.amid = cs[c].amid
    BY <1>2, <1>3, NoneIsNoRecord DEF CallRecord
  <1> HIDE DEF s
  <1>5. /\ t \in [Calls -> CallRecord \cup {None}] /\ t[c] = s
        /\ \A d \in Calls \ {c} : t[d] = cs[d]
    BY <1>1, <1>3
  <1> QED BY <1>4, <1>5

\* A new read is sound: it was sent amid the saves that are under way.
LEMMA NewReadSound ==
  ASSUME NEW CONSTANT r, NEW other, NEW p \in AllPaths, NEW t \in Users \cup {None},
         NEW why \in Purposes, r = Request("get", p, why, t, other),
         why \in SessionPurposes => p = Me, other = {} => Saving' = {}
  PROVE  Sound(r)'
  <1>1. /\ r.kind = "get" /\ r.key = <<t, p>> /\ r.for = {why} /\ r.at = "sent"
        /\ r.amid <=> other # {}
    BY RequestFacts
  <1>2. r.key[2] = p BY <1>1
  <1> QED BY <1>1, <1>2 DEF Sound, SessionPurposes

\* A page reads, on its own or with a read that is under way.
LEMMA PageReadsStep ==
  ASSUME ClientAssumption, CInv, NEW c \in Calls, NEW p \in Paths, PageReads(c, p)
  PROVE  CInv'
  <1> DEFINE k == <<token, p>>
  <1>0. /\ token \in Users \cup {None} /\ calls \in [Calls -> CallRecord \cup {None}]
        /\ shared \in [Keys -> Calls \cup {None}] /\ pending = Cardinality(Live)
    BY DEF CInv, CTypeOK
  <1>1. k \in Keys /\ p \in AllPaths /\ k[2] = p /\ "page" \in Purposes
    BY <1>0, KeyFacts DEF AllPaths, Purposes
  <1>2. UNCHANGED <<db, valid, token, completed, user, loading, saved>> BY DEF PageReads
  <1>3. SavedIsCommitted' BY <1>2 DEF CInv, SavedIsCommitted
  <1>4. CASE shared[k] # None
    <2> DEFINE d == shared[k]
    <2>1. d \in Calls /\ calls[d] # None /\ calls[d].kind = "get"
      BY <1>0, <1>1, <1>4 DEF CInv, SharedIsUnderWay
    <2>2. calls' = Attached(calls, k, "page") /\ UNCHANGED <<shared, pending>>
      BY <1>4 DEF PageReads, Fetch
    <2>3. /\ calls' \in [Calls -> CallRecord \cup {None}] /\ calls'[d] # None
          /\ \A e \in Calls \ {d} : calls'[e] = calls[e]
          /\ calls'[d].kind = calls[d].kind /\ calls'[d].key = calls[d].key
          /\ calls'[d].for = calls[d].for \cup {"page"}
          /\ calls'[d].at = calls[d].at /\ calls'[d].value = calls[d].value
          /\ calls'[d].current = calls[d].current /\ calls'[d].amid = calls[d].amid
      BY <1>0, <1>1, <2>1, <2>2, AttachedFacts
    <2> HIDE DEF d, k
    <2>4. Live' = Live /\ Saving' = Saving
      <3>1. \A e \in Calls : calls'[e] # None <=> calls[e] # None BY <2>1, <2>3
      <3>2. Live' = Live BY <3>1 DEF Live
      <3>3. \A e \in Live : calls'[e].kind = calls[e].kind BY <2>3 DEF Live
      <3> QED BY <3>2, <3>3 DEF Saving
    <2>5. Quiet BY <1>2, <2>4 DEF Quiet, CInv, CTypeOK, Versions, Saving, Live, ClientAssumption
    <2>6. PICK e \in Calls : e = d BY <2>1
    <2>7. Sound(calls[e])'
      <3>1. Sound(calls[e]) BY <2>1, <2>6 DEF CInv, CallsSound, Live
      <3>2. calls'[e].for \cap SessionPurposes = calls[e].for \cap SessionPurposes
        BY <2>3, <2>6 DEF SessionPurposes
      <3> QED BY <1>2, <2>3, <2>4, <2>6, <3>1, <3>2 DEF Sound, AnswerOf, Versions
    <2>8. CallsSound' BY <2>3, <2>5, <2>6, <2>7, OneCallStep
    <2>9. CacheSound' BY <1>2, <2>5, QuietCache
    <2>10. SharedIsUnderWay'
      <3>1. ASSUME NEW j \in Keys, shared'[j] # None
            PROVE  /\ calls'[shared'[j]] # None /\ calls'[shared'[j]].kind = "get"
                   /\ calls'[shared'[j]].key = j /\ calls'[shared'[j]].current
        <4>1. shared'[j] = shared[j] /\ shared[j] \in Calls BY <1>0, <2>2, <3>1
        <4>2. /\ calls[shared[j]] # None /\ calls[shared[j]].kind = "get"
              /\ calls[shared[j]].key = j /\ calls[shared[j]].current
          BY <3>1, <4>1 DEF CInv, SharedIsUnderWay
        <4>3. CASE shared[j] = d BY <2>3, <4>1, <4>2, <4>3
        <4>4. CASE shared[j] # d BY <2>3, <4>1, <4>2, <4>4
        <4> QED BY <4>3, <4>4
      <3> QED BY <3>1 DEF SharedIsUnderWay
    <2>11. CTypeOK' BY <1>0, <1>2, <2>2, <2>3, <2>4 DEF CInv, CTypeOK
    <2> QED BY <1>3, <2>8, <2>9, <2>10, <2>11 DEF CInv
  <1>5. CASE shared[k] = None
    <2> DEFINE r == Request("get", p, "page", token, Saving)
    <2>1. /\ calls[c] = None /\ calls' = [calls EXCEPT ![c] = r]
          /\ shared' = [shared EXCEPT ![k] = c] /\ pending' = pending + 1
      BY <1>5 DEF PageReads, Fetch, NewCall
    <2>2. /\ r \in CallRecord /\ r # None /\ r.kind = "get" /\ r.key = k /\ r.current
      BY <1>0, <1>1, RequestFacts
    <2>3. PICK q : q = r OBVIOUS
    <2> HIDE DEF r, k
    <2>4. /\ calls' \in [Calls -> CallRecord \cup {None}] /\ calls'[c] = r
          /\ \A e \in Calls \ {c} : calls'[e] = calls[e]
      BY <1>0, <2>1, <2>2
    <2>5. Live' = Live \cup {c} /\ c \notin Live /\ Saving' = Saving
      BY <2>1, <2>2, <2>4 DEF Live, Saving
    <2>6. Quiet BY <1>2, <2>5 DEF Quiet, CInv, CTypeOK, Versions, Saving, Live, ClientAssumption
    <2>7. Sound(calls[c])'
      <3>1. Sound(q)' BY <1>0, <1>1, <2>3, <2>5, NewReadSound DEF r, SessionPurposes
      <3> QED BY <2>3, <2>4, <3>1 DEF Sound
    <2>8. CallsSound' BY <2>4, <2>6, <2>7, OneCallStep
    <2>9. CacheSound' BY <1>2, <2>6, QuietCache
    <2>10. SharedIsUnderWay'
      <3>1. \A j \in Keys : shared'[j] = IF j = k THEN c ELSE shared[j] BY <1>0, <2>1
      <3> QED BY <2>1, <2>2, <2>4, <3>1 DEF CInv, SharedIsUnderWay
    <2>11. pending' = Cardinality(Live') BY <1>0, <2>1, <2>5, CountMore
    <2>12. shared' \in [Keys -> Calls \cup {None}] BY <1>0, <1>1, <2>1
    <2>13. CTypeOK' BY <1>2, <2>4, <2>11, <2>12 DEF CInv, CTypeOK
    <2> QED BY <1>3, <2>8, <2>9, <2>10, <2>13 DEF CInv
  <1> QED BY <1>4, <1>5

\* Time and other people: an entry of the cache goes, a version comes, a token ends.
LEMMA ExpiresStep == ASSUME ClientAssumption, CInv, NEW k \in Keys, Expires(k) PROVE CInv'
  <1>1. /\ UNCHANGED <<db, valid, token, shared, calls, pending, user, loading, saved>>
        /\ completed' = [completed EXCEPT ![k] = None]
    BY DEF Expires
  <1>2. Live' = Live /\ Saving' = Saving BY <1>1 DEF Live, Saving
  <1>3. completed \in [Keys -> ReadValues \cup {None}] BY DEF CInv, CTypeOK
  <1>4. CTypeOK' BY <1>1, <1>2, <1>3 DEF CInv, CTypeOK
  <1>5. SharedIsUnderWay' BY <1>1 DEF CInv, SharedIsUnderWay
  <1>6. CallsSound' BY <1>1, <1>2 DEF CInv, CallsSound, Sound, AnswerOf, Versions
  <1>7. CacheSound'
    <2>1. \A j \in Keys : completed'[j] # None => completed'[j] = completed[j] BY <1>1, <1>3
    <2> QED BY <1>1, <1>2, <2>1 DEF CInv, CacheSound, AnswerOf, Versions
  <1> QED BY <1>1, <1>4, <1>5, <1>6, <1>7 DEF CInv, SavedIsCommitted

\* A step of the server that no call hears of.
LEMMA ServerStep ==
  ASSUME ClientAssumption, CInv, db' \in [Paths -> Versions], \A p \in Paths : db'[p] >= db[p],
         valid' \subseteq Users,
         UNCHANGED <<token, completed, shared, calls, pending, user, loading, saved>>
  PROVE  CInv'
  <1>1. Live' = Live /\ Saving' = Saving BY DEF Live, Saving
  <1>2. Quiet BY <1>1 DEF Quiet, Saving, Live
  <1>3. CTypeOK' BY <1>1 DEF CInv, CTypeOK
  <1>4. SharedIsUnderWay' BY DEF CInv, SharedIsUnderWay
  <1>5. CallsSound'
    <2>1. ASSUME NEW c \in Calls PROVE CallsSound'
      <3>1. calls'[c] # None => Sound(calls[c])'
        <4>1. PICK r : r = calls[c] OBVIOUS
        <4>2. ASSUME calls'[c] # None PROVE r \in CallRecord /\ Sound(r)
          BY <4>1, <4>2 DEF CInv, CTypeOK, CallsSound, Live
        <4>3. ASSUME calls'[c] # None PROVE Sound(r)' BY <1>2, <4>2, <4>3, QuietKeeps
        <4>4. calls'[c] = r BY <4>1
        <4> QED BY <4>3, <4>4 DEF Sound
      <3> QED BY <1>2, <1>3, <3>1, OneCallStep DEF CTypeOK
    <2> QED BY <2>1 DEF CallsSound, Live
  <1>6. CacheSound' BY <1>2, QuietCache
  <1>7. SavedIsCommitted'
    <2>1. ASSUME NEW p \in Paths PROVE saved'[p] <= db'[p]
      <3>1. saved[p] \in Nat /\ db[p] \in Nat /\ db'[p] \in Nat
        BY DEF CInv, CTypeOK, Versions, ClientAssumption
      <3>2. saved[p] <= db[p] /\ db'[p] >= db[p] /\ saved'[p] = saved[p]
        BY DEF CInv, SavedIsCommitted
      <3> QED BY <3>1, <3>2
    <2> QED BY <2>1 DEF SavedIsCommitted
  <1> QED BY <1>3, <1>4, <1>5, <1>6, <1>7 DEF CInv

LEMMA SavedElsewhereStep ==
  ASSUME ClientAssumption, CInv, NEW p \in Paths, SavedElsewhere(p) PROVE CInv'
  <1>1. db' = [db EXCEPT ![p] = db[p] + 1] /\ db[p] < MaxVersion /\ db \in [Paths -> Versions]
    BY DEF SavedElsewhere, CInv, CTypeOK
  <1>2. db' \in [Paths -> Versions] /\ \A q \in Paths : db'[q] >= db[q]
    BY <1>1 DEF Versions, ClientAssumption
  <1>3. valid' \subseteq Users BY DEF SavedElsewhere, CInv, CTypeOK
  <1> QED BY <1>2, <1>3, ServerStep DEF SavedElsewhere

LEMMA TokenExpiresStep ==
  ASSUME ClientAssumption, CInv, NEW u \in Users, TokenExpires(u) PROVE CInv'
  <1>1. db' \in [Paths -> Versions] /\ \A q \in Paths : db'[q] >= db[q]
    BY DEF TokenExpires, CInv, CTypeOK, Versions, ClientAssumption
  <1>2. valid' \subseteq Users BY DEF TokenExpires, CInv, CTypeOK
  <1> QED BY <1>1, <1>2, ServerStep DEF TokenExpires

\* The server handles a request, and answers it with something its kind allows.
LEMMA HandledStep ==
  ASSUME ClientAssumption, CInv, NEW c \in Live, NEW at \in {"answered", "refused"},
         NEW v \in Values, Handled(c, at, v), calls[c].at = "sent",
         db' \in [Paths -> Versions], \A p \in Paths : db'[p] >= db[p], valid' \subseteq Users,
         calls[c].kind = "login" => v \in Users,
         at = "answered" /\ calls[c].kind = "get" =>
           /\ v \in AnswerOf(calls[c].key[2])
           /\ calls[c].key[2] \in Paths => v = db[calls[c].key[2]],
         at = "answered" /\ calls[c].kind = "save" /\ calls[c].key[2] \in Paths =>
           v \in Versions /\ v <= db'[calls[c].key[2]]
  PROVE  CInv'
  <1> DEFINE r == calls[c]
             s == [r EXCEPT !.at = at, !.value = v]
  <1>0. /\ calls \in [Calls -> CallRecord \cup {None}] /\ c \in Calls /\ r \in CallRecord
        /\ saved \in [Paths -> Versions] /\ db \in [Paths -> Versions]
        /\ shared \in [Keys -> Calls \cup {None}] /\ pending = Cardinality(Live)
    BY DEF CInv, CTypeOK, Live
  <1>1. /\ calls' = [calls EXCEPT ![c] = s]
        /\ UNCHANGED <<token, completed, shared, pending, user, loading, saved>>
    BY DEF Handled
  <1>2. /\ s \in CallRecord /\ s.kind = r.kind /\ s.key = r.key /\ s.for = r.for /\ s.at = at
        /\ s.value = v /\ s.current = r.current /\ s.amid = r.amid
    BY <1>0 DEF CallRecord
  <1>3. s # None BY <1>2, NoneIsNoRecord
  <1>4. Sound(r) BY DEF CInv, CallsSound
  <1>5. PICK k : k = r.key OBVIOUS
  <1>6. k \in Keys /\ k[2] \in AllPaths BY <1>0, <1>5, KeyFacts DEF CallRecord
  <1> HIDE DEF s
  <1>7. /\ calls' \in [Calls -> CallRecord \cup {None}] /\ calls'[c] = s
        /\ \A e \in Calls \ {c} : calls'[e] = calls[e]
    BY <1>0, <1>1, <1>2
  <1>8. Live' = Live /\ Saving' = Saving
    <2>1. \A e \in Calls : calls'[e] # None <=> calls[e] # None BY <1>3, <1>7 DEF Live
    <2>2. Live' = Live BY <2>1 DEF Live
    <2>3. \A e \in Live : calls'[e].kind = calls[e].kind BY <1>2, <1>7 DEF Live
    <2> QED BY <2>2, <2>3 DEF Saving
  <1>9. Quiet BY <1>1, <1>8 DEF Quiet, Saving, Live
  <1>10. PICK e \in Calls : e = c BY <1>0
  <1>11. Sound(calls[e])'
    <2>1. calls'[e] = s BY <1>7, <1>10
    <2>2. ASSUME s.kind = "get", s.current, ~s.amid
          PROVE  /\ Saving' = {}
                 /\ s.at = "answered" /\ s.key[2] \in Paths => s.value >= saved'[s.key[2]]
      <3>1. Saving' = {} BY <1>2, <1>4, <1>8, <2>2 DEF Sound
      <3>2. ASSUME s.at = "answered", s.key[2] \in Paths PROVE s.value >= saved'[s.key[2]]
        <4>1. v = db[k[2]] /\ saved'[k[2]] = saved[k[2]] BY <1>1, <1>2, <1>5, <2>2, <3>2
        <4>2. saved[k[2]] <= db[k[2]] /\ saved[k[2]] \in Nat /\ db[k[2]] \in Nat
          BY <1>0, <1>2, <1>5, <3>2 DEF CInv, SavedIsCommitted, Versions, ClientAssumption
        <4> QED BY <1>2, <1>5, <4>1, <4>2
      <3> QED BY <3>1, <3>2
    <2>3. /\ s.for \cap SessionPurposes # {} => s.kind = "get" /\ s.key[2] = Me
          /\ s.kind = "login" => s.value \in Users
          /\ s.kind = "get" /\ s.at = "answered" => s.value \in AnswerOf(s.key[2])
          /\ s.kind = "save" /\ s.at = "answered" /\ s.key[2] \in Paths =>
               s.value \in Versions /\ s.value <= db'[s.key[2]]
      BY <1>2, <1>4 DEF Sound
    <2> QED BY <2>1, <2>2, <2>3 DEF Sound, AnswerOf, Versions
  <1>12. CallsSound' BY <1>7, <1>9, <1>10, <1>11, OneCallStep
  <1>13. CacheSound' BY <1>1, <1>9, QuietCache
  <1>14. SharedIsUnderWay'
    <2>1. ASSUME NEW j \in Keys, shared'[j] # None
          PROVE  /\ calls'[shared'[j]] # None /\ calls'[shared'[j]].kind = "get"
                 /\ calls'[shared'[j]].key = j /\ calls'[shared'[j]].current
      <3>1. shared'[j] = shared[j] /\ shared[j] \in Calls BY <1>0, <1>1, <2>1
      <3>2. /\ calls[shared[j]] # None /\ calls[shared[j]].kind = "get"
            /\ calls[shared[j]].key = j /\ calls[shared[j]].current
        BY <2>1, <3>1 DEF CInv, SharedIsUnderWay
      <3>3. CASE shared[j] = c BY <1>2, <1>3, <1>7, <3>1, <3>2, <3>3
      <3>4. CASE shared[j] # c BY <1>7, <3>1, <3>2, <3>4
      <3> QED BY <3>3, <3>4
    <2> QED BY <2>1 DEF SharedIsUnderWay
  <1>15. CTypeOK' BY <1>0, <1>1, <1>7, <1>8 DEF CInv, CTypeOK
  <1>16. SavedIsCommitted'
    <2>1. ASSUME NEW p \in Paths PROVE saved'[p] <= db'[p]
      <3>1. saved[p] \in Nat /\ db[p] \in Nat /\ db'[p] \in Nat
        BY <1>0 DEF Versions, ClientAssumption
      <3>2. saved[p] <= db[p] /\ db'[p] >= db[p] /\ saved'[p] = saved[p]
        BY <1>1 DEF CInv, SavedIsCommitted
      <3> QED BY <3>1, <3>2
    <2> QED BY <2>1 DEF SavedIsCommitted
  <1> QED BY <1>12, <1>13, <1>14, <1>15, <1>16 DEF CInv

LEMMA ServeStep == ASSUME ClientAssumption, CInv, NEW c \in Calls, Serve(c) PROVE CInv'
  <1> DEFINE k == calls[c]
             p == k.key[2]
  <1>0. /\ c \in Live /\ k \in CallRecord /\ k.at = "sent" /\ Sound(k)
        /\ db \in [Paths -> Versions] /\ valid \subseteq Users
    BY DEF Serve, CInv, CTypeOK, CallsSound, Live
  <1>1. p \in AllPaths /\ k.kind \in {"get", "save", "login"}
    BY <1>0, KeyFacts DEF CallRecord
  <1>2. ASSUME db' = db
        PROVE  db' \in [Paths -> Versions] /\ \A q \in Paths : db'[q] >= db[q]
    BY <1>0, <1>2 DEF Versions, ClientAssumption
  <1>3. None \in Values /\ Users \subseteq Values /\ Versions \subseteq Values
    BY DEF Values
  <1>4. CASE k.kind = "login" /\ valid' = valid \cup {k.value}
               /\ Handled(c, "answered", k.value) /\ UNCHANGED db
    <2>1. k.value \in Users BY <1>0, <1>4 DEF Sound
    <2> QED BY <1>0, <1>2, <1>3, <1>4, <2>1, HandledStep
  <1>5. CASE k.kind # "login" /\ k.as \notin valid /\ Handled(c, "refused", None)
               /\ UNCHANGED <<db, valid>>
    BY <1>0, <1>2, <1>3, <1>5, HandledStep
  <1>6. CASE k.kind = "get" /\ k.as \in valid
               /\ Handled(c, "answered", IF p = Me THEN k.as ELSE db[p])
               /\ UNCHANGED <<db, valid>>
    <2>1. PICK v : v = IF p = Me THEN k.as ELSE db[p] OBVIOUS
    <2>2. v \in AnswerOf(p) /\ (p \in Paths => v = db[p])
      BY <1>0, <1>1, <1>6, <2>1 DEF AnswerOf, AllPaths, ClientAssumption
    <2>3. v \in Values BY <1>3, <2>2 DEF AnswerOf
    <2> QED BY <1>0, <1>2, <1>6, <2>1, <2>2, <2>3, HandledStep
  <1>7. CASE k.kind = "save" /\ k.as \in valid /\ p = Me
               /\ Handled(c, "answered", None) /\ UNCHANGED <<db, valid>>
    BY <1>0, <1>2, <1>3, <1>7, HandledStep DEF ClientAssumption
  <1>8. CASE k.kind = "save" /\ k.as \in valid /\ p \in Paths /\ db[p] < MaxVersion
               /\ db' = [db EXCEPT ![p] = db[p] + 1] /\ Handled(c, "answered", db[p] + 1)
               /\ UNCHANGED valid
    <2>1. /\ db' \in [Paths -> Versions] /\ \A q \in Paths : db'[q] >= db[q]
          /\ db[p] + 1 \in Versions /\ db[p] + 1 <= db'[p]
      BY <1>0, <1>8 DEF Versions, ClientAssumption
    <2>2. db[p] + 1 \in Values BY <1>3, <2>1
    <2> HIDE DEF p
    <2>3. PICK v \in Values : v = db[p] + 1 BY <2>2
    <2> QED BY <1>0, <1>8, <2>1, <2>3, HandledStep DEF p
  <1> QED BY <1>4, <1>5, <1>6, <1>7, <1>8 DEF Serve

----------------------------------------------------------------------------
(* How a call settles. *)

\* One call is gone, and the counter follows.
LEMMA GoneFacts ==
  ASSUME ClientAssumption, CInv, NEW c \in Live, calls' = [calls EXCEPT ![c] = None],
         pending' = pending - 1
  PROVE  /\ calls' \in [Calls -> CallRecord \cup {None}] /\ calls'[c] = None
         /\ \A d \in Calls \ {c} : calls'[d] = calls[d]
         /\ Live' = Live \ {c} /\ Saving' = Saving \ {c}
         /\ pending' = Cardinality(Live')
  <1>0. calls \in [Calls -> CallRecord \cup {None}] /\ pending = Cardinality(Live)
    BY DEF CInv, CTypeOK
  <1>1. /\ calls' \in [Calls -> CallRecord \cup {None}] /\ calls'[c] = None
        /\ \A d \in Calls \ {c} : calls'[d] = calls[d]
    BY <1>0 DEF Live
  <1>2. Live' = Live \ {c} BY <1>1 DEF Live
  <1>3. Saving' = Saving \ {c} BY <1>1, <1>2 DEF Saving, Live
  <1>4. pending' = Cardinality(Live') BY <1>0, <1>2, CountLess
  <1> QED BY <1>1, <1>2, <1>3, <1>4

\* The reads that stay shared are under way still.
LEMMA UnregisterStep ==
  ASSUME ClientAssumption, CInv, NEW c \in Calls, \A d \in Calls \ {c} : calls'[d] = calls[d],
         shared' = Unregister(c)
  PROVE  SharedIsUnderWay' /\ shared' \in [Keys -> Calls \cup {None}]
  <1>1. shared \in [Keys -> Calls \cup {None}] BY DEF CInv, CTypeOK
  <1>2. \A j \in Keys : shared'[j] # None => shared'[j] = shared[j] /\ shared[j] # c
    BY DEF Unregister
  <1>3. shared' \in [Keys -> Calls \cup {None}] BY <1>1 DEF Unregister
  <1>4. SharedIsUnderWay' BY <1>1, <1>2, <1>3 DEF CInv, SharedIsUnderWay
  <1> QED BY <1>3, <1>4

\* What the session hears of a read is somebody, or nobody.
LEMMA SessionTypes ==
  ASSUME CInv, NEW for, NEW me, for \cap SessionPurposes # {} => me \in Users \cup {None},
         SessionHears(for, me)
  PROVE  token' \in Users \cup {None} /\ user' \in Users \cup {None} /\ loading' \in BOOLEAN
  <1>1. token \in Users \cup {None} /\ user \in Users \cup {None} /\ loading \in BOOLEAN
    BY DEF CInv, CTypeOK
  <1>2. user' \in Users \cup {None} BY <1>1 DEF SessionHears, SessionPurposes
  <1>3. token' \in Users \cup {None} BY <1>1 DEF SessionHears
  <1>4. loading' \in BOOLEAN BY <1>1 DEF SessionHears
  <1> QED BY <1>2, <1>3, <1>4

\* A read that succeeds is remembered only while it is current.
LEMMA GetSucceedsStep ==
  ASSUME ClientAssumption, CInv, NEW c \in Calls, GetSucceeds(c) PROVE CInv'
  <1> DEFINE r == calls[c]
  <1>0. /\ c \in Live /\ r \in CallRecord /\ r.kind = "get" /\ r.at = "answered" /\ Sound(r)
        /\ completed \in [Keys -> ReadValues \cup {None}]
    BY DEF GetSucceeds, Answered, CInv, CTypeOK, CallsSound, Live
  <1>1. /\ calls' = [calls EXCEPT ![c] = None] /\ pending' = pending - 1
        /\ shared' = Unregister(c) /\ completed' = Remembers(c)
        /\ SessionHears(r.for, r.value) /\ UNCHANGED <<db, valid, saved>>
    BY DEF GetSucceeds
  <1>2. /\ calls' \in [Calls -> CallRecord \cup {None}] /\ calls'[c] = None
        /\ \A d \in Calls \ {c} : calls'[d] = calls[d]
        /\ Live' = Live \ {c} /\ Saving' = Saving \ {c}
        /\ pending' = Cardinality(Live')
    BY <1>0, <1>1, GoneFacts
  <1>3. Saving' = Saving BY <1>0, <1>2 DEF Saving
  <1>4. Quiet BY <1>1, <1>2, <1>3 DEF Quiet, CInv, CTypeOK, Versions, Saving, Live, ClientAssumption
  <1>5. CallsSound' BY <1>2, <1>4, OneCallStep
  <1>6. SharedIsUnderWay' /\ shared' \in [Keys -> Calls \cup {None}]
    BY <1>1, <1>2, UnregisterStep
  <1>7. completed' \in [Keys -> ReadValues \cup {None}] /\ CacheSound'
    <2>1. CASE ~r.current
      <3>1. completed' = completed BY <1>1, <2>1 DEF Remembers
      <3> QED BY <1>0, <1>4, <3>1, QuietCache
    <2>2. CASE r.current
      <3> DEFINE e == [value |-> r.value, amid |-> r.amid]
      <3>1. completed' = [completed EXCEPT ![r.key] = e] BY <1>1, <2>2 DEF Remembers
      <3>2. e \in ReadValues /\ e.value = r.value /\ e.amid = r.amid /\ r.key \in Keys
        BY <1>0 DEF ReadValues, CallRecord
      <3>3. /\ e.value \in AnswerOf(r.key[2])
            /\ ~e.amid => /\ Saving = {}
                          /\ r.key[2] \in Paths => e.value >= saved[r.key[2]]
        BY <1>0, <2>2, <3>2 DEF Sound
      <3> HIDE DEF e
      <3>4. completed'[r.key] = e /\ \A k \in Keys \ {r.key} : completed'[k] = completed[k]
        BY <1>0, <3>1, <3>2
      <3>5. CacheSound'
        BY <1>1, <1>3, <3>3, <3>4 DEF CInv, CacheSound, AnswerOf, Versions
      <3> QED BY <1>0, <3>1, <3>2, <3>5
    <2> QED BY <2>1, <2>2
  <1>8. token' \in Users \cup {None} /\ user' \in Users \cup {None} /\ loading' \in BOOLEAN
    <2>1. r.for \cap SessionPurposes # {} => r.value \in Users
      BY <1>0 DEF Sound, AnswerOf
    <2> QED BY <1>1, <2>1, SessionTypes
  <1>9. CTypeOK' BY <1>1, <1>2, <1>6, <1>7, <1>8 DEF CInv, CTypeOK
  <1>10. SavedIsCommitted' BY <1>1 DEF CInv, SavedIsCommitted
  <1> QED BY <1>5, <1>6, <1>7, <1>9, <1>10 DEF CInv

\* A read that fails for good takes the session down with it only if it opened the tab.
LEMMA GetFailsStep ==
  ASSUME ClientAssumption, CInv, NEW c \in Calls, GetFails(c) PROVE CInv'
  <1> DEFINE r == calls[c]
  <1>0. /\ c \in Live /\ r \in CallRecord /\ r.kind = "get"
        /\ completed \in [Keys -> ReadValues \cup {None}]
        /\ calls \in [Calls -> CallRecord \cup {None}] /\ pending = Cardinality(Live)
    BY DEF GetFails, CInv, CTypeOK, Live
  <1>1. pending' = pending - 1 /\ UNCHANGED <<db, valid, saved>> BY DEF GetFails
  <1>2. token' \in Users \cup {None} /\ user' \in Users \cup {None} /\ loading' \in BOOLEAN
    BY SessionTypes DEF GetFails
  <1>3. SavedIsCommitted' BY <1>1 DEF CInv, SavedIsCommitted
  <1>4. CASE "loadMe" \in r.for
    <2>1. /\ calls' = [Outdated(calls) EXCEPT ![c] = None]
          /\ shared' = NothingRead /\ completed' = NothingRead
      BY <1>4 DEF GetFails
    <2>2. /\ calls' \in [Calls -> CallRecord \cup {None}] /\ calls'[c] = None
          /\ \A d \in Calls \ {c} : calls'[d] = Outdated(calls)[d]
      BY <1>0, <2>1, OutdatedFacts
    <2>3. CallsSound' /\ CacheSound' /\ completed' \in [Keys -> ReadValues \cup {None}]
      BY <1>1, <2>1, <2>2, OutdateStep
    <2>4. Live' = Live \ {c}
      <3>1. \A d \in Calls : Outdated(calls)[d] = None <=> calls[d] = None
        BY <1>0, OutdatedFacts
      <3> QED BY <2>2, <3>1 DEF Live
    <2>5. pending' = Cardinality(Live') BY <1>0, <1>1, <2>4, CountLess
    <2>6. SharedIsUnderWay' /\ shared' \in [Keys -> Calls \cup {None}]
      BY <2>1 DEF SharedIsUnderWay, NothingRead
    <2>7. CTypeOK' BY <1>1, <1>2, <2>2, <2>3, <2>5, <2>6 DEF CInv, CTypeOK
    <2> QED BY <1>3, <2>3, <2>6, <2>7 DEF CInv
  <1>5. CASE "loadMe" \notin r.for
    <2>1. /\ calls' = [calls EXCEPT ![c] = None]
          /\ shared' = Unregister(c) /\ completed' = completed
      BY <1>5 DEF GetFails
    <2>2. /\ calls' \in [Calls -> CallRecord \cup {None}] /\ calls'[c] = None
          /\ \A d \in Calls \ {c} : calls'[d] = calls[d]
          /\ Live' = Live \ {c} /\ Saving' = Saving \ {c}
          /\ pending' = Cardinality(Live')
      BY <1>0, <1>1, <2>1, GoneFacts
    <2>3. Quiet BY <1>1, <2>2 DEF Quiet, CInv, CTypeOK, Versions, Saving, Live, ClientAssumption
    <2>4. CallsSound' BY <2>2, <2>3, OneCallStep
    <2>5. CacheSound' BY <2>1, <2>3, QuietCache
    <2>6. SharedIsUnderWay' /\ shared' \in [Keys -> Calls \cup {None}]
      BY <2>1, <2>2, UnregisterStep
    <2>7. CTypeOK' BY <1>0, <1>1, <1>2, <2>1, <2>2, <2>6 DEF CInv, CTypeOK
    <2> QED BY <1>3, <2>4, <2>5, <2>6, <2>7 DEF CInv
  <1> QED BY <1>4, <1>5

\* A call under way goes on under its key, with the value it has or without one.
LEMMA GoesOnStep ==
  ASSUME ClientAssumption, CInv, NEW c \in Live, NEW s \in CallRecord,
         calls' = [calls EXCEPT ![c] = s],
         UNCHANGED <<db, valid, token, completed, shared, pending, user, loading, saved>>,
         s.kind = calls[c].kind, s.key = calls[c].key, s.for = calls[c].for,
         s.current = calls[c].current, s.amid = calls[c].amid,
         \/ s.at = calls[c].at /\ s.value = calls[c].value
         \/ s.at = "sent" /\ s.kind = "get"
         \/ s.at = "failed"
  PROVE  CInv'
  <1> DEFINE r == calls[c]
  <1>0. /\ c \in Calls /\ r \in CallRecord /\ Sound(r)
        /\ calls \in [Calls -> CallRecord \cup {None}] /\ shared \in [Keys -> Calls \cup {None}]
    BY DEF CInv, CTypeOK, CallsSound, Live
  <1>2. s # None BY NoneIsNoRecord
  <1>3. /\ calls' \in [Calls -> CallRecord \cup {None}] /\ calls'[c] = s
        /\ \A e \in Calls \ {c} : calls'[e] = calls[e]
    BY <1>0
  <1>4. Live' = Live /\ Saving' = Saving
    <2>1. \A e \in Calls : calls'[e] # None <=> calls[e] # None BY <1>0, <1>2, <1>3 DEF Live
    <2>2. Live' = Live BY <2>1 DEF Live
    <2>3. \A e \in Live : calls'[e].kind = calls[e].kind BY <1>0, <1>3 DEF Live
    <2> QED BY <2>2, <2>3 DEF Saving
  <1>5. Quiet BY <1>4 DEF Quiet, CInv, CTypeOK, Versions, Saving, Live, ClientAssumption
  <1>6. Sound(calls[c])'
    <2>1. CASE s.at = r.at /\ s.value = r.value
      BY <1>0, <1>3, <1>4, <2>1 DEF Sound, AnswerOf, Versions
    <2>2. CASE \/ s.at = "sent" /\ s.kind = "get"
               \/ s.at = "failed"
      BY <1>0, <1>3, <1>4, <2>2 DEF Sound
    <2> QED BY <2>1, <2>2
  <1>7. CallsSound' BY <1>0, <1>3, <1>5, <1>6, OneCallStep
  <1>8. CacheSound' BY <1>5, QuietCache
  <1>9. SharedIsUnderWay'
    <2>1. ASSUME NEW j \in Keys, shared'[j] # None
          PROVE  /\ calls'[shared'[j]] # None /\ calls'[shared'[j]].kind = "get"
                 /\ calls'[shared'[j]].key = j /\ calls'[shared'[j]].current
      <3>1. shared'[j] = shared[j] /\ shared[j] \in Calls BY <1>0, <2>1
      <3>2. /\ calls[shared[j]] # None /\ calls[shared[j]].kind = "get"
            /\ calls[shared[j]].key = j /\ calls[shared[j]].current
        BY <2>1, <3>1 DEF CInv, SharedIsUnderWay
      <3>3. CASE shared[j] = c BY <1>2, <1>3, <3>1, <3>2, <3>3
      <3>4. CASE shared[j] # c BY <1>3, <3>1, <3>2, <3>4
      <3> QED BY <3>3, <3>4
    <2> QED BY <2>1 DEF SharedIsUnderWay
  <1>10. CTypeOK' BY <1>3, <1>4 DEF CInv, CTypeOK
  <1>11. SavedIsCommitted' BY DEF CInv, SavedIsCommitted
  <1> QED BY <1>7, <1>8, <1>9, <1>10, <1>11 DEF CInv

\* Headers tell a call's answer apart, or that there is none.
LEMMA HearsStep == ASSUME ClientAssumption, CInv, NEW c \in Calls, Hears(c) PROVE CInv'
  <1> DEFINE r == calls[c]
  <1>0. c \in Live /\ r \in CallRecord BY DEF Hears, CInv, CTypeOK, Live
  <1>1. UNCHANGED <<db, valid, token, completed, shared, pending, user, loading, saved>>
    BY DEF Hears
  <1>2. CASE calls' = [calls EXCEPT ![c].heard = TRUE]
    <2>1. PICK s : s = [r EXCEPT !.heard = TRUE] OBVIOUS
    <2>2. /\ s \in CallRecord /\ s.kind = r.kind /\ s.key = r.key /\ s.for = r.for
          /\ s.current = r.current /\ s.amid = r.amid /\ s.at = r.at /\ s.value = r.value
      BY <1>0, <2>1 DEF CallRecord
    <2>3. calls' = [calls EXCEPT ![c] = s] BY <1>2, <2>1
    <2> QED BY <1>0, <1>1, <2>2, <2>3, GoesOnStep
  <1>3. CASE calls' = [calls EXCEPT ![c].heard = TRUE, ![c].at = "failed", ![c].value = None]
    <2>1. PICK s : s = [r EXCEPT !.heard = TRUE, !.at = "failed", !.value = None] OBVIOUS
    <2>2. None \in Values BY DEF Values
    <2>3. /\ s \in CallRecord /\ s.kind = r.kind /\ s.key = r.key /\ s.for = r.for
          /\ s.current = r.current /\ s.amid = r.amid /\ s.at = "failed"
      BY <1>0, <2>1, <2>2 DEF CallRecord
    <2>4. calls' = [calls EXCEPT ![c] = s]
      <3>1. calls \in [Calls -> CallRecord \cup {None}] BY DEF CInv, CTypeOK
      <3> QED BY <1>3, <2>1, <3>1
    <2> QED BY <1>0, <1>1, <2>3, <2>4, GoesOnStep
  <1> QED BY <1>2, <1>3 DEF Hears

\* A read that breaks down is sent again, as the same call, or fails.
LEMMA GetBreaksDownStep ==
  ASSUME ClientAssumption, CInv, NEW c \in Calls, GetBreaksDown(c) PROVE CInv'
  <1> DEFINE r == calls[c]
             q == [r EXCEPT !.tries = 2, !.at = "sent", !.heard = FALSE, !.as = token,
                            !.value = None]
  <1>0. /\ c \in Live /\ r \in CallRecord /\ r.kind = "get"
        /\ calls \in [Calls -> CallRecord \cup {None}] /\ token \in Users \cup {None}
    BY DEF GetBreaksDown, CInv, CTypeOK, Live
  <1>1. CASE GetFails(c) BY <1>1, GetFailsStep
  <1>2. CASE /\ calls' = [calls EXCEPT ![c] = q]
             /\ UNCHANGED <<db, valid, token, completed, shared, pending, user, loading, saved>>
    <2>1. PICK s : s = q OBVIOUS
    <2>2. 2 \in 1..2 /\ None \in Values BY DEF Values
    <2>3. s \in CallRecord BY <1>0, <2>1, <2>2 DEF CallRecord
    <2>4. /\ s.kind = r.kind /\ s.key = r.key /\ s.for = r.for /\ s.at = "sent"
          /\ s.current = r.current /\ s.amid = r.amid
      BY <1>0, <2>1 DEF CallRecord
    <2>5. calls' = [calls EXCEPT ![c] = s] BY <1>2, <2>1
    <2> HIDE DEF q
    <2> QED BY <1>0, <1>2, <2>3, <2>4, <2>5, GoesOnStep
  <1> QED BY <1>1, <1>2 DEF GetBreaksDown

\* A call that is not a read is nobody's shared read.
LEMMA NotShared ==
  ASSUME ClientAssumption, CInv, NEW c \in Live, calls[c].kind # "get"
  PROVE  \A k \in Keys : shared[k] # c
  <1>1. c # None BY DEF ClientAssumption, Live
  <1>2. ASSUME NEW k \in Keys, shared[k] = c PROVE FALSE
    BY <1>1, <1>2 DEF CInv, SharedIsUnderWay
  <1> QED BY <1>2

\* A save succeeds: what this tab is told it saved is committed, and nothing remembered
\* in quiet is left that could be older.
LEMMA SaveSucceedsStep ==
  ASSUME ClientAssumption, CInv, NEW c \in Calls, SaveSucceeds(c) PROVE CInv'
  <1> DEFINE r == calls[c]
  <1>0. /\ c \in Live /\ r \in CallRecord /\ r.kind = "save" /\ Sound(r) /\ c \in Saving
        /\ shared \in [Keys -> Calls \cup {None}] /\ saved \in [Paths -> Versions]
        /\ r.at = "answered"
    BY DEF SaveSucceeds, Answered, CInv, CTypeOK, CallsSound, Live, Saving
  <1>1. /\ calls' = [calls EXCEPT ![c] = None] /\ pending' = pending - 1
        /\ UNCHANGED <<db, valid, token, completed, shared, user, loading>>
        /\ saved' = IF r.key[2] \in Paths
                    THEN [saved EXCEPT ![r.key[2]] = r.value] ELSE saved
    BY DEF SaveSucceeds
  <1>2. /\ calls' \in [Calls -> CallRecord \cup {None}] /\ calls'[c] = None
        /\ \A d \in Calls \ {c} : calls'[d] = calls[d]
        /\ Live' = Live \ {c} /\ Saving' = Saving \ {c}
        /\ pending' = Cardinality(Live')
    BY <1>0, <1>1, GoneFacts
  <1>3. Quiet
    BY <1>0, <1>1, <1>2 DEF Quiet, CInv, CTypeOK, Versions, Saving, Live, ClientAssumption
  <1>4. CallsSound' BY <1>2, <1>3, OneCallStep
  <1>5. CacheSound' BY <1>1, <1>3, QuietCache
  <1>6. SharedIsUnderWay'
    <2>1. \A k \in Keys : shared[k] # c BY <1>0, NotShared
    <2> QED BY <1>0, <1>1, <1>2, <2>1 DEF CInv, SharedIsUnderWay
  <1>7. saved' \in [Paths -> Versions] /\ SavedIsCommitted'
    <2>1. CASE r.key[2] \in Paths
      <3>1. r.value \in Versions /\ r.value <= db[r.key[2]] BY <1>0, <2>1 DEF Sound
      <3>2. saved' = [saved EXCEPT ![r.key[2]] = r.value] BY <1>1, <2>1
      <3> QED BY <1>0, <1>1, <2>1, <3>1, <3>2 DEF CInv, SavedIsCommitted
    <2>2. CASE r.key[2] \notin Paths
      <3>1. saved' = saved BY <1>1, <2>2
      <3> QED BY <1>0, <1>1, <3>1 DEF CInv, SavedIsCommitted
    <2> QED BY <2>1, <2>2
  <1>8. CTypeOK' BY <1>0, <1>1, <1>2, <1>7 DEF CInv, CTypeOK
  <1> QED BY <1>4, <1>5, <1>6, <1>7, <1>8 DEF CInv

\* A save or a sign-in that fails leaves nothing behind in the tab.
LEMMA FailsStep ==
  ASSUME ClientAssumption, CInv, NEW c \in Calls, Fails(c) PROVE CInv'
  <1>0. c \in Live /\ calls[c].kind # "get" /\ shared \in [Keys -> Calls \cup {None}]
    BY DEF Fails, CInv, CTypeOK
  <1>1. /\ calls' = [calls EXCEPT ![c] = None] /\ pending' = pending - 1
        /\ UNCHANGED <<db, valid, token, completed, shared, user, loading, saved>>
    BY DEF Fails
  <1>2. /\ calls' \in [Calls -> CallRecord \cup {None}] /\ calls'[c] = None
        /\ \A d \in Calls \ {c} : calls'[d] = calls[d]
        /\ Live' = Live \ {c} /\ Saving' = Saving \ {c}
        /\ pending' = Cardinality(Live')
    BY <1>0, <1>1, GoneFacts
  <1>3. Quiet
    BY <1>0, <1>1, <1>2 DEF Quiet, CInv, CTypeOK, Versions, Saving, Live, ClientAssumption
  <1>4. CallsSound' BY <1>2, <1>3, OneCallStep
  <1>5. CacheSound' BY <1>1, <1>3, QuietCache
  <1>6. SharedIsUnderWay'
    <2>1. \A k \in Keys : shared[k] # c BY <1>0, NotShared
    <2> QED BY <1>0, <1>1, <1>2, <2>1 DEF CInv, SharedIsUnderWay
  <1>7. CTypeOK' BY <1>1, <1>2 DEF CInv, CTypeOK
  <1>8. SavedIsCommitted' BY <1>1 DEF CInv, SavedIsCommitted
  <1> QED BY <1>4, <1>5, <1>6, <1>7, <1>8 DEF CInv

\* The department is saved: /me is read from the cache, with a read under way, or anew.
LEMMA RefreshUserStep ==
  ASSUME ClientAssumption, CInv, NEW c \in Calls, RefreshUser(c) PROVE CInv'
  <1> DEFINE k == <<token, Me>>
             gone == [calls EXCEPT ![c] = None]
  <1>0. /\ c \in Live /\ calls[c] \in CallRecord /\ calls[c].kind = "save" /\ c \in Saving
        /\ token \in Users \cup {None} /\ calls \in [Calls -> CallRecord \cup {None}]
        /\ shared \in [Keys -> Calls \cup {None}] /\ pending = Cardinality(Live)
        /\ user \in Users \cup {None} /\ completed \in [Keys -> ReadValues \cup {None}]
    BY DEF RefreshUser, CInv, CTypeOK, Live, Saving
  <1>1. k \in Keys /\ Me \in AllPaths /\ k[2] = Me /\ "refreshUser" \in Purposes
    BY <1>0, KeyFacts DEF AllPaths, Purposes
  <1>2. UNCHANGED <<db, valid, token, completed, loading, saved>> BY DEF RefreshUser
  <1>3. SavedIsCommitted' BY <1>2 DEF CInv, SavedIsCommitted
  <1>4. \A j \in Keys : shared[j] # c BY <1>0, NotShared
  <1>5. CASE completed[k] # None /\ user' = completed[k].value /\ calls' = gone
               /\ pending' = pending - 1 /\ UNCHANGED shared
    <2>1. /\ calls' \in [Calls -> CallRecord \cup {None}] /\ calls'[c] = None
          /\ \A d \in Calls \ {c} : calls'[d] = calls[d]
          /\ Live' = Live \ {c} /\ Saving' = Saving \ {c}
          /\ pending' = Cardinality(Live')
      BY <1>0, <1>5, GoneFacts
    <2>2. Quiet
      BY <1>0, <1>2, <2>1 DEF Quiet, CInv, CTypeOK, Versions, Saving, Live, ClientAssumption
    <2>3. CallsSound' BY <2>1, <2>2, OneCallStep
    <2>4. CacheSound' BY <1>2, <2>2, QuietCache
    <2>5. SharedIsUnderWay' BY <1>0, <1>4, <1>5, <2>1 DEF CInv, SharedIsUnderWay
    <2>6. user' \in Users BY <1>1, <1>5 DEF CInv, CacheSound, AnswerOf
    <2>7. CTypeOK' BY <1>0, <1>2, <1>5, <2>1, <2>6 DEF CInv, CTypeOK
    <2> QED BY <1>3, <2>3, <2>4, <2>5, <2>7 DEF CInv
  <1>6. CASE shared[k] # None /\ calls' = Attached(gone, k, "refreshUser")
               /\ pending' = pending - 1 /\ UNCHANGED <<shared, user>>
    <2> DEFINE d == shared[k]
    <2>1. /\ d \in Calls /\ d # c /\ calls[d] # None /\ calls[d].kind = "get"
          /\ calls[d].key = k
      BY <1>0, <1>1, <1>4, <1>6 DEF CInv, SharedIsUnderWay
    <2>2. /\ gone \in [Calls -> CallRecord \cup {None}] /\ gone[c] = None
          /\ \A e \in Calls \ {c} : gone[e] = calls[e]
      BY <1>0
    <2> HIDE DEF gone, k
    <2>3. /\ calls' \in [Calls -> CallRecord \cup {None}]
          /\ \A e \in Calls \ {d} : calls'[e] = gone[e]
          /\ calls'[d] # None
          /\ calls'[d].kind = gone[d].kind /\ calls'[d].key = gone[d].key
          /\ calls'[d].for = gone[d].for \cup {"refreshUser"}
          /\ calls'[d].at = gone[d].at /\ calls'[d].value = gone[d].value
          /\ calls'[d].current = gone[d].current /\ calls'[d].amid = gone[d].amid
      BY <1>1, <1>6, <2>1, <2>2, AttachedFacts
    <2>4. /\ calls'[c] = None /\ \A e \in Calls \ {c, d} : calls'[e] = calls[e]
          /\ calls'[d].kind = "get" /\ calls'[d].key = k
          /\ calls'[d].at = calls[d].at /\ calls'[d].value = calls[d].value
          /\ calls'[d].current = calls[d].current /\ calls'[d].amid = calls[d].amid
      BY <1>0, <2>1, <2>2, <2>3
    <2> HIDE DEF d
    <2>5. Live' = Live \ {c} /\ Saving' = Saving \ {c}
      <3>1. \A e \in Calls : calls'[e] # None <=> calls[e] # None /\ e # c
        BY <2>1, <2>3, <2>4
      <3>2. Live' = Live \ {c} BY <3>1 DEF Live
      <3>3. \A e \in Live \ {c} : calls'[e].kind = calls[e].kind BY <2>1, <2>4 DEF Live
      <3> QED BY <3>2, <3>3 DEF Saving
    <2>6. Quiet
      BY <1>0, <1>2, <2>5 DEF Quiet, CInv, CTypeOK, Versions, Saving, Live, ClientAssumption
    <2>7. PICK e \in Calls : e = d BY <2>1
    <2>8. Sound(calls[e])'
      <3>1. Sound(calls[e]) BY <2>1, <2>7 DEF CInv, CallsSound, Live
      <3>2. Saving = {} => Saving' = {} BY <2>5
      <3>3. calls'[e].key[2] = Me BY <1>1, <2>4, <2>7
      <3> QED BY <1>2, <2>1, <2>4, <2>7, <3>1, <3>2, <3>3 DEF Sound, AnswerOf, Versions
    <2>9. CallsSound' BY <2>3, <2>4, <2>6, <2>7, <2>8, OneCallStep
    <2>10. CacheSound' BY <1>2, <2>6, QuietCache
    <2>11. SharedIsUnderWay'
      <3>1. ASSUME NEW j \in Keys, shared'[j] # None
            PROVE  /\ calls'[shared'[j]] # None /\ calls'[shared'[j]].kind = "get"
                   /\ calls'[shared'[j]].key = j /\ calls'[shared'[j]].current
        <4>1. shared'[j] = shared[j] /\ shared[j] \in Calls /\ shared[j] # c
          BY <1>0, <1>4, <1>6, <3>1
        <4>2. /\ calls[shared[j]] # None /\ calls[shared[j]].kind = "get"
              /\ calls[shared[j]].key = j /\ calls[shared[j]].current
          BY <3>1, <4>1 DEF CInv, SharedIsUnderWay
        <4>3. CASE shared[j] = d BY <2>1, <2>3, <2>4, <4>1, <4>2, <4>3
        <4>4. CASE shared[j] # d BY <2>4, <4>1, <4>2, <4>4
        <4> QED BY <4>3, <4>4
      <3> QED BY <3>1 DEF SharedIsUnderWay
    <2>12. pending' = Cardinality(Live') BY <1>0, <1>6, <2>5, CountLess
    <2>13. CTypeOK' BY <1>0, <1>2, <1>6, <2>3, <2>12 DEF CInv, CTypeOK
    <2> QED BY <1>3, <2>9, <2>10, <2>11, <2>13 DEF CInv
  <1>7. CASE /\ calls' = [calls EXCEPT ![c] = Request("get", Me, "refreshUser", token, Saving \ {c})]
             /\ shared' = [shared EXCEPT ![k] = c] /\ UNCHANGED <<pending, user>>
    <2> DEFINE r == Request("get", Me, "refreshUser", token, Saving \ {c})
    <2>1. /\ r \in CallRecord /\ r # None /\ r.kind = "get" /\ r.key = k /\ r.current
      BY <1>0, <1>1, RequestFacts
    <2>2. PICK q : q = r OBVIOUS
    <2> HIDE DEF r, k
    <2>3. /\ calls' \in [Calls -> CallRecord \cup {None}] /\ calls'[c] = r
          /\ \A e \in Calls \ {c} : calls'[e] = calls[e]
      BY <1>0, <1>7, <2>1 DEF r
    <2>4. Live' = Live /\ Saving' = Saving \ {c}
      BY <1>0, <2>1, <2>3 DEF Live, Saving
    <2>5. Quiet
      BY <1>0, <1>2, <2>4 DEF Quiet, CInv, CTypeOK, Versions, Saving, Live, ClientAssumption
    <2>6. Sound(calls[c])'
      <3>1. Sound(q)' BY <1>0, <1>1, <2>2, <2>4, NewReadSound DEF r
      <3> QED BY <2>2, <2>3, <3>1 DEF Sound
    <2>7. CallsSound' BY <2>3, <2>5, <2>6, OneCallStep
    <2>8. CacheSound' BY <1>2, <2>5, QuietCache
    <2>9. \A j \in Keys : shared'[j] = IF j = k THEN c ELSE shared[j] BY <1>0, <1>7
    <2>10. SharedIsUnderWay' BY <1>0, <1>4, <2>1, <2>3, <2>9 DEF CInv, SharedIsUnderWay
    <2>11. shared' \in [Keys -> Calls \cup {None}] BY <1>0, <1>1, <1>7
    <2>12. CTypeOK' BY <1>0, <1>2, <1>7, <2>3, <2>4, <2>11 DEF CInv, CTypeOK
    <2> QED BY <1>3, <2>7, <2>8, <2>10, <2>12 DEF CInv
  <1> QED BY <1>5, <1>6, <1>7 DEF RefreshUser

\* The token is kept and /me is read with it: the only read that is current again.
LEMMA LoginAnsweredStep ==
  ASSUME ClientAssumption, CInv, NEW c \in Calls, LoginAnswered(c) PROVE CInv'
  <1> DEFINE t == calls[c].value
             k == <<t, Me>>
             r == Request("get", Me, "login", t, Saving)
  <1>0. /\ c \in Live /\ calls[c].kind = "login" /\ calls[c].at = "answered" /\ Sound(calls[c])
        /\ calls \in [Calls -> CallRecord \cup {None}] /\ pending = Cardinality(Live)
    BY DEF LoginAnswered, Answered, CInv, CTypeOK, CallsSound, Live
  <1>1. t \in Users BY <1>0 DEF Sound
  <1>2. k \in Keys /\ Me \in AllPaths /\ k[2] = Me /\ "login" \in Purposes
    BY <1>1, KeyFacts DEF AllPaths, Purposes
  <1>3. /\ UNCHANGED <<db, valid, pending, user, loading, saved>>
        /\ token' = t /\ completed' = NothingRead
        /\ calls' = [Outdated(calls) EXCEPT ![c] = r]
        /\ shared' = [NothingRead EXCEPT ![k] = c]
    BY DEF LoginAnswered, SetToken
  <1>4. /\ r \in CallRecord /\ r # None /\ r.kind = "get" /\ r.key = k /\ r.current
    BY <1>1, <1>2, RequestFacts
  <1>5. PICK q : q = r OBVIOUS
  <1> HIDE DEF r, k, t
  <1>6. /\ calls' \in [Calls -> CallRecord \cup {None}] /\ calls'[c] = r
        /\ \A d \in Calls \ {c} : calls'[d] = Outdated(calls)[d]
    <2>1. Outdated(calls) \in [Calls -> CallRecord \cup {None}] BY <1>0, OutdatedFacts
    <2>2. c \in Calls /\ r \in CallRecord \cup {None} BY <1>4
    <2> QED BY <1>3, <2>1, <2>2
  <1>7. Live' = Live /\ Saving' = Saving
    <2>1. \A d \in Calls : Outdated(calls)[d] = None <=> calls[d] = None
      BY <1>0, OutdatedFacts
    <2>2. \A d \in Live : Outdated(calls)[d].kind = calls[d].kind
      BY <1>0, OutdatedFacts DEF Live
    <2>3. \A d \in Calls : calls'[d] # None <=> calls[d] # None
      BY <1>0, <1>4, <1>6, <2>1 DEF Live
    <2>4. Live' = Live BY <2>3 DEF Live
    <2>5. \A d \in Live : calls'[d].kind = "save" <=> calls[d].kind = "save"
      BY <1>0, <1>4, <1>6, <2>2 DEF Live
    <2> QED BY <2>4, <2>5 DEF Saving
  <1>8. Sound(calls[c])'
    <2>1. Sound(q)' BY <1>1, <1>2, <1>5, <1>7, NewReadSound DEF r
    <2> QED BY <1>5, <1>6, <2>1 DEF Sound
  <1>9. CallsSound' /\ CacheSound' /\ completed' \in [Keys -> ReadValues \cup {None}]
    BY <1>0, <1>3, <1>6, <1>8, OutdateStep DEF Live
  <1>10. \A j \in Keys : shared'[j] = IF j = k THEN c ELSE None BY <1>3 DEF NothingRead
  <1>11. SharedIsUnderWay' BY <1>4, <1>6, <1>10 DEF SharedIsUnderWay
  <1>12. shared' \in [Keys -> Calls \cup {None}]
    BY <1>0, <1>2, <1>3 DEF NothingRead, Live
  <1>13. CTypeOK' BY <1>1, <1>3, <1>6, <1>7, <1>9, <1>12 DEF CInv, CTypeOK
  <1>14. SavedIsCommitted' BY <1>3 DEF CInv, SavedIsCommitted
  <1> QED BY <1>9, <1>11, <1>13, <1>14 DEF CInv

----------------------------------------------------------------------------
\* The tab is opened: at most one call is under way, which reads /me.
LEMMA ClientInitCInv == ASSUME ClientAssumption, ClientInit PROVE CInv
  <1>1. /\ db = [p \in Paths |-> 0] /\ saved = [p \in Paths |-> 0] /\ valid \subseteq Users
        /\ token \in Users \cup {None} /\ user = None /\ completed = NothingRead
        /\ loading \in BOOLEAN
    BY DEF ClientInit, LoadMe
  <1>2. 0 \in Versions BY DEF Versions, ClientAssumption
  <1>3. <<token, Me>> \in Keys /\ Me \in AllPaths /\ "loadMe" \in Purposes
    BY <1>1, KeyFacts DEF AllPaths, Purposes
  <1>4. PICK c \in Calls :
          /\ calls = [d \in Calls |-> IF d = c /\ loading
                        THEN Request("get", Me, "loadMe", token, {}) ELSE None]
          /\ shared = [k \in Keys |-> IF k = <<token, Me>> /\ loading THEN c ELSE None]
    BY DEF ClientInit, LoadMe
  <1> DEFINE r == Request("get", Me, "loadMe", token, {})
  <1>5. /\ r \in CallRecord /\ r # None /\ r.kind = "get" /\ r.key = <<token, Me>>
        /\ r.for = {"loadMe"} /\ r.at = "sent" /\ r.current
    BY <1>1, <1>3, RequestFacts
  <1> HIDE DEF r
  <1>6. \A d \in Calls : calls[d] = IF d = c /\ loading THEN r ELSE None BY <1>4 DEF r
  <1>7. calls \in [Calls -> CallRecord \cup {None}] BY <1>4, <1>5 DEF r
  <1>8. Live = IF loading THEN {c} ELSE {} BY <1>5, <1>6 DEF Live
  <1>9. Saving = {} BY <1>5, <1>6, <1>8 DEF Saving
  <1>10. pending = Cardinality(Live)
    <2>1. Cardinality({c}) = 1 /\ Cardinality({}) = 0 BY FS_Singleton, FS_EmptySet
    <2> QED BY <1>8, <2>1 DEF ClientInit, LoadMe
  <1>11. CTypeOK BY <1>1, <1>2, <1>4, <1>7, <1>10 DEF CTypeOK, NothingRead
  <1>12. SharedIsUnderWay BY <1>4, <1>5, <1>6 DEF SharedIsUnderWay
  <1>13. CallsSound
    <2>1. <<token, Me>>[2] = Me OBVIOUS
    <2>2. loading => Sound(r) BY <1>5, <1>9, <2>1 DEF Sound
    <2> QED BY <1>6, <1>8, <2>2 DEF CallsSound
  <1>14. CacheSound BY <1>1 DEF CacheSound, NothingRead
  <1>15. SavedIsCommitted BY <1>1 DEF SavedIsCommitted
  <1> QED BY <1>11, <1>12, <1>13, <1>14, <1>15 DEF CInv

LEMMA ClientNextCInv ==
  ASSUME ClientAssumption, CInv, [ClientNext]_clientVars PROVE CInv'
  <1>1. CASE UNCHANGED clientVars
    <2>1. Live' = Live /\ Saving' = Saving BY <1>1 DEF clientVars, Live, Saving
    <2> QED BY <1>1, <2>1 DEF clientVars, CInv, CTypeOK, SharedIsUnderWay, CallsSound, Sound,
                              CacheSound, SavedIsCommitted, AnswerOf, Versions
  <1>2. ASSUME NEW c \in Calls, SaveDepartment(c) PROVE CInv'
    BY <1>2, SendStep DEF SaveDepartment, AllPaths
  <1>3. ASSUME NEW c \in Calls,
               \/ Serve(c) \/ Hears(c)
               \/ GetSucceeds(c) \/ GetRefused(c) \/ BreaksDown(c)
               \/ SaveSucceeds(c) \/ RefreshUser(c) \/ LoginAnswered(c)
        PROVE  CInv'
    BY <1>3, ServeStep, HearsStep, GetSucceedsStep, GetFailsStep, GetBreaksDownStep, FailsStep,
       SaveSucceedsStep, RefreshUserStep, LoginAnsweredStep DEF GetRefused, BreaksDown
  <1>4. ASSUME NEW c \in Calls, NEW p \in Paths, PageSaves(c, p) PROVE CInv'
    BY <1>4, SendStep DEF PageSaves, AllPaths
  <1> QED
    BY <1>1, <1>2, <1>3, <1>4, LogoutStep, LoginStep, PageReadsStep, ExpiresStep,
       SavedElsewhereStep, TokenExpiresStep DEF ClientNext

\* The inductive invariant holds of every state of the tab.
LEMMA CInvAlways == ASSUME ClientAssumption PROVE ClientSpec => []CInv
  <1>1. ClientInit => CInv BY ClientInitCInv
  <1>2. CInv /\ [ClientNext]_clientVars => CInv' BY ClientNextCInv
  <1> QED BY <1>1, <1>2, PTL DEF ClientSpec

\* The tables of the request layer are sound, whatever reads, saves, retries, sign-ins
\* and sign-outs a tab interleaves: the indicator counts the calls under way exactly, and
\* nobody attaches to a read that has settled, is out of date or reads something else.
THEOREM CacheAlwaysSound == ASSUME ClientAssumption PROVE ClientSpec => []CacheIsSound
  <1>1. CInv => CacheIsSound BY DEF CInv, CacheIsSound
  <1> QED BY <1>1, CInvAlways, PTL

\* A page is never told less than this tab has saved, by the cache or by a shared read,
\* unless the read began while another of the tab's saves was under way.
THEOREM ReadsAlwaysSeeOwnSaves == ASSUME ClientAssumption PROVE ClientSpec => []ReadsSeeOwnSaves
  <1>1. ASSUME CInv, NEW t \in Users, NEW p \in Paths
        PROVE  /\ completed[<<t, p>>] # None /\ ~completed[<<t, p>>].amid
                    => completed[<<t, p>>].value >= saved[p]
               /\ shared[<<t, p>>] # None =>
                    LET c == calls[shared[<<t, p>>]] IN
                    c.at = "answered" /\ ~c.amid => c.value >= saved[p]
    <2>1. <<t, p>> \in Keys /\ <<t, p>>[2] = p BY KeyFacts DEF AllPaths
    <2>2. shared[<<t, p>>] # None =>
            LET c == calls[shared[<<t, p>>]] IN
            /\ shared[<<t, p>>] \in Live /\ c.kind = "get" /\ c.key = <<t, p>> /\ c.current
      BY <1>1, <2>1 DEF CInv, CTypeOK, SharedIsUnderWay, Live
    <2>3. shared[<<t, p>>] # None =>
            LET c == calls[shared[<<t, p>>]] IN
            c.at = "answered" /\ ~c.amid => c.value >= saved[p]
      BY <1>1, <2>1, <2>2 DEF CInv, CallsSound, Sound
    <2>4. completed[<<t, p>>] # None /\ ~completed[<<t, p>>].amid
            => completed[<<t, p>>].value >= saved[p]
      BY <1>1, <2>1 DEF CInv, CacheSound
    <2> QED BY <2>3, <2>4
  <1>2. CInv => ReadsSeeOwnSaves BY <1>1 DEF ReadsSeeOwnSaves
  <1> QED BY <1>2, CInvAlways, PTL

=============================================================================
