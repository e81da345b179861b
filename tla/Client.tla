------------------------------- MODULE Client -------------------------------
(* One browser tab: the request layer of api.ts (a short-lived cache of reads,  *)
(* shared reads in flight, one retry of a read, an abort timer) and the session *)
(* of context/AuthContext.tsx on top of it. The server is a table of versions,  *)
(* one for every path, that this tab and other people save to.                  *)
EXTENDS Naturals, FiniteSets

CONSTANTS
  Users,       \* the people who sign in in this tab; a token is named after its owner
  FirstTimers, \* those the department prompt stops after signing in
  Paths,       \* what the pages read and save
  Me,          \* the path /api/auth/me, which is not one of Paths
  Calls,       \* identities for requests in flight
  MaxVersion,  \* bound on the saves of one path
  None

ASSUME ClientAssumption ==
  /\ FirstTimers \subseteq Users /\ Me \notin Paths /\ MaxVersion \in Nat
  /\ IsFiniteSet(Calls)
  /\ None \notin Users \cup Paths \cup Calls

VARIABLES
  db,        \* db[p]: the version of p the server has committed
  valid,     \* the tokens the server still accepts
  token,     \* localStorage's qa_portal_token
  completed, \* completed[k]: completedGets, what was last read under key k
  shared,    \* shared[k]: inFlightGets, the call later readers of k attach to
  calls,     \* the requests that have not settled
  pending,   \* pendingRequests, what the activity indicator shows
  user,      \* the person the pages are rendered for
  loading,   \* no page is rendered before the stored token is tried
  saved      \* saved[p]: the newest version this tab was told it saved (history)

clientVars == <<db, valid, token, completed, shared, calls, pending, user, loading, saved>>

AllPaths == Paths \cup {Me}
Keys == (Users \cup {None}) \X AllPaths
Versions == 0..MaxVersion
\* What the answer of a read is: a version of a path, or a person.
Values == Versions \cup Users \cup {None}

\* What becomes of an answer: nothing but a page's state, or a step of the session.
Purposes == {"page", "loadMe", "login", "refreshUser", "department"}

\* current says that no save and no change of token has begun since the call did
\* (requestGeneration === cacheGeneration); amid, that one was under way when it did.
\* failed is a gateway's error in place of an answer. heard says that headers have come
\* back: fetch resolves with them, and the abort timer is cleared (api.ts:146-148).
CallRecord ==
  [kind : {"get", "save", "login"}, as : Users \cup {None}, key : Keys,
   for : SUBSET Purposes, at : {"sent", "answered", "refused", "failed"},
   heard : BOOLEAN, value : Values, tries : 1..2, current : BOOLEAN, amid : BOOLEAN]

\* What the cache keeps of an answer.
ReadValues == [value : Values, amid : BOOLEAN]

ASSUME NoneIsNoRecord == None \notin CallRecord \cup ReadValues

Live == {c \in Calls : calls[c] # None}
Saving == {c \in Live : calls[c].kind = "save"}

NothingRead == [k \in Keys |-> None]

----------------------------------------------------------------------------
(* api.ts *)

Request(kind, p, why, t, other) ==
  [kind |-> kind, as |-> t, key |-> <<t, p>>, for |-> {why}, at |-> "sent",
   heard |-> FALSE, value |-> None, tries |-> 1, current |-> TRUE, amid |-> other # {}]

NewCall(kind, p, why) == Request(kind, p, why, token, Saving)

\* (Operators named Bug... are not part of the specification: each one is what
\* the definition after it would be with a mistake in the code.)
BugGenerationKept(cs) == cs

\* What a save and a change of token do to the reads before them.
Outdated(cs) ==
  [c \in Calls |-> IF cs[c] = None THEN None ELSE [cs[c] EXCEPT !.current = FALSE]]

BugSharedKept(c, kind, p, why) ==
  /\ calls[c] = None
  /\ calls' = [Outdated(calls) EXCEPT ![c] = NewCall(kind, p, why)]
  /\ completed' = NothingRead
  /\ pending' = pending + 1
  /\ UNCHANGED shared

\* request() for anything but a GET: the caches are emptied as it is sent.
Send(c, kind, p, why) ==
  /\ calls[c] = None
  /\ calls' = [Outdated(calls) EXCEPT ![c] = NewCall(kind, p, why)]
  /\ completed' = NothingRead
  /\ shared' = NothingRead
  /\ pending' = pending + 1

Attached(cs, k, why) == [cs EXCEPT ![shared[k]].for = @ \cup {why}]

\* request() for a GET that the cache does not answer: a reader attaches itself to
\* a read of the same key in flight, or sends one of its own.
Fetch(c, p, why) ==
  LET k == <<token, p>> IN
  IF shared[k] # None
  THEN calls' = Attached(calls, k, why) /\ UNCHANGED <<shared, pending>>
  ELSE /\ calls[c] = None
       /\ calls' = [calls EXCEPT ![c] = NewCall("get", p, why)]
       /\ shared' = [shared EXCEPT ![k] = c]
       /\ pending' = pending + 1

\* setToken: another token, and nothing read with the one before is used again.
SetToken(t) ==
  /\ token' = t
  /\ completed' = NothingRead

----------------------------------------------------------------------------
(* AuthContext.tsx *)

\* loadMe: the tab is opened, with or without a token of an earlier visit. With one,
\* /me is read before a page is rendered; the sign-in page does not wait for it.
LoadMe ==
  /\ loading = (token # None)
  /\ pending = IF loading THEN 1 ELSE 0
  /\ \E c \in Calls :
       /\ calls = [d \in Calls |-> IF d = c /\ loading
                                THEN Request("get", Me, "loadMe", token, {}) ELSE None]
       /\ shared = [k \in Keys |-> IF k = <<token, Me>> /\ loading THEN c ELSE None]

ClientInit ==
  /\ db = [p \in Paths |-> 0]
  /\ valid \in SUBSET Users
  /\ token \in Users \cup {None}
  /\ LoadMe
  /\ completed = NothingRead
  /\ user = None
  /\ saved = [p \in Paths |-> 0]

\* The form of Login.tsx, whose button is disabled while a sign-in is under way. Its
\* route asks neither for loading to be over nor for nobody to be signed in.
Login(c, u) ==
  /\ \A d \in Live : calls[d].kind # "login" /\ "login" \notin calls[d].for
  /\ calls[c] = None
  /\ calls' = [Outdated(calls) EXCEPT ![c] =
                 [NewCall("login", Me, "page") EXCEPT !.value = u]]
  /\ completed' = NothingRead
  /\ shared' = NothingRead
  /\ pending' = pending + 1
  /\ UNCHANGED <<db, valid, token, user, loading, saved>>

\* The audit call is sent with the old token; nobody waits for its answer, and what
\* it does to the caches setToken does again.
Logout ==
  /\ user # None
  /\ SetToken(None)
  /\ calls' = Outdated(calls)
  /\ shared' = NothingRead
  /\ user' = None
  /\ UNCHANGED <<db, valid, pending, loading, saved>>

BugLoadsOnSuccess(for, me) ==
  /\ user' = IF for \cap {"loadMe", "login", "refreshUser"} = {} THEN user
             ELSE IF me = None /\ "loadMe" \notin for THEN user ELSE me
  /\ token' = IF me = None /\ "loadMe" \in for THEN None ELSE token
  /\ loading' = IF "loadMe" \in for /\ me # None THEN FALSE ELSE loading

\* The session's share in a read of /me that has settled.
SessionHears(for, me) ==
  /\ user' = IF for \cap {"loadMe", "login", "refreshUser"} = {} THEN user
             ELSE IF me = None /\ "loadMe" \notin for THEN user ELSE me
  /\ token' = IF me = None /\ "loadMe" \in for THEN None ELSE token
  /\ loading' = IF "loadMe" \in for THEN FALSE ELSE loading

----------------------------------------------------------------------------
(* The pages. *)

\* A page reads: at once from the cache, or from the server.
PageReads(c, p) ==
  /\ user # None
  /\ completed[<<token, p>>] = None
  /\ Fetch(c, p, "page")
  /\ UNCHANGED <<db, valid, token, completed, user, loading, saved>>

PageSaves(c, p) ==
  /\ user # None
  /\ Send(c, "save", p, "page")
  /\ UNCHANGED <<db, valid, token, user, loading, saved>>

\* The department prompt, on top of the page of somebody who has none yet; its
\* button is disabled while it saves, its way out ("Log out instead") is not.
SaveDepartment(c) ==
  /\ user \in FirstTimers
  /\ \A d \in Live : calls[d].for \cap {"department", "refreshUser"} = {}
  /\ Send(c, "save", Me, "department")
  /\ UNCHANGED <<db, valid, token, user, loading, saved>>

\* GET_CACHE_TTL_MS is over for one read.
Expires(k) ==
  /\ completed[k] # None
  /\ completed' = [completed EXCEPT ![k] = None]
  /\ UNCHANGED <<db, valid, token, shared, calls, pending, user, loading, saved>>

----------------------------------------------------------------------------
(* The server and the network. *)

Handled(c, at, v) ==
  /\ calls' = [calls EXCEPT ![c].at = at, ![c].value = v]
  /\ UNCHANGED <<token, completed, shared, pending, user, loading, saved>>

\* The server handles a request it was sent; every request but a login needs a token.
Serve(c) ==
  /\ c \in Live /\ calls[c].at = "sent"
  /\ LET k == calls[c]  p == k.key[2] IN
     \/ /\ k.kind = "login"
        /\ valid' = valid \cup {k.value}
        /\ Handled(c, "answered", k.value)
        /\ UNCHANGED db
     \/ /\ k.kind # "login" /\ k.as \notin valid
        /\ Handled(c, "refused", None)
        /\ UNCHANGED <<db, valid>>
     \/ /\ k.kind = "get" /\ k.as \in valid
        /\ Handled(c, "answered", IF p = Me THEN k.as ELSE db[p])
        /\ UNCHANGED <<db, valid>>
     \/ /\ k.kind = "save" /\ k.as \in valid /\ p = Me
        /\ Handled(c, "answered", None)
        /\ UNCHANGED <<db, valid>>
     \/ /\ k.kind = "save" /\ k.as \in valid /\ p \in Paths /\ db[p] < MaxVersion
        /\ db' = [db EXCEPT ![p] = @ + 1]
        /\ Handled(c, "answered", db[p] + 1)
        /\ UNCHANGED valid

\* The headers of the server's answer arrive, or those of a gateway that could not get
\* one; the body is still to come. What the server does after that, it does unheard.
Hears(c) ==
  /\ c \in Live /\ ~calls[c].heard
  /\ \/ calls[c].at # "sent" /\ calls' = [calls EXCEPT ![c].heard = TRUE]
     \/ calls' = [calls EXCEPT ![c].heard = TRUE, ![c].at = "failed", ![c].value = None]
  /\ UNCHANGED <<db, valid, token, completed, shared, pending, user, loading, saved>>

\* Somebody else saves, or a save of this tab that was given up is committed.
SavedElsewhere(p) ==
  /\ db[p] < MaxVersion
  /\ db' = [db EXCEPT ![p] = @ + 1]
  /\ UNCHANGED <<valid, token, completed, shared, calls, pending, user, loading, saved>>

\* ACCESS_TOKEN_EXPIRE_MINUTES are over.
TokenExpires(u) ==
  /\ u \in valid
  /\ valid' = valid \ {u}
  /\ UNCHANGED <<db, token, completed, shared, calls, pending, user, loading, saved>>

----------------------------------------------------------------------------
(* How a call settles. *)

Answered(c) == calls[c].at = "answered" /\ calls[c].heard
Refused(c)  == calls[c].at = "refused" /\ calls[c].heard

\* A newer read registered under the same key stays registered.
Unregister(c) == [k \in Keys |-> IF shared[k] = c THEN None ELSE shared[k]]

\* A read succeeds: cached if nothing was saved since it began.
Remembers(c) ==
  IF calls[c].current
  THEN [completed EXCEPT ![calls[c].key] = [value |-> calls[c].value, amid |-> calls[c].amid]]
  ELSE completed

GetSucceeds(c) ==
  /\ c \in Live /\ calls[c].kind = "get" /\ Answered(c)
  /\ completed' = Remembers(c)
  /\ shared' = Unregister(c)
  /\ calls' = [calls EXCEPT ![c] = None]
  /\ pending' = pending - 1
  /\ SessionHears(calls[c].for, calls[c].value)
  /\ UNCHANGED <<db, valid, saved>>

\* A read fails for good. A failed loadMe forgets the token, whichever it is by now.
GetFails(c) ==
  /\ c \in Live /\ calls[c].kind = "get"
  /\ SessionHears(calls[c].for, None)
  /\ calls' = [(IF "loadMe" \in calls[c].for THEN Outdated(calls) ELSE calls)
                 EXCEPT ![c] = None]
  /\ shared' = IF "loadMe" \in calls[c].for THEN NothingRead ELSE Unregister(c)
  /\ completed' = IF "loadMe" \in calls[c].for THEN NothingRead ELSE completed
  /\ pending' = pending - 1
  /\ UNCHANGED <<db, valid, saved>>

GetRefused(c) == c \in Live /\ Refused(c) /\ GetFails(c)

\* A read breaks down and is tried once more, with the token of that moment (the wait
\* before that shows nowhere, so it is part of the breakdown). The body of a refusal
\* that is lost leaves the refusal.
GetBreaksDown(c) ==
  /\ c \in Live /\ calls[c].kind = "get" /\ ~Refused(c)
  /\ \/ calls[c].tries = 2 /\ GetFails(c)
     \/ /\ calls[c].tries = 1
        /\ calls' = [calls EXCEPT ![c].tries = 2, ![c].at = "sent", ![c].heard = FALSE,
                                  ![c].as = token, ![c].value = None]
        /\ UNCHANGED <<db, valid, token, completed, shared, pending, user, loading, saved>>

\* The page is told that its save, or the form that its sign-in, has failed.
Fails(c) ==
  /\ c \in Live /\ calls[c].kind \in {"save", "login"}
  /\ calls' = [calls EXCEPT ![c] = None]
  /\ pending' = pending - 1
  /\ UNCHANGED <<db, valid, token, completed, shared, user, loading, saved>>

\* The abort timer, a connection or a body that is lost, or a gateway's error, whether or
\* not the server has handled the request.
BreaksDown(c) == GetBreaksDown(c) \/ Fails(c)

SaveSucceeds(c) ==
  /\ c \in Live /\ calls[c].kind = "save" /\ Answered(c)
  /\ "department" \notin calls[c].for
  /\ calls' = [calls EXCEPT ![c] = None]
  /\ pending' = pending - 1
  /\ saved' = IF calls[c].key[2] \in Paths
              THEN [saved EXCEPT ![calls[c].key[2]] = calls[c].value] ELSE saved
  /\ UNCHANGED <<db, valid, token, completed, shared, user, loading>>

\* The department is saved: refreshUser reads /me again, with the token of now.
RefreshUser(c) ==
  LET k == <<token, Me>>  gone == [calls EXCEPT ![c] = None] IN
  /\ c \in Live /\ calls[c].kind = "save" /\ Answered(c)
  /\ "department" \in calls[c].for
  /\ \/ /\ completed[k] # None
        /\ user' = completed[k].value
        /\ calls' = gone /\ pending' = pending - 1 /\ UNCHANGED shared
     \/ /\ completed[k] = None /\ shared[k] # None
        /\ calls' = Attached(gone, k, "refreshUser")
        /\ pending' = pending - 1 /\ UNCHANGED <<shared, user>>
     \/ /\ completed[k] = None /\ shared[k] = None
        /\ calls' = [calls EXCEPT ![c] = Request("get", Me, "refreshUser", token, Saving \ {c})]
        /\ shared' = [shared EXCEPT ![k] = c]
        /\ UNCHANGED <<pending, user>>
  /\ UNCHANGED <<db, valid, token, completed, loading, saved>>

\* The answer to a sign-in: its token is kept and /me is read with it.
LoginAnswered(c) ==
  /\ c \in Live /\ calls[c].kind = "login" /\ Answered(c)
  /\ SetToken(calls[c].value)
  /\ calls' = [Outdated(calls) EXCEPT ![c] =
                 Request("get", Me, "login", calls[c].value, Saving)]
  /\ shared' = [NothingRead EXCEPT ![<<calls[c].value, Me>>] = c]
  /\ UNCHANGED <<db, valid, pending, user, loading, saved>>

----------------------------------------------------------------------------
ClientNext ==
  \/ \E c \in Calls :
       \/ SaveDepartment(c) \/ Serve(c) \/ Hears(c)
       \/ GetSucceeds(c) \/ GetRefused(c) \/ BreaksDown(c)
       \/ SaveSucceeds(c) \/ RefreshUser(c) \/ LoginAnswered(c)
  \/ Logout
  \/ \E c \in Calls, u \in Users : Login(c, u)
  \/ \E c \in Calls, p \in Paths : PageReads(c, p) \/ PageSaves(c, p)
  \/ \E k \in Keys : Expires(k)
  \/ \E p \in Paths : SavedElsewhere(p)
  \/ \E u \in Users : TokenExpires(u)

TimerRuns(c) == calls[c] # None /\ ~calls[c].heard

\* Only the tab's own abort timer is fair, and it runs until the headers arrive: nothing
\* is assumed of the network, not even that a body that has begun ever ends.
ClientSpec ==
  /\ ClientInit /\ [][ClientNext]_clientVars
  /\ \A c \in Calls : WF_clientVars(TimerRuns(c) /\ BreaksDown(c))

----------------------------------------------------------------------------
CTypeOK ==
  /\ db \in [Paths -> Versions] /\ saved \in [Paths -> Versions]
  /\ valid \subseteq Users /\ token \in Users \cup {None} /\ user \in Users \cup {None}
  /\ completed \in [Keys -> ReadValues \cup {None}]
  /\ shared \in [Keys -> Calls \cup {None}]
  /\ calls \in [Calls -> CallRecord \cup {None}]
  /\ loading \in BOOLEAN
  /\ pending = Cardinality(Live)

\* What a page is told under a cached key, or by the read it would attach to, is no
\* older than what this tab has saved, unless the read began while another of its
\* saves was under way: the one hole of the cache of api.ts, whatever the order in
\* which saves, reads, retries and sign-outs end.
ReadsSeeOwnSaves ==
  \A t \in Users, p \in Paths :
    /\ completed[<<t, p>>] # None /\ ~completed[<<t, p>>].amid
         => completed[<<t, p>>].value >= saved[p]
    /\ shared[<<t, p>>] # None =>
         LET c == calls[shared[<<t, p>>]] IN
         c.at = "answered" /\ ~c.amid => c.value >= saved[p]

\* The read later readers attach to is one that has not settled, asked for under their
\* key and before no save and no change of token: an older read that ends late takes
\* neither its own registration's place nor that of a newer one.
SharedIsUnderWay ==
  \A k \in Keys :
    shared[k] # None =>
      LET c == calls[shared[k]] IN
      c # None /\ c.kind = "get" /\ c.key = k /\ c.current

\* The tables of api.ts are sound: typed, the counter of the indicator exact, and shared
\* reads those that are under way.
CacheIsSound == CTypeOK /\ SharedIsUnderWay

Stalled(c) == calls[c] # None /\ calls[c].heard

\* The first page, or the sign-in page, is rendered at last: no failure of /me, of the
\* network or of the token leaves the tab at its loading screen, but a body that stalls.
Opens == <>[](~loading \/ \E c \in Calls : Stalled(c) /\ "loadMe" \in calls[c].for)

\* A busy button is released: every request settles, those that are retried and those
\* that go on with another read included, unless its own body stalls.
Settles == \A c \in Calls : []<>(calls[c] = None) \/ <>[]Stalled(c)

\* The tab comes to rest: its first page is rendered and its buttons are released. What
\* the code has no timer for is the body of an answer once its headers are there.
ComesToRest == Opens /\ Settles

=============================================================================
