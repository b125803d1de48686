---------------------------- MODULE IngressSession ----------------------------
(***************************************************************************)
(* Log-in to the dropbox through Home Assistant: the page's side is        *)
(* App.tsx with lib/api.ts and pages/Login.tsx, the server's side the      *)
(* routes of server.ts with ingress.ts and the administrators' cache of    *)
(* ha-admin.ts.  One Home Assistant user, who may be made and unmade an    *)
(* administrator; nobody is on the explicit allowlist.                     *)
(*                                                                         *)
(* A token is the second it expires at: two tokens minted for the same     *)
(* user in the same second are the same string.  Each attempt to connect   *)
(* has one request under way, and so have the page's other calls (slot     *)
(* Other) and a key typed into the log-in form (slot Login).               *)
(***************************************************************************)
EXTENDS Integers

CONSTANTS TokenTtl, CacheTtl, RetryTtl, LookupTtl,  \* 300, 60, 5 and 3 seconds
          RenewLead,     \* a token is renewed so long before its end: 60 s
          MaxNow,        \* bound: the clock
          MaxAttempts,   \* bound: attempts to connect
          MaxChanges     \* bound: changes of the user's role

ASSUME IngressAssumption ==
  /\ {TokenTtl, CacheTtl, RetryTtl, LookupTtl, RenewLead, MaxNow, MaxAttempts, MaxChanges} \subseteq Nat
  /\ TokenTtl > 0 /\ MaxAttempts > 0

Other == 0
Login == MaxAttempts + 1
Slots == 0..Login
NoToken == 0
Times == 0..(MaxNow + TokenTtl + CacheTtl + RetryTtl)

VARIABLES now,
          admin, lastAdmin, changes,  \* Home Assistant: the user's role, when last held
          ids, expires,    \* adminChecker: does the cached set hold the user, and until when
          lookup,          \* its pending load, NoLookup if there is none
          req,             \* per slot, the request under way
          attempt,         \* attemptRef
          ingressSession,  \* the token
          config, expiry,  \* config (by what means) and sessionExpiry
          known,           \* ingressIdentityRef holds a user
          checking, saved, \* checking; the key in sessionStorage
          gone             \* history: Disconnect was pressed, and nothing since

server == <<admin, lastAdmin, changes, ids, expires, lookup>>
page == <<attempt, ingressSession, config, expiry, known, checking, saved, gone>>
ivars == <<now, server, req, page>>

NoLookup == [since |-> 0, value |-> "none"]
Idle == [what |-> "none", cred |-> "none", stage |-> "idle", then |-> "none", token |-> NoToken]
Request(what, cred, token, then) ==
  [what |-> what, cred |-> cred, stage |-> "sent", then |-> then, token |-> token]

IngressTypeOK ==
  /\ now \in 0..MaxNow /\ {expires, expiry, ingressSession, lastAdmin} \subseteq Times
  /\ {admin, ids, known, checking, gone} \subseteq BOOLEAN
  /\ changes \in 0..MaxChanges /\ attempt \in 0..MaxAttempts
  /\ lookup \in [since : Times, value : {"none", "asked", "yes", "no"}]
  /\ config \in {"none", "ingress", "manual"} /\ saved \in {"none", "good", "bad"}
  /\ req \in [Slots -> [what : {"none", "auth", "api"}, cred : {"none", "token", "good", "bad"},
                        stage : {"idle", "sent", "waiting", "ok", "denied", "error"},
                        then : {"none", "config", "saved", "again"}, token : Times]]

\* The page is loaded: connectThroughIngress(true) has begun.
IngressInit ==
  /\ now = 0
  /\ admin \in BOOLEAN /\ lastAdmin = 0 /\ changes = 0
  /\ ids = FALSE /\ expires = 0 /\ lookup = NoLookup
  /\ attempt = 1 /\ ingressSession = NoToken /\ config = "none" /\ expiry = NoToken
  /\ known = FALSE /\ checking = TRUE /\ saved \in {"none", "good", "bad"} /\ gone = FALSE
  /\ req = [s \in Slots |-> IF s = 1 THEN Request("auth", "none", NoToken, "none") ELSE Idle]

-----------------------------------------------------------------------------
\* The server.  What a request is answered when the user is in the set g.
Verdict(r, g) ==
  IF \/ r.what = "auth" /\ g
     \/ r.cred = "good"
     \/ r.cred = "token" /\ g /\ r.token > now /\ r.token <= now + TokenTtl
  THEN [r EXCEPT !.stage = "ok", !.token = IF r.what = "auth" THEN now + TokenTtl ELSE @]
  ELSE [r EXCEPT !.stage = "denied"]

\* A request comes in: within the cache's time it is answered from it, beyond
\* it the lookup under way is waited for, or one is begun.
Receive(s) ==
  /\ req[s].stage = "sent"
  /\ IF now >= expires
       THEN /\ req' = [req EXCEPT ![s].stage = "waiting"]
            /\ lookup' = IF lookup = NoLookup THEN [since |-> now, value |-> "asked"] ELSE lookup
       ELSE req' = [req EXCEPT ![s] = Verdict(@, ids)] /\ UNCHANGED lookup
  /\ UNCHANGED <<now, admin, lastAdmin, changes, ids, expires, page>>

\* Home Assistant reads its directory.
DirectoryRead ==
  /\ lookup.value = "asked"
  /\ lookup' = [lookup EXCEPT !.value = IF admin THEN "yes" ELSE "no"]
  /\ UNCHANGED <<now, admin, lastAdmin, changes, ids, expires, req, page>>

\* Mutant: a failed load keeps what was known before.
GrantLoadedKeeping(ok) ==
  /\ ids' = IF ok THEN lookup.value = "yes" ELSE ids
  /\ expires' = now + (IF ok THEN CacheTtl ELSE RetryTtl)

\* The load is over: its set is kept for a minute, a failure counts as an
\* empty set for five seconds.
GrantLoaded(ok) ==
  /\ ids' = (ok /\ lookup.value = "yes")
  /\ expires' = now + (IF ok THEN CacheTtl ELSE RetryTtl)

\* Whoever waits goes on at once.  A load fails at any moment: an error, a
\* closed socket, three seconds without an answer.
LookupEnds(ok) ==
  /\ lookup # NoLookup /\ (ok => lookup.value \in {"yes", "no"})
  /\ GrantLoaded(ok)
  /\ lookup' = NoLookup
  /\ req' = [s \in Slots |-> IF req[s].stage = "waiting" THEN Verdict(req[s], ids') ELSE req[s]]
  /\ UNCHANGED <<now, admin, lastAdmin, changes, page>>

RequestLost(s) ==
  /\ req[s].stage \in {"sent", "waiting"}
  /\ req' = [req EXCEPT ![s].stage = "error"]
  /\ UNCHANGED <<now, server, page>>

RoleChanges ==
  /\ changes < MaxChanges
  /\ changes' = changes + 1 /\ admin' = ~admin /\ lastAdmin' = now
  /\ UNCHANGED <<now, ids, expires, lookup, req, page>>

\* A lookup never takes longer than its timer.
Tick ==
  /\ now < MaxNow
  /\ lookup # NoLookup => now < lookup.since + LookupTtl
  /\ now' = now + 1
  /\ lastAdmin' = IF admin THEN now + 1 ELSE lastAdmin
  /\ UNCHANGED <<admin, changes, ids, expires, lookup, req, page>>

-----------------------------------------------------------------------------
\* The page.  Started(s): the requests once attempt s has sent its first.
Started(s) == [req EXCEPT ![s] = Request("auth", "none", NoToken, "none")]

\* connectThroughIngress(false), by the button of the log-in form or the timer.
Start ==
  /\ attempt < MaxAttempts
  /\ attempt' = attempt + 1 /\ checking' = TRUE
  /\ req' = Started(attempt + 1)

Button ==
  /\ config = "none" /\ ~checking
  /\ Start
  /\ gone' = FALSE
  /\ UNCHANGED <<now, server, ingressSession, config, expiry, known, saved>>

Timer ==
  /\ expiry # NoToken /\ ingressSession # NoToken /\ now >= expiry - RenewLead
  /\ req[attempt].stage = "idle"
  /\ Start
  /\ UNCHANGED <<now, server, ingressSession, config, expiry, known, saved, gone>>

\* Only the attempt of the page's load falls back on a saved key.
Fallback(a) == a = 1 /\ saved # "none"

\* An attempt gives up: log-in form, no session.
GiveUp == config' = "none" /\ expiry' = NoToken /\ checking' = FALSE

\* Mutant: the attempt under way is not called off.
AuthFailedGoesOn(id) ==
  /\ ingressSession' = NoToken /\ expiry' = NoToken /\ config' = "none" /\ checking' = FALSE
  /\ saved' = IF id \/ known THEN saved ELSE "none"
  /\ UNCHANGED <<attempt, known, gone>>

\* handleAuthFailed; id says whether the session named the user.
AuthFailed(id) ==
  /\ attempt < MaxAttempts /\ attempt' = attempt + 1
  /\ ingressSession' = NoToken /\ expiry' = NoToken /\ config' = "none" /\ checking' = FALSE
  /\ saved' = IF id \/ known THEN saved ELSE "none"
  /\ UNCHANGED <<known, gone>>

\* failClosedOnUnauthorized: only the refusal of the session's own token.
Refused(r) == r.stage = "denied" /\ r.what = "api" /\ ingressSession # NoToken
                /\ r.cred = "token" /\ r.token = ingressSession

\* attempt === attemptRef.current
Current(a) == a = attempt

\* The catch of connectThroughIngress.
Caught(a) ==
  /\ IF ~Current(a) THEN UNCHANGED <<ingressSession, config, expiry, checking>> /\ req' = [req EXCEPT ![a] = Idle]
     ELSE /\ ingressSession' = NoToken
          /\ IF Fallback(a)
               THEN /\ req' = [req EXCEPT ![a] = Request("api", saved, NoToken, "again")]
                    /\ UNCHANGED <<config, expiry, checking>>
               ELSE GiveUp /\ req' = [req EXCEPT ![a] = Idle]
  /\ UNCHANGED <<attempt, known, saved, gone>>

\* The answer of auth/ingress.
HandleAuth(a) ==
  LET r == req[a] IN
  /\ r.what = "auth" /\ r.stage \in {"ok", "denied", "error"}
  /\ CASE r.stage = "error" -> Caught(a)
       [] r.stage # "error" /\ ~Current(a) -> req' = [req EXCEPT ![a] = Idle] /\ UNCHANGED page
       [] r.stage = "ok" /\ Current(a) ->
            /\ ingressSession' = r.token
            /\ req' = [req EXCEPT ![a] = Request("api", "token", r.token, "config")]
            /\ UNCHANGED <<attempt, config, expiry, known, checking, saved, gone>>
       [] r.stage = "denied" /\ Current(a) ->
            /\ ingressSession' = NoToken
            /\ IF Fallback(a)
                 THEN /\ expiry' = NoToken /\ UNCHANGED <<config, checking>>
                      /\ req' = [req EXCEPT ![a] = Request("api", saved, NoToken, "saved")]
                 ELSE GiveUp /\ req' = [req EXCEPT ![a] = Idle]
            /\ UNCHANGED <<attempt, known, saved, gone>>
  /\ UNCHANGED <<now, server>>

\* The answer of api/config to an attempt, for its token or the saved key.
HandleConfig(a) ==
  LET r == req[a]
      Done == req' = [req EXCEPT ![a] = Idle] IN
  /\ r.what = "api" /\ r.stage \in {"ok", "denied", "error"}
  /\ CASE r.stage = "ok" /\ ~Current(a) -> Done /\ UNCHANGED page
       [] r.stage = "ok" /\ Current(a) /\ r.then = "config" ->
            /\ config' = "ingress" /\ expiry' = r.token /\ known' = TRUE /\ checking' = FALSE
            /\ Done /\ UNCHANGED <<attempt, ingressSession, saved, gone>>
       [] r.stage = "ok" /\ Current(a) /\ r.then # "config" ->
            /\ config' = "manual" /\ checking' = FALSE
            /\ Done /\ UNCHANGED <<attempt, ingressSession, expiry, known, saved, gone>>
       \* the page has logged out on the refusal, and the attempt is a former one
       [] r.stage # "ok" /\ Refused(r) -> AuthFailed(FALSE) /\ Done
       [] r.stage # "ok" /\ ~Refused(r) /\ r.then # "again" -> Caught(a)
       \* the last resort failed: nothing here asks whether the attempt is current
       [] r.stage # "ok" /\ ~Refused(r) /\ r.then = "again" ->
            /\ saved' = "none" /\ config' = "none" /\ expiry' = NoToken
            /\ checking' = (IF Current(a) THEN FALSE ELSE checking)
            /\ Done /\ UNCHANGED <<attempt, ingressSession, known, gone>>
  /\ UNCHANGED <<now, server>>

\* The page's other calls: the listing, a preview, an upload, the signaling
\* client's new token; the answer may come after the page has left.
Call ==
  /\ config # "none" /\ req[Other].stage = "idle"
  /\ req' = [req EXCEPT ![Other] = IF ingressSession # NoToken THEN Request("api", "token", ingressSession, "none")
                                   ELSE Request("api", saved, NoToken, "none")]
  /\ UNCHANGED <<now, server, page>>

CallEnds ==
  /\ req[Other].stage \in {"ok", "denied", "error"}
  /\ req' = [req EXCEPT ![Other] = Idle]
  /\ IF Refused(req[Other]) THEN AuthFailed(FALSE) ELSE UNCHANGED page
  /\ UNCHANGED <<now, server>>

\* The hub turned the signaling client away twice.
SignalingRejected ==
  /\ config # "none"
  /\ AuthFailed(ingressSession # NoToken)
  /\ UNCHANGED <<now, server, req>>

\* A key is typed into the form; the answer is acted on whatever has become of
\* the form meanwhile.  A wrong key changes nothing, as a lost request does.
Submit ==
  /\ config = "none" /\ ~checking /\ req[Login].stage = "idle"
  /\ req' = [req EXCEPT ![Login] = Request("api", "good", NoToken, "none")]
  /\ UNCHANGED <<now, server, page>>

\* handleConnect
SubmitEnds ==
  /\ req[Login].stage \in {"ok", "denied", "error"}
  /\ req' = [req EXCEPT ![Login] = Idle]
  /\ IF req[Login].stage = "ok"
       THEN /\ attempt < MaxAttempts /\ attempt' = attempt + 1
            /\ ingressSession' = NoToken /\ known' = FALSE /\ saved' = req[Login].cred
            /\ config' = "manual" /\ expiry' = NoToken /\ gone' = FALSE /\ UNCHANGED checking
       ELSE UNCHANGED page
  /\ UNCHANGED <<now, server>>

\* Mutant: a renewal under way is not called off.
LogoutGoesOn ==
  /\ config # "none"
  /\ saved' = "none" /\ ingressSession' = NoToken /\ known' = FALSE
  /\ config' = "none" /\ expiry' = NoToken /\ checking' = FALSE /\ gone' = TRUE
  /\ UNCHANGED <<now, server, req, attempt>>

\* handleLogout: the Disconnect button.
Logout ==
  /\ config # "none" /\ attempt < MaxAttempts
  /\ attempt' = attempt + 1
  /\ saved' = "none" /\ ingressSession' = NoToken /\ known' = FALSE
  /\ config' = "none" /\ expiry' = NoToken /\ checking' = FALSE /\ gone' = TRUE
  /\ UNCHANGED <<now, server, req>>

IngressNext ==
  \/ RoleChanges \/ Tick \/ DirectoryRead \/ \E ok \in BOOLEAN : LookupEnds(ok)
  \/ \E s \in Slots : Receive(s) \/ RequestLost(s)
  \/ Button \/ Timer \/ Call \/ CallEnds \/ SignalingRejected \/ Logout
  \/ \E a \in 1..MaxAttempts : HandleAuth(a) \/ HandleConfig(a)
  \/ Submit \/ SubmitEnds

IngressSpec == IngressInit /\ [][IngressNext]_ivars

-----------------------------------------------------------------------------
\* README: "Disconnect stays disconnected until explicit HA reconnect or page
\* reload".  Whatever was under way when it was pressed (a renewal, a call, a
\* lookup), no session and no view of the files comes back by itself; only a
\* key submitted in the form, before or after, brings the page back.
StaysDisconnected == gone => config = "none" /\ ingressSession = NoToken /\ ~checking

\* A view opened through Home Assistant holds a session for its calls, and a
\* session that no attempt is about to finish belongs to such a view: late
\* answers of former attempts and refusals of former tokens part neither.
SessionShown ==
  /\ config = "ingress" => ingressSession # NoToken
  /\ ingressSession # NoToken => config = "ingress" \/ (checking /\ req[attempt].then = "config")

\* README: administrators are cached for at most a minute, and "failed refresh
\* discards prior grants".  Nothing is granted on the administrator's role
\* that was lost longer ago than the cache's time and a lookup take, however
\* often lookups fail and however many requests share one.
GrantFresh ==
  [][\A s \in Slots :
       (req[s].stage \in {"sent", "waiting"} /\ req'[s].stage = "ok" /\ req[s].cred # "good")
         => admin \/ lastAdmin + CacheTtl + LookupTtl >= now]_ivars

\* The session and the view belong together, and Disconnect ends both
\* (handleAuthFailed and handleLogout, App.tsx).
SessionTrue == IngressTypeOK /\ StaysDisconnected /\ SessionShown

=============================================================================
