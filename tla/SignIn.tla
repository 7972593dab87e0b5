-------------------------------- MODULE SignIn --------------------------------
(***************************************************************************)
(* One operator's session: the browser's two cookies, the web server that  *)
(* forwards each request and refreshes the access token when it is gone    *)
(* (app/api/platform/[...path]/route.ts), and the refresh tokens of the    *)
(* API (auth/service.py).                                                  *)
(*                                                                         *)
(* Requests of one page run side by side and carry the cookies of the      *)
(* moment they were sent; their answers set or clear the cookies in the    *)
(* order they arrive.  An access token is named by the refresh token that  *)
(* was issued with it.                                                     *)
(***************************************************************************)
EXTENDS Naturals, Sequences, FiniteSets

CONSTANTS
    Requests,    \* requests of the page that may be open at once
    MaxTokens,   \* bound: refresh tokens ever issued
    MaxFetches,  \* bound: refresh calls of the web server
    MaxFaults    \* bound: refresh calls that time out, entries that go too early

BoundsAreNatural == MaxTokens \in Nat \ {0} /\ {MaxFetches, MaxFaults} \subseteq Nat

VARIABLES
    active,   \* the user and the company are active
    tokens,   \* refresh_tokens: revoked, and the token it replaced
    expired,  \* access tokens that ran out
    jar,      \* the cookies: access and refresh, 0 for none
    reqs,     \* per request: where it is, its cookies, the tokens it got
    fetches,  \* refresh calls: the token sent, the API's step, the promise
    cache,    \* refreshes: per token the call whose promise is shared, or 0
    logout,   \* the logout request: "none", "sent", "answered"
    ended,    \* the session was closed by a logout or the account
    faults    \* timeouts, and entries gone while their token is in use

vars == <<active, tokens, expired, jar, reqs, fetches, cache, logout, ended, faults>>

None == 0
TokenIds == 1 .. MaxTokens
Empty == [access |-> None, refresh |-> None]
Quiet == [at |-> "idle", access |-> None, refresh |-> None, got |-> None, fetch |-> None, code |-> 0]

TypeOK ==
    /\ {active, ended} \subseteq BOOLEAN
    /\ tokens \in Seq([revoked : BOOLEAN, from : 0 .. MaxTokens]) /\ Len(tokens) <= MaxTokens
    /\ expired \subseteq TokenIds
    /\ jar \in [access : 0 .. MaxTokens, refresh : 0 .. MaxTokens]
    /\ reqs \in [Requests -> [at : {"idle", "sent", "refreshing", "invoke", "answered"},
                              access : 0 .. MaxTokens, refresh : 0 .. MaxTokens,
                              got : 0 .. MaxTokens, fetch : 0 .. MaxFetches, code : {0, 200, 401}]]
    /\ fetches \in Seq([token : TokenIds, api : {"sent", "locked", "done"},
                        promise : {"pending", "tokens", "null"}, next : 0 .. MaxTokens])
    /\ cache \in [TokenIds -> 0 .. MaxFetches]
    /\ logout \in {"none", "sent", "answered"}
    /\ faults \in 0 .. MaxFaults

Init ==
    /\ active = TRUE
    /\ tokens = <<>>
    /\ expired = {}
    /\ jar = Empty
    /\ reqs = [r \in Requests |-> Quiet]
    /\ fetches = <<>>
    /\ cache = [t \in TokenIds |-> None]
    /\ logout = "none"
    /\ ended = FALSE
    /\ faults = 0

(***************************************************************************)
(* The API: login, refresh, logout.                                        *)
(***************************************************************************)
Issued(from) == Append(tokens, [revoked |-> FALSE, from |-> from])
Last == Len(tokens) + 1

Login ==
    /\ active
    /\ tokens = <<>>
    /\ tokens' = Issued(None)
    /\ jar' = [access |-> Last, refresh |-> Last]
    /\ UNCHANGED <<active, expired, reqs, fetches, cache, logout, ended, faults>>

\* The token is read without FOR UPDATE.
IsNotRevoked(t) == ~tokens[t].revoked

\* get_active_by_hash ... FOR UPDATE: waits for who holds the row and then
\* finds only a token that is still not revoked.
IsLocked(t) == \E f \in DOMAIN fetches : fetches[f].api = "locked" /\ fetches[f].token = t
IsActive(t) == ~tokens[t].revoked /\ ~IsLocked(t)

Refuse(f) ==
    /\ fetches[f].api = "sent"
    /\ ~IsLocked(fetches[f].token)
    /\ tokens[fetches[f].token].revoked \/ ~active
    /\ fetches' = [fetches EXCEPT ![f].api = "done"]
    /\ UNCHANGED <<active, tokens, expired, jar, reqs, cache, logout, ended, faults>>

Lookup(f) ==
    /\ fetches[f].api = "sent"
    /\ IsActive(fetches[f].token)
    /\ active
    /\ fetches' = [fetches EXCEPT ![f].api = "locked"]
    /\ UNCHANGED <<active, tokens, expired, jar, reqs, cache, logout, ended, faults>>

Rotate(f) ==
    /\ fetches[f].api = "locked"
    /\ Len(tokens) < MaxTokens
    /\ LET t == fetches[f].token IN
       tokens' = [Issued(t) EXCEPT ![t].revoked = TRUE]
    /\ fetches' = [fetches EXCEPT ![f].api = "done", ![f].next = Last]
    /\ UNCHANGED <<active, expired, jar, reqs, cache, logout, ended, faults>>

\* The account is closed, or the company is.
Deactivate ==
    /\ active
    /\ active' = FALSE
    /\ ended' = TRUE
    /\ UNCHANGED <<tokens, expired, jar, reqs, fetches, cache, logout, faults>>

(***************************************************************************)
(* The web server.                                                         *)
(***************************************************************************)
Settled(f) == fetches[f].promise # "pending"

Resolve(f) ==
    /\ ~Settled(f)
    /\ fetches[f].api = "done"
    /\ fetches' = [fetches EXCEPT ![f].promise = IF fetches[f].next = None THEN "null" ELSE "tokens"]
    /\ UNCHANGED <<active, tokens, expired, jar, reqs, cache, logout, ended, faults>>

\* The answer does not come within 15 s, or the API is away; it may still act.
TimeOut(f) ==
    /\ ~Settled(f)
    /\ faults < MaxFaults
    /\ faults' = faults + 1
    /\ fetches' = [fetches EXCEPT ![f].promise = "null"]
    /\ UNCHANGED <<active, tokens, expired, jar, reqs, cache, logout, ended>>

\* 15 s after the call its entry goes.  A request that still carries the old
\* token, or a page whose cookies nobody has replaced yet because the request
\* that refreshed is not answered, is slower than that: counted as a fault.
Carries(r, t) == reqs[r].at \in {"sent", "invoke"} /\ reqs[r].refresh = t /\ reqs[r].got = None
Forget(t) ==
    /\ cache[t] # None
    /\ Settled(cache[t])
    /\ cache' = [cache EXCEPT ![t] = None]
    /\ IF /\ fetches[cache[t]].promise = "tokens"
          /\ jar.refresh = t \/ \E r \in Requests : Carries(r, t)
       THEN faults < MaxFaults /\ faults' = faults + 1
       ELSE UNCHANGED faults
    /\ UNCHANGED <<active, tokens, expired, jar, reqs, fetches, logout, ended>>

\* Every request that misses the access token makes a call of its own.
CallAlone(r) ==
    /\ Len(fetches) < MaxFetches
    /\ fetches' = Append(fetches, [token |-> reqs[r].refresh, api |-> "sent",
                                   promise |-> "pending", next |-> None])
    /\ UNCHANGED cache
    /\ reqs' = [reqs EXCEPT ![r].at = "refreshing", ![r].fetch = Len(fetches) + 1]

\* refresh: the requests that bring one token share one call of the API.
JoinRefresh(r) ==
    LET t == reqs[r].refresh IN
    IF cache[t] # None
    THEN /\ reqs' = [reqs EXCEPT ![r].at = "refreshing", ![r].fetch = cache[t]]
         /\ UNCHANGED <<fetches, cache>>
    ELSE /\ Len(fetches) < MaxFetches
         /\ fetches' = Append(fetches, [token |-> t, api |-> "sent",
                                        promise |-> "pending", next |-> None])
         /\ cache' = [cache EXCEPT ![t] = Len(fetches) + 1]
         /\ reqs' = [reqs EXCEPT ![r].at = "refreshing", ![r].fetch = Len(fetches) + 1]

Send(r) ==
    /\ reqs[r].at = "idle"
    /\ jar.refresh # None
    /\ reqs' = [reqs EXCEPT ![r] = [Quiet EXCEPT !.at = "sent", !.access = jar.access,
                                                 !.refresh = jar.refresh]]
    /\ UNCHANGED <<active, tokens, expired, jar, fetches, cache, logout, ended, faults>>

Enter(r) ==
    /\ reqs[r].at = "sent"
    /\ IF reqs[r].access # None
       THEN reqs' = [reqs EXCEPT ![r].at = "invoke"] /\ UNCHANGED <<fetches, cache>>
       ELSE JoinRefresh(r)
    /\ UNCHANGED <<active, tokens, expired, jar, logout, ended, faults>>

\* Without an access token the request is answered 401; otherwise it goes on.
Refreshed(r) ==
    LET fetch == fetches[reqs[r].fetch] IN
    /\ reqs[r].at = "refreshing"
    /\ Settled(reqs[r].fetch)
    /\ reqs' = [reqs EXCEPT ![r] =
         IF fetch.promise = "tokens"
         THEN [@ EXCEPT !.at = "invoke", !.access = fetch.next, !.got = fetch.next]
         ELSE [@ EXCEPT !.at = "answered", !.code = 401]]
    /\ UNCHANGED <<active, tokens, expired, jar, fetches, cache, logout, ended, faults>>

\* get_current_claims decides; a 401 is tried once more with a new token.
Invoke(r) ==
    /\ reqs[r].at = "invoke"
    /\ IF active /\ reqs[r].access \notin expired
       THEN reqs' = [reqs EXCEPT ![r].at = "answered", ![r].code = 200] /\ UNCHANGED <<fetches, cache>>
       ELSE IF reqs[r].got = None
            THEN JoinRefresh(r)
            ELSE /\ reqs' = [reqs EXCEPT ![r].at = "answered", ![r].code = 401]
                 /\ UNCHANGED <<fetches, cache>>
    /\ UNCHANGED <<active, tokens, expired, jar, logout, ended, faults>>

\* An access token lives 15 minutes, a request at most 5: when the token of
\* the cookies runs out, only requests that carry that token are open.
IsOlder(r) == reqs[r].at # "idle" /\ (reqs[r].access # jar.access \/ reqs[r].got # None)
AccessExpires ==
    /\ jar.access # None
    /\ \A r \in Requests : ~IsOlder(r)
    /\ expired' = expired \cup {jar.access}
    /\ jar' = [jar EXCEPT !.access = None]
    /\ UNCHANGED <<active, tokens, reqs, fetches, cache, logout, ended, faults>>

\* The answer reaches the browser: setTokens first, clearTokens on a 401.
Answer(r) ==
    /\ reqs[r].at = "answered"
    /\ jar' = IF reqs[r].code = 401 THEN Empty
              ELSE IF reqs[r].got # None
                   THEN [access |-> reqs[r].got, refresh |-> reqs[r].got]
                   ELSE jar
    /\ reqs' = [reqs EXCEPT ![r] = Quiet]
    /\ UNCHANGED <<active, tokens, expired, fetches, cache, logout, ended, faults>>

\* auth/logout: the API revokes the token of the cookie, then the cookies go.
Logout ==
    /\ logout = "none"
    /\ jar.refresh # None
    /\ ~IsLocked(jar.refresh)
    /\ tokens' = [tokens EXCEPT ![jar.refresh].revoked = TRUE]
    /\ logout' = "sent"
    /\ ended' = TRUE
    /\ UNCHANGED <<active, expired, jar, reqs, fetches, cache, faults>>

LogoutAnswer ==
    /\ logout = "sent"
    /\ logout' = "answered"
    /\ jar' = Empty
    /\ UNCHANGED <<active, tokens, expired, reqs, fetches, cache, ended, faults>>

Next ==
    \/ Login \/ Deactivate \/ AccessExpires \/ Logout \/ LogoutAnswer
    \/ \E f \in DOMAIN fetches : Refuse(f) \/ Lookup(f) \/ Rotate(f) \/ Resolve(f) \/ TimeOut(f)
    \/ \E t \in TokenIds : Forget(t)
    \/ \E r \in Requests : Send(r) \/ Enter(r) \/ Refreshed(r) \/ Invoke(r) \/ Answer(r)

Spec == Init /\ [][Next]_vars

(***************************************************************************)
(* Properties.                                                             *)
(***************************************************************************)
\* A refresh token is exchanged once, even when two calls bring it after a
\* timeout, and the token it was exchanged for is the only way on.
ExchangedOnce ==
    \A s, t \in DOMAIN tokens :
        tokens[s].from # None =>
            /\ tokens[tokens[s].from].revoked
            /\ tokens[s].from = tokens[t].from => s = t

\* Requests of one page that find the access token gone do not sign each
\* other out (route.ts, refreshes): unless a refresh call is lost, an answer
\* takes longer than the shared entry lives or the session is closed, no
\* request is answered 401, and a quiet page holds the token in force.
PageStaysSignedIn ==
    faults = 0 /\ ~ended =>
        /\ \A r \in Requests : reqs[r].code # 401
        /\ (tokens # <<>> /\ \A r \in Requests : reqs[r] = Quiet) =>
              jar.refresh # None /\ ~tokens[jar.refresh].revoked
=============================================================================
