-------------------------------- MODULE Accounts --------------------------------
(***************************************************************************)
(* Signing in (browserauth, and the tables email_codes, web_sessions and   *)
(* api_tokens): a code sent to an address is exchanged for a grant, the    *)
(* session of a browser or the token of a CLI, which authenticates         *)
(* requests until it expires or is logged out.  Time is the database's     *)
(* clock in seconds; what a row says of its expiry is compared there.      *)
(***************************************************************************)
EXTENDS Naturals, FiniteSets

CONSTANTS
  Email,      \* addresses
  Digits,     \* what a code can be: two rows may hold the same
  Code,       \* rows of email_codes
  Verify,     \* VerifyCode and VerifyCodeForAPIToken requests, one grant each
  Auth,       \* requests that carry a session cookie or a bearer token
  Logout,     \* logout requests
  Kind, TTL,  \* sessions and API tokens, and how long each lives
  CodeTTL, MaxClock

ASSUME TimeAssumption == CodeTTL \in Nat /\ MaxClock \in Nat /\ TTL \in [Kind -> Nat]

VARIABLES
  clock,      \* CURRENT_TIMESTAMP
  users,      \* addresses with a users row
  code,       \* email_codes
  verify,     \* per request: control state, address, kind and, as history, the rows it consumed
  grant,      \* web_sessions and api_tokens, by the request that inserted the row
  auth,       \* per request: control state, grant, and whether a logout had returned before
  logout,     \* per request: control state and grant
  loggedOut   \* history: grants whose logout returned

avars == <<clock, users, code, verify, grant, auth, logout, loggedOut>>

AccountInit ==
  /\ clock = 0 /\ users = {}
  /\ code = [r \in Code |-> [state |-> "none"]]
  /\ verify = [v \in Verify |-> [pc |-> "idle"]]
  /\ grant = [v \in Verify |-> [state |-> "none"]]
  /\ auth = [a \in Auth |-> [pc |-> "idle"]]
  /\ logout = [o \in Logout |-> [pc |-> "idle"]]
  /\ loggedOut = {}

ClockTick == clock < MaxClock /\ clock' = clock + 1 /\ UNCHANGED <<users, code, verify, grant, auth, logout, loggedOut>>

\* RequestCode: a new row, whatever rows the address has; the mail may fail after
RequestCode(r) ==
  /\ code[r].state = "none"
  /\ \E e \in Email, x \in Digits :
        code' = [code EXCEPT ![r] = [state |-> "live", email |-> e, digits |-> x, expires |-> clock + CodeTTL]]
  /\ UNCHANGED <<clock, users, verify, grant, auth, logout, loggedOut>>

MatchingAnyTime(e, x) ==
  {r \in Code : code[r].state # "none" /\ code[r].email = e /\ code[r].digits = x /\ code[r].expires >= clock}

\* the rows the update of ConsumeEmailCode hits
Matching(e, x) ==
  {r \in Code : code[r].state = "live" /\ code[r].email = e /\ code[r].digits = x /\ code[r].expires >= clock}

\* one UPDATE finds and marks the rows; none affected is an invalid code
ConsumeEmailCode(v) ==
  /\ verify[v].pc = "idle"
  /\ \E e \in Email, x \in Digits, k \in Kind :
       LET rows == Matching(e, x) IN
       /\ rows # {}
       /\ code' = [r \in Code |-> IF r \in rows THEN [code[r] EXCEPT !.state = "consumed"] ELSE code[r]]
       /\ verify' = [verify EXCEPT ![v] = [pc |-> "consumed", email |-> e, kind |-> k, paid |-> rows]]
  /\ UNCHANGED <<clock, users, grant, auth, logout, loggedOut>>

UpsertUser(v) ==
  /\ verify[v].pc = "consumed"
  /\ verify' = [verify EXCEPT ![v].pc = "user"]
  /\ users' = users \cup {verify[v].email}
  /\ UNCHANGED <<clock, code, grant, auth, logout, loggedOut>>

\* CreateWebSession or CreateAPIToken
CreateGrant(v) ==
  /\ verify[v].pc = "user"
  /\ verify' = [verify EXCEPT ![v].pc = "done"]
  /\ grant' = [grant EXCEPT ![v] = [state |-> "live", email |-> verify[v].email,
                                    expires |-> clock + TTL[verify[v].kind]]]
  /\ UNCHANGED <<clock, users, code, auth, logout, loggedOut>>

\* the store fails: the code is spent for nothing
VerifyFail(v) ==
  /\ verify[v].pc \in {"consumed", "user"}
  /\ verify' = [verify EXCEPT ![v].pc = "failed"]
  /\ UNCHANGED <<clock, users, code, grant, auth, logout, loggedOut>>

\* VerifyCode, VerifyCodeForAPIToken
VerifyCode(v) == ConsumeEmailCode(v) \/ UpsertUser(v) \/ CreateGrant(v) \/ VerifyFail(v)

ActiveRevoked(g) == grant[g].state # "none" /\ grant[g].expires >= clock

\* GetActiveWebSessionByTokenHash, GetActiveAPITokenByTokenHash
Active(g) == grant[g].state = "live" /\ grant[g].expires >= clock

\* the row is looked up; it is touched and its user read after
AuthLookup(a) ==
  /\ auth[a].pc = "idle"
  /\ \E g \in Verify :
        /\ Active(g)
        /\ auth' = [auth EXCEPT ![a] = [pc |-> "found", grant |-> g, after |-> g \in loggedOut]]
  /\ UNCHANGED <<clock, users, code, verify, grant, logout, loggedOut>>

\* a row revoked or expired since the lookup is not touched, which is no error
AuthFinish(a) ==
  /\ auth[a].pc = "found"
  /\ auth' = [auth EXCEPT ![a].pc = IF grant[auth[a].grant].email \in users THEN "accepted" ELSE "refused"]
  /\ UNCHANGED <<clock, users, code, verify, grant, logout, loggedOut>>

\* Authenticate, AuthenticateAPIToken
Authenticate(a) == AuthLookup(a) \/ AuthFinish(a)

LogoutLookup(o) ==
  /\ logout[o].pc = "idle"
  /\ \E g \in Verify : /\ Active(g)
                       /\ logout' = [logout EXCEPT ![o] = [pc |-> "found", grant |-> g]]
  /\ UNCHANGED <<clock, users, code, verify, grant, auth, loggedOut>>

\* RevokeWebSession, RevokeAPIToken: WHERE id = ? AND revoked_at IS NULL
Revoke(o) ==
  LET g == logout[o].grant IN
  /\ logout[o].pc = "found"
  /\ logout' = [logout EXCEPT ![o].pc = "done"]
  /\ grant' = [grant EXCEPT ![g].state = "revoked"]
  /\ loggedOut' = loggedOut \cup {g}
  /\ UNCHANGED <<clock, users, code, verify, auth>>

\* Logout, LogoutAPIToken
LogOut(o) == LogoutLookup(o) \/ Revoke(o)

AccountNext ==
  \/ ClockTick
  \/ \E r \in Code : RequestCode(r)
  \/ \E v \in Verify : VerifyCode(v)
  \/ \E a \in Auth : Authenticate(a)
  \/ \E o \in Logout : LogOut(o)

AccountSpec == AccountInit /\ [][AccountNext]_avars

--------------------------------------------------------------------------------
\* Every session and token was paid for with a code of its own: rows sent to its
\* address that no other sign-in has used, however the requests of a double
\* submit interleave.
GrantsArePaid ==
  /\ \A v \in Verify : grant[v].state # "none" =>
        /\ verify[v].paid # {}
        /\ \A r \in verify[v].paid : code[r].email = grant[v].email
  /\ \A v, w \in Verify : v # w /\ verify[v].pc # "idle" /\ verify[w].pc # "idle"
        => verify[v].paid \cap verify[w].paid = {}

\* A request that comes in after a logout returned is not accepted with the
\* session or token that was logged out.
LogoutHolds == \A a \in Auth : auth[a].pc = "accepted" => ~auth[a].after
================================================================================
