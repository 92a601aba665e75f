------------------------------ MODULE UserProofs ------------------------------
(***************************************************************************)
(* Theorems about what is kept for a user: Accounts, EnvSync and ToolAuth. *)
(* A grant is paid for with rows of its own, and a logout holds for every  *)
(* request that comes in after it returned.  Stored variables are sound,   *)
(* and reach the guests.  A persisted login's profile says what its bundle *)
(* is, and a login gives way to an empty bundle only by a delete.  For any *)
(* number of requests, variables, machines and captures.                   *)
(***************************************************************************)
EXTENDS Accounts, EnvSync, ToolAuth, FiniteSetTheorems, WellFoundedInduction, TLAPS

--------------------------------------------------------------------------------
(* Accounts *)

CodeRow == {[state |-> "none"]}
             \cup [state : {"live", "consumed"}, email : Email, digits : Digits, expires : Nat]
VerifyRequest == {[pc |-> "idle"]}
             \cup [pc : {"consumed", "user", "done", "failed"}, email : Email, kind : Kind, paid : SUBSET Code]
Grant == {[state |-> "none"]} \cup [state : {"live", "revoked"}, email : Email, expires : Nat]
AuthRequest == {[pc |-> "idle"]} \cup [pc : {"found", "accepted", "refused"}, grant : Verify, after : BOOLEAN]
LogoutRequest == {[pc |-> "idle"]} \cup [pc : {"found", "done"}, grant : Verify]

TypeOK ==
  /\ clock \in Nat
  /\ code \in [Code -> CodeRow]
  /\ verify \in [Verify -> VerifyRequest]
  /\ grant \in [Verify -> Grant]
  /\ auth \in [Auth -> AuthRequest]
  /\ logout \in [Logout -> LogoutRequest]
  /\ loggedOut \subseteq Verify

Begun(v) == verify[v].pc # "idle"
Issued(g) == grant[g].state # "none"

\* what a sign-in consumed stays consumed, and was sent to its address
PaidRows ==
  \A v \in Verify : Begun(v) =>
     /\ verify[v].paid # {}
     /\ \A r \in verify[v].paid : code[r].state = "consumed" /\ code[r].email = verify[v].email

PaidOnce == \A v, w \in Verify : v # w /\ Begun(v) /\ Begun(w) => verify[v].paid \cap verify[w].paid = {}

IssuedToPayer == \A v \in Verify : Issued(v) => verify[v].pc = "done" /\ grant[v].email = verify[v].email

\* a logout works on a row that is there, and leaves it revoked
LogoutFinds == \A o \in Logout : logout[o].pc # "idle" => Issued(logout[o].grant)
LogoutRevokes == \A g \in loggedOut : grant[g].state = "revoked"

\* no request has looked a grant up after its logout returned
LookedUpBefore == \A a \in Auth : auth[a].pc # "idle" => ~auth[a].after

AccountInv ==
  /\ TypeOK /\ PaidRows /\ PaidOnce /\ IssuedToPayer
  /\ LogoutFinds /\ LogoutRevokes /\ LookedUpBefore

--------------------------------------------------------------------------------
LEMMA AccountInvInit == AccountInit => AccountInv
<1> DEFINE none == [state |-> "none"]
           idle == [pc |-> "idle"]
<1>1. /\ none \in CodeRow /\ none \in Grant /\ none.state = "none"
      /\ idle \in VerifyRequest /\ idle \in AuthRequest /\ idle \in LogoutRequest /\ idle.pc = "idle"
  BY DEF CodeRow, Grant, VerifyRequest, AuthRequest, LogoutRequest
<1> SUFFICES ASSUME AccountInit PROVE AccountInv
  OBVIOUS
<1>2. /\ clock = 0 /\ loggedOut = {}
      /\ code = [r \in Code |-> none] /\ grant = [v \in Verify |-> none]
      /\ verify = [v \in Verify |-> idle] /\ auth = [a \in Auth |-> idle]
      /\ logout = [o \in Logout |-> idle]
  BY DEF AccountInit
<1> HIDE DEF none, idle
<1>3. TypeOK
  BY <1>1, <1>2 DEF TypeOK
<1>4. PaidRows /\ PaidOnce /\ IssuedToPayer /\ LogoutFinds /\ LogoutRevokes /\ LookedUpBefore
  BY <1>1, <1>2 DEF PaidRows, PaidOnce, IssuedToPayer, LogoutFinds, LogoutRevokes, LookedUpBefore, Begun, Issued
<1> QED
  BY <1>3, <1>4 DEF AccountInv

LEMMA TickKeeps == AccountInv /\ ClockTick => AccountInv'
<1> SUFFICES ASSUME AccountInv, ClockTick PROVE AccountInv'
  OBVIOUS
<1>1. TypeOK'
  BY DEF AccountInv, TypeOK, ClockTick
<1> QED
  BY <1>1 DEF AccountInv, ClockTick, PaidRows, PaidOnce, IssuedToPayer, LogoutFinds, LogoutRevokes, LookedUpBefore, Begun, Issued

\* A new row was not there, so nothing has been paid with it.
LEMMA RequestKeeps == ASSUME AccountInv, NEW r \in Code, RequestCode(r) PROVE AccountInv'
<1>1. PICK e \in Email, x \in Digits :
         code' = [code EXCEPT ![r] = [state |-> "live", email |-> e, digits |-> x, expires |-> clock + CodeTTL]]
  BY DEF RequestCode
<1> DEFINE new == [state |-> "live", email |-> e, digits |-> x, expires |-> clock + CodeTTL]
<1>2. TypeOK /\ code[r].state = "none" /\ UNCHANGED <<clock, verify, grant, auth, logout, loggedOut>>
  BY DEF RequestCode, AccountInv
<1>3. new \in CodeRow
  BY <1>2, TimeAssumption DEF TypeOK, CodeRow
<1>4. code' = [code EXCEPT ![r] = new]
  BY <1>1
<1> HIDE DEF new
<1>5. TypeOK'
  BY <1>2, <1>3, <1>4 DEF TypeOK
<1>6. PaidRows'
  <2>1. \A v \in Verify : Begun(v) => verify[v].paid \subseteq Code
    BY <1>2 DEF TypeOK, VerifyRequest, Begun
  <2>2. \A s \in Code \ {r} : code'[s] = code[s]
    BY <1>2, <1>4 DEF TypeOK
  <2> QED
    BY <1>2, <2>1, <2>2 DEF AccountInv, PaidRows, Begun
<1> QED
  BY <1>2, <1>5, <1>6 DEF AccountInv, PaidOnce, IssuedToPayer, LogoutFinds, LogoutRevokes, LookedUpBefore, Begun, Issued

\* The rows an update hits are live, so no other sign-in has paid with them.
LEMMA ConsumeKeeps == ASSUME AccountInv, NEW v \in Verify, ConsumeEmailCode(v) PROVE AccountInv'
<1>1. PICK e \in Email, x \in Digits, k \in Kind :
         /\ Matching(e, x) # {}
         /\ code' = [r \in Code |-> IF r \in Matching(e, x) THEN [code[r] EXCEPT !.state = "consumed"] ELSE code[r]]
         /\ verify' = [verify EXCEPT ![v] = [pc |-> "consumed", email |-> e, kind |-> k, paid |-> Matching(e, x)]]
  BY DEF ConsumeEmailCode
<1> DEFINE rows == Matching(e, x)
           req == [pc |-> "consumed", email |-> e, kind |-> k, paid |-> rows]
<1>2. TypeOK /\ verify[v].pc = "idle" /\ UNCHANGED <<clock, grant, auth, logout, loggedOut>>
  BY DEF ConsumeEmailCode, AccountInv
<1>3. rows \subseteq Code /\ \A r \in rows : code[r].state = "live" /\ code[r].email = e
  BY DEF Matching
<1>4. req \in VerifyRequest /\ req.pc = "consumed" /\ req.paid = rows /\ req.email = e /\ verify' = [verify EXCEPT ![v] = req]
  BY <1>1, <1>3 DEF VerifyRequest
<1>5. /\ code' \in [Code -> CodeRow]
      /\ \A r \in rows : code'[r].state = "consumed" /\ code'[r].email = e
      /\ \A r \in Code \ rows : code'[r] = code[r]
  <2>1. ASSUME NEW r \in rows
        PROVE  /\ [code[r] EXCEPT !.state = "consumed"] \in CodeRow
               /\ [code[r] EXCEPT !.state = "consumed"].state = "consumed"
               /\ [code[r] EXCEPT !.state = "consumed"].email = e
    <3>1. code[r] \in CodeRow /\ code[r].state = "live" /\ code[r].email = e
      BY <1>2, <1>3 DEF TypeOK
    <3> QED
      BY <3>1 DEF CodeRow
  <2> HIDE DEF rows
  <2> QED
    BY <1>1, <1>2, <1>3, <2>1 DEF TypeOK, rows
<1> HIDE DEF rows, req
<1>6. /\ verify' \in [Verify -> VerifyRequest] /\ verify'[v] = req
      /\ \A w \in Verify \ {v} : verify'[w] = verify[w]
  BY <1>2, <1>4 DEF TypeOK
<1>7. TypeOK'
  BY <1>2, <1>5, <1>6 DEF TypeOK
<1>8. \A w \in Verify \ {v} : Begun(w) => verify[w].paid \subseteq Code /\ verify[w].paid \cap rows = {}
  BY <1>2, <1>3 DEF AccountInv, PaidRows, TypeOK, VerifyRequest, Begun
<1>9. PaidRows'
  <2>1. ASSUME NEW w \in Verify \ {v}, Begun(w)'
        PROVE  /\ verify'[w].paid # {}
               /\ \A r \in verify'[w].paid : code'[r].state = "consumed" /\ code'[r].email = verify'[w].email
    BY <1>5, <1>6, <1>8, <2>1 DEF AccountInv, PaidRows, Begun
  <2>2. rows # {}
    BY <1>1 DEF rows
  <2> QED
    BY <1>4, <1>5, <1>6, <2>1, <2>2 DEF PaidRows
<1>10. PaidOnce'
  BY <1>4, <1>6, <1>8 DEF AccountInv, PaidOnce, Begun
<1>11. IssuedToPayer'
  BY <1>2, <1>6 DEF AccountInv, IssuedToPayer, Issued
<1> QED
  BY <1>2, <1>7, <1>9, <1>10, <1>11 DEF AccountInv, LogoutFinds, LogoutRevokes, LookedUpBefore, Issued

\* A request that has its rows keeps them on the way to its grant.
LEMMA RequestMoves ==
  ASSUME TypeOK, NEW v \in Verify, NEW pc \in {"user", "done", "failed"},
         verify[v].pc \in {"consumed", "user"}, verify' = [verify EXCEPT ![v].pc = pc]
  PROVE  /\ verify' \in [Verify -> VerifyRequest]
         /\ verify'[v].pc = pc /\ verify'[v].paid = verify[v].paid /\ verify'[v].email = verify[v].email
         /\ verify[v].email \in Email /\ verify[v].kind \in Kind
         /\ \A w \in Verify \ {v} : verify'[w] = verify[w]
<1> DEFINE new == [verify[v] EXCEPT !.pc = pc]
<1>1. verify[v] \in [pc : {"consumed", "user", "done", "failed"}, email : Email, kind : Kind, paid : SUBSET Code]
  BY DEF TypeOK, VerifyRequest
<1>2. new \in VerifyRequest /\ new.pc = pc /\ new.paid = verify[v].paid /\ new.email = verify[v].email
  BY <1>1 DEF VerifyRequest
<1>3. verify' = [verify EXCEPT ![v] = new]
  OBVIOUS
<1> HIDE DEF new
<1> QED
  BY <1>1, <1>2, <1>3 DEF TypeOK

LEMMA VerifyKeeps ==
  ASSUME AccountInv, NEW v \in Verify, UpsertUser(v) \/ CreateGrant(v) \/ VerifyFail(v)
  PROVE  AccountInv'
<1>1. TypeOK /\ verify[v].pc \in {"consumed", "user"} /\ UNCHANGED <<clock, code, auth, logout, loggedOut>>
  BY DEF AccountInv, UpsertUser, CreateGrant, VerifyFail
<1>2. PICK pc \in {"user", "done", "failed"} :
         /\ verify' = [verify EXCEPT ![v].pc = pc]
         /\ ~CreateGrant(v) => UNCHANGED grant
         /\ CreateGrant(v) => pc = "done"
  BY DEF UpsertUser, CreateGrant, VerifyFail
<1>3. /\ verify' \in [Verify -> VerifyRequest]
      /\ verify'[v].pc = pc /\ verify'[v].paid = verify[v].paid /\ verify'[v].email = verify[v].email
      /\ verify[v].email \in Email /\ verify[v].kind \in Kind
      /\ \A w \in Verify \ {v} : verify'[w] = verify[w]
  BY <1>1, <1>2, RequestMoves
<1>4. PaidRows' /\ PaidOnce'
  BY <1>1, <1>3 DEF AccountInv, PaidRows, PaidOnce, Begun
<1>5. ~Issued(v) /\ v \notin loggedOut
  <2>1. ~Issued(v)
    BY <1>1 DEF AccountInv, IssuedToPayer
  <2> QED
    BY <2>1 DEF AccountInv, LogoutRevokes, Issued
<1>6. CASE ~CreateGrant(v)
  <2>1. TypeOK'
    BY <1>1, <1>2, <1>3, <1>6 DEF TypeOK
  <2>2. IssuedToPayer'
    BY <1>2, <1>3, <1>5, <1>6 DEF AccountInv, IssuedToPayer, Issued
  <2> QED
    BY <1>1, <1>2, <1>4, <1>6, <2>1, <2>2 DEF AccountInv, LogoutFinds, LogoutRevokes, LookedUpBefore, Issued
<1>7. CASE CreateGrant(v)
  <2> DEFINE g == [state |-> "live", email |-> verify[v].email, expires |-> clock + TTL[verify[v].kind]]
  <2>1. g \in Grant /\ g.state = "live" /\ g.email = verify[v].email
    BY <1>1, <1>3, TimeAssumption DEF Grant, TypeOK
  <2>2. grant' = [grant EXCEPT ![v] = g]
    BY <1>7 DEF CreateGrant
  <2> HIDE DEF g
  <2>3. grant' \in [Verify -> Grant] /\ grant'[v] = g /\ \A w \in Verify \ {v} : grant'[w] = grant[w]
    BY <1>1, <2>1, <2>2 DEF TypeOK
  <2>4. TypeOK'
    BY <1>1, <1>3, <2>3 DEF TypeOK
  <2>5. IssuedToPayer'
    BY <1>2, <1>3, <1>7, <2>1, <2>3 DEF AccountInv, IssuedToPayer, Issued
  <2>6. LogoutFinds' /\ LogoutRevokes'
    BY <1>1, <1>5, <2>1, <2>3 DEF AccountInv, TypeOK, LogoutRequest, LogoutFinds, LogoutRevokes, Issued
  <2> QED
    BY <1>1, <1>4, <2>4, <2>5, <2>6 DEF AccountInv, LookedUpBefore
<1> QED
  BY <1>6, <1>7

LEMMA AuthKeeps == ASSUME AccountInv, NEW a \in Auth, Authenticate(a) PROVE AccountInv'
<1>0. TypeOK /\ UNCHANGED <<clock, code, verify, grant, logout, loggedOut>>
  BY DEF AccountInv, Authenticate, AuthLookup, AuthFinish
<1>1. CASE AuthLookup(a)
  <2>1. PICK g \in Verify : /\ Active(g)
                            /\ auth' = [auth EXCEPT ![a] = [pc |-> "found", grant |-> g, after |-> g \in loggedOut]]
    BY <1>1 DEF AuthLookup
  <2>2. g \notin loggedOut
    BY <2>1 DEF AccountInv, LogoutRevokes, Active
  <2> DEFINE new == [pc |-> "found", grant |-> g, after |-> FALSE]
  <2>3. new \in AuthRequest /\ ~new.after
    BY DEF AuthRequest
  <2>4. auth' = [auth EXCEPT ![a] = new]
    <3>1. (g \in loggedOut) = FALSE
      BY <2>2
    <3> QED
      BY <2>1, <3>1, Zenon
  <2> HIDE DEF new
  <2>5. TypeOK' /\ LookedUpBefore'
    BY <1>0, <2>3, <2>4 DEF AccountInv, TypeOK, LookedUpBefore
  <2> QED
    BY <1>0, <2>5 DEF AccountInv, PaidRows, PaidOnce, IssuedToPayer, LogoutFinds, LogoutRevokes, Begun, Issued
<1>2. CASE AuthFinish(a)
  <2>1. PICK pc \in {"accepted", "refused"} : auth' = [auth EXCEPT ![a].pc = pc]
    BY <1>2 DEF AuthFinish
  <2> DEFINE new == [auth[a] EXCEPT !.pc = pc]
  <2>2. auth[a] \in [pc : {"found", "accepted", "refused"}, grant : Verify, after : BOOLEAN] /\ ~auth[a].after
    BY <1>0, <1>2 DEF AuthFinish, TypeOK, AuthRequest, AccountInv, LookedUpBefore
  <2>3. new \in AuthRequest /\ ~new.after
    BY <2>2 DEF AuthRequest
  <2>4. auth' = [auth EXCEPT ![a] = new]
    BY <2>1
  <2> HIDE DEF new
  <2>5. TypeOK' /\ LookedUpBefore'
    BY <1>0, <2>3, <2>4 DEF AccountInv, TypeOK, LookedUpBefore
  <2> QED
    BY <1>0, <2>5 DEF AccountInv, PaidRows, PaidOnce, IssuedToPayer, LogoutFinds, LogoutRevokes, Begun, Issued
<1> QED
  BY <1>1, <1>2 DEF Authenticate

LEMMA LogoutKeeps == ASSUME AccountInv, NEW o \in Logout, LogOut(o) PROVE AccountInv'
<1>0. TypeOK /\ UNCHANGED <<clock, code, verify, auth>>
  BY DEF AccountInv, LogOut, LogoutLookup, Revoke
<1>1. CASE LogoutLookup(o)
  <2>1. PICK g \in Verify : Active(g) /\ logout' = [logout EXCEPT ![o] = [pc |-> "found", grant |-> g]]
    BY <1>1 DEF LogoutLookup
  <2> DEFINE new == [pc |-> "found", grant |-> g]
  <2>2. new \in LogoutRequest /\ new.grant = g /\ Issued(g) /\ logout' = [logout EXCEPT ![o] = new]
    BY <2>1 DEF LogoutRequest, Active, Issued
  <2>3. UNCHANGED <<grant, loggedOut>>
    BY <1>1 DEF LogoutLookup
  <2> HIDE DEF new
  <2>4. TypeOK' /\ LogoutFinds'
    BY <1>0, <2>2, <2>3 DEF AccountInv, TypeOK, LogoutFinds, Issued
  <2> QED
    BY <1>0, <2>3, <2>4 DEF AccountInv, PaidRows, PaidOnce, IssuedToPayer, LogoutRevokes, LookedUpBefore, Begun, Issued
<1>2. CASE Revoke(o)
  <2> DEFINE g == logout[o].grant
             new == [logout[o] EXCEPT !.pc = "done"]
             gone == [grant[g] EXCEPT !.state = "revoked"]
  <2>1. logout[o] \in [pc : {"found", "done"}, grant : Verify] /\ Issued(g)
    BY <1>0, <1>2 DEF Revoke, TypeOK, LogoutRequest, AccountInv, LogoutFinds
  <2>2. new \in LogoutRequest /\ new.grant = g /\ g \in Verify
    BY <2>1 DEF LogoutRequest
  <2>3. gone \in Grant /\ gone.state = "revoked" /\ gone.email = grant[g].email
    <3>1. grant[g] \in [state : {"live", "revoked"}, email : Email, expires : Nat]
      BY <1>0, <2>1, <2>2 DEF TypeOK, Grant, Issued
    <3> QED
      BY <3>1 DEF Grant
  <2>4. logout' = [logout EXCEPT ![o] = new] /\ grant' = [grant EXCEPT ![g] = gone] /\ loggedOut' = loggedOut \cup {g}
    BY <1>2 DEF Revoke
  <2> HIDE DEF g, new, gone
  <2>5. TypeOK'
    BY <1>0, <2>2, <2>3, <2>4 DEF TypeOK
  <2>6. IssuedToPayer' /\ LogoutFinds' /\ LogoutRevokes'
    BY <1>0, <2>1, <2>2, <2>3, <2>4 DEF AccountInv, TypeOK, LogoutRequest, IssuedToPayer, LogoutFinds, LogoutRevokes, Issued
  <2> QED
    BY <1>0, <2>5, <2>6 DEF AccountInv, PaidRows, PaidOnce, LookedUpBefore, Begun
<1> QED
  BY <1>1, <1>2 DEF LogOut

LEMMA AccountInvStep == AccountInv /\ [AccountNext]_avars => AccountInv'
<1> SUFFICES ASSUME AccountInv, [AccountNext]_avars PROVE AccountInv'
  OBVIOUS
<1>1. CASE ClockTick
  BY <1>1, TickKeeps
<1>2. CASE \E r \in Code : RequestCode(r)
  BY <1>2, RequestKeeps
<1>3. CASE \E v \in Verify : VerifyCode(v)
  BY <1>3, ConsumeKeeps, VerifyKeeps DEF VerifyCode
<1>4. CASE \E a \in Auth : Authenticate(a)
  BY <1>4, AuthKeeps
<1>5. CASE \E o \in Logout : LogOut(o)
  BY <1>5, LogoutKeeps
<1>6. CASE UNCHANGED avars
  BY <1>6 DEF avars, AccountInv, TypeOK, PaidRows, PaidOnce, IssuedToPayer, LogoutFinds, LogoutRevokes, LookedUpBefore, Begun, Issued
<1> QED
  BY <1>1, <1>2, <1>3, <1>4, <1>5, <1>6 DEF AccountNext

--------------------------------------------------------------------------------
\* Every session and API token was paid for with codes that no other sign-in used
\* (ConsumeEmailCode, CreateWebSession, CreateAPIToken), for any number of requests.
THEOREM SignInsPay == AccountSpec => []GrantsArePaid
<1>1. AccountInv => GrantsArePaid
  BY DEF AccountInv, PaidRows, PaidOnce, IssuedToPayer, GrantsArePaid, Begun, Issued
<1> QED
  BY <1>1, AccountInvInit, AccountInvStep, PTL DEF AccountSpec

\* What a logout took away authenticates no request that comes in later
\* (RevokeWebSession, RevokeAPIToken), for any lifetime and clock.
THEOREM LogoutIsFinal == AccountSpec => []LogoutHolds
<1>1. AccountInv => LogoutHolds
  BY DEF AccountInv, LookedUpBefore, LogoutHolds
<1> QED
  BY <1>1, AccountInvInit, AccountInvStep, PTL DEF AccountSpec

--------------------------------------------------------------------------------
(* EnvSync.  What renderEffectiveEnv accepts: Renders is a recursion over the  *)
(* keys under way; it has a solution, and accepts exactly the variables that   *)
(* refer to nothing undefined and not to each other in a circle.               *)

Raws == UNION {[D -> SUBSET Key] : D \in SUBSET Key}

\* what resolve makes of the keys that resolve one level down
Resolve(raw, f) ==
  [resolving \in SUBSET Key |-> {k \in DOMAIN raw \ resolving : raw[k] \subseteq f[resolving \cup {k}]}]

Resolver(raw) == CHOOSE f : f = Resolve(raw, f)

LEMMA RendersByResolver ==
  ASSUME NEW raw
  PROVE  Renders(raw) <=> DOMAIN raw \subseteq Resolver(raw)[{}]
BY Zenon DEF Renders, Resolver, Resolve

\* The recursion has a solution: the largest family of keys that hold each other up.
LEMMA ResolverExists ==
  ASSUME NEW raw \in Raws
  PROVE  Resolver(raw) = Resolve(raw, Resolver(raw))
<1> DEFINE Family == [SUBSET Key -> SUBSET Key]
           Step(f, R) == {k \in DOMAIN raw \ R : raw[k] \subseteq f[R \cup {k}]}
           HeldUp(f) == \A R \in SUBSET Key : f[R] \subseteq Step(f, R)
           Largest == [R \in SUBSET Key |-> {k \in Key : \E f \in Family : HeldUp(f) /\ k \in f[R]}]
           Next1 == [R \in SUBSET Key |-> Step(Largest, R)]
<1>1. DOMAIN raw \subseteq Key /\ \A k \in DOMAIN raw : raw[k] \subseteq Key
  BY DEF Raws
<1>2. ASSUME NEW f \in Family, HeldUp(f), NEW R \in SUBSET Key PROVE f[R] \subseteq Largest[R]
  BY <1>2
<1>3. Largest \in Family /\ Next1 \in Family
  BY <1>1
<1>a. \A R \in SUBSET Key : \A k \in Largest[R] : \E f \in Family : HeldUp(f) /\ k \in f[R]
  OBVIOUS
<1>b. \A f \in Family : HeldUp(f) => \A R \in SUBSET Key : f[R] \subseteq Step(f, R)
  OBVIOUS
<1>4. ASSUME NEW R \in SUBSET Key, NEW k \in Largest[R] PROVE k \in Next1[R]
  <2>1. PICK f \in Family : HeldUp(f) /\ k \in f[R]
    BY <1>4, <1>a
  <2>2. k \in DOMAIN raw \ R /\ raw[k] \subseteq f[R \cup {k}]
    BY <2>1, <1>b
  <2>3. R \cup {k} \in SUBSET Key
    BY <1>1, <2>2
  <2>4. f[R \cup {k}] \subseteq Largest[R \cup {k}]
    <3> HIDE DEF HeldUp, Largest, Step, Family
    <3> QED
      BY <1>2, <2>1, <2>3
  <2> QED
    BY <2>2, <2>4
<1>5. HeldUp(Next1)
  <2> SUFFICES ASSUME NEW R \in SUBSET Key, NEW k \in Next1[R] PROVE k \in Step(Next1, R)
    OBVIOUS
  <2>1. k \in DOMAIN raw \ R /\ raw[k] \subseteq Largest[R \cup {k}]
    OBVIOUS
  <2>2. R \cup {k} \in SUBSET Key
    BY <1>1, <2>1
  <2>3. Largest[R \cup {k}] \subseteq Next1[R \cup {k}]
    BY <1>4, <2>2
  <2> QED
    BY <2>1, <2>3
<1>6. \A R \in SUBSET Key : Largest[R] = Next1[R]
  <2> HIDE DEF HeldUp, Largest, Step, Family, Next1
  <2>1. \A R \in SUBSET Key : Next1[R] \subseteq Largest[R] 
    BY <1>2, <1>3, <1>5
  <2> QED
    BY <2>1, <1>4
<1> HIDE DEF HeldUp
<1>7. Largest = Next1
  BY <1>6
<1>8. Largest = Resolve(raw, Largest)
  BY <1>7 DEF Resolve
<1> QED
  BY <1>8 DEF Resolver

LEMMA ResolverUnfolds ==
  ASSUME NEW raw \in Raws, NEW R \in SUBSET Key
  PROVE  Resolver(raw)[R] = {k \in DOMAIN raw \ R : raw[k] \subseteq Resolver(raw)[R \cup {k}]}
BY ResolverExists DEF Resolve

LEMMA LeastOf ==
  ASSUME NEW T \in SUBSET Nat, T # {}
  PROVE  \E x \in T : \A y \in T : x <= y
<1>1. PICK x \in T : \A y \in T : <<y, x>> \notin OpToRel(<, Nat)
  BY NatLessThanWellFounded, WFMin, Zenon
<1>2. \A y \in T : ~(y < x)
  BY <1>1 DEF OpToRel
<1> QED
  BY <1>2

Defined(raw) == \A k \in DOMAIN raw : raw[k] \subseteq DOMAIN raw
NoCircle(raw) == \A circle \in SUBSET DOMAIN raw : circle # {} => \E k \in circle : raw[k] \cap circle = {}

\* What renders refers to nothing undefined, and has no circle: following a circle,
\* more and more of finitely many keys would be under way.
LEMMA RendersOnlySound ==
  ASSUME NEW raw \in Raws, Renders(raw)
  PROVE  Defined(raw) /\ NoCircle(raw)
<1> DEFINE held == Resolver(raw)
<1>1. DOMAIN raw \subseteq Key /\ \A k \in DOMAIN raw : raw[k] \subseteq Key
  BY DEF Raws
<1>2. DOMAIN raw \subseteq held[{}]
  BY RendersByResolver
<1>a. \A R \in SUBSET Key : held[R] = {k \in DOMAIN raw \ R : raw[k] \subseteq held[R \cup {k}]}
  BY ResolverUnfolds
<1> HIDE DEF held
<1>3. \A R \in SUBSET Key : \A k \in held[R] : k \in DOMAIN raw \ R /\ R \cup {k} \in SUBSET Key /\ raw[k] \subseteq held[R \cup {k}]
  BY <1>1, <1>a
<1>4. Defined(raw)
  <2> SUFFICES ASSUME NEW k \in DOMAIN raw, NEW ref \in raw[k] PROVE ref \in DOMAIN raw
    BY DEF Defined
  <2>1. k \in held[{}] /\ {} \in SUBSET Key
    BY <1>2
  <2>2. raw[k] \subseteq held[{} \cup {k}] /\ {} \cup {k} \in SUBSET Key
    BY <2>1, <1>3
  <2> QED
    BY <2>2, <1>3
<1>5. NoCircle(raw)
  <2> SUFFICES ASSUME NEW circle \in SUBSET DOMAIN raw, circle # {}, \A k \in circle : raw[k] \cap circle # {} PROVE FALSE
    BY DEF NoCircle
  <2> DEFINE Visited == {R \in SUBSET Key : \E k \in circle : k \in held[R]}
             Left == {Cardinality(Key \ R) : R \in Visited}
  <2>1. {} \in Visited
    BY <1>2
  <2>2. \A R \in SUBSET Key : IsFiniteSet(Key \ R) /\ Cardinality(Key \ R) \in Nat
    BY EnvAssumption, FS_Subset, FS_CardinalityType
  <2>3. Left \in SUBSET Nat /\ Left # {}
    BY <2>1, <2>2
  <2>4. PICK R \in Visited : \A S \in Visited : Cardinality(Key \ R) <= Cardinality(Key \ S)
    <3>1. PICK n \in Left : \A i \in Left : n <= i
      <4> HIDE DEF Left
      <4> QED
        BY <2>3, LeastOf
    <3> QED
      BY <3>1
  <2>5. PICK k \in circle : k \in held[R]
    OBVIOUS
  <2>6. PICK ref \in circle : ref \in raw[k]
    BY <2>5
  <2>7. k \in Key \ R /\ R \cup {k} \in SUBSET Key /\ ref \in held[R \cup {k}]
    BY <1>1, <1>3, <2>5, <2>6
  <2>8. R \cup {k} \in Visited
    BY <2>6, <2>7
  <2>9. Cardinality((Key \ R) \ {k}) = Cardinality(Key \ R) - 1
    BY <2>2, <2>7, FS_RemoveElement
  <2>10. Key \ (R \cup {k}) = (Key \ R) \ {k}
    OBVIOUS
  <2>11. Cardinality(Key \ R) <= Cardinality(Key \ (R \cup {k})) /\ Cardinality(Key \ R) \in Nat
    BY <2>4, <2>8, <2>2
  <2>12. Cardinality(Key \ (R \cup {k})) = Cardinality(Key \ R) - 1
    BY <2>9, <2>10
  <2>13. PICK n \in Nat : n = Cardinality(Key \ R)
    BY <2>11
  <2>14. n <= n - 1
    BY <2>11, <2>12, <2>13
  <2> QED
    BY <2>14
<1> QED
  BY <1>4, <1>5

\* The converse: without a circle every key lies in a closed set of keys that stays
\* clear of those under way, so no reference leads back to them.
LEMMA SoundRenders ==
  ASSUME NEW raw \in Raws, Defined(raw), NoCircle(raw)
  PROVE  Renders(raw)
<1> DEFINE held == Resolver(raw)
           Closed(U) == \A k \in U : raw[k] \subseteq U
           Clear(k, R) == \E U \in SUBSET DOMAIN raw : Closed(U) /\ k \in U /\ U \cap R = {}
           Stuck == {k \in DOMAIN raw : \E R \in SUBSET Key : Clear(k, R) /\ k \notin held[R]}
<1>1. DOMAIN raw \subseteq Key
  BY DEF Raws
<1>2. ASSUME NEW k \in DOMAIN raw PROVE \A ref \in raw[k] : Clear(ref, {k})
  <2> DEFINE away == {x \in DOMAIN raw : Clear(x, {k})}
  <2>1. Closed(away) /\ k \notin away
    OBVIOUS
  <2>2. ASSUME NEW x \in DOMAIN raw, x # k, raw[x] \subseteq away PROVE x \in away
    <3>1. Closed(away \cup {x}) /\ away \cup {x} \in SUBSET DOMAIN raw /\ (away \cup {x}) \cap {k} = {}
      BY <2>1, <2>2
    <3> QED
      BY <3>1
  <2>3. PICK x \in DOMAIN raw \ away : raw[x] \cap (DOMAIN raw \ away) = {}
    BY <2>1 DEF NoCircle
  <2>4. raw[x] \subseteq away
    BY <2>3 DEF Defined
  <2> QED
    BY <2>2, <2>3, <2>4
<1>3. ASSUME NEW k \in Stuck PROVE \E ref \in raw[k] : ref \in Stuck
  <2>1. PICK R \in SUBSET Key : Clear(k, R) /\ k \notin held[R]
    OBVIOUS
  <2>2. PICK U \in SUBSET DOMAIN raw : Closed(U) /\ k \in U /\ U \cap R = {}
    BY <2>1
  <2>3. R \cup {k} \in SUBSET Key /\ k \in DOMAIN raw \ R
    BY <1>1, <2>2
  <2>4. PICK ref \in raw[k] : ref \notin held[R \cup {k}]
    <3>1. held[R] = {x \in DOMAIN raw \ R : raw[x] \subseteq held[R \cup {x}]}
      BY ResolverUnfolds
    <3> HIDE DEF held, Clear, Closed
    <3> QED
      BY <2>1, <2>3, <3>1
  <2>5. PICK W \in SUBSET DOMAIN raw : Closed(W) /\ ref \in W /\ W \cap {k} = {}
    BY <1>2, <2>3, <2>4
  <2>6. Closed(U \cap W) /\ ref \in U \cap W /\ (U \cap W) \cap (R \cup {k}) = {}
    BY <2>2, <2>4, <2>5
  <2>7. Clear(ref, R \cup {k})
    BY <2>2, <2>6
  <2> QED
    BY <2>3, <2>4, <2>7 DEF Defined
<1>4. Stuck = {}
  <2>1. Stuck \in SUBSET DOMAIN raw
    OBVIOUS
  <2> HIDE DEF Stuck
  <2> QED
    BY <1>3, <2>1 DEF NoCircle
<1>5. \A k \in DOMAIN raw : Clear(k, {})
  BY DEF Defined
<1>6. DOMAIN raw \subseteq held[{}]
  BY <1>4, <1>5
<1> QED
  BY <1>6, RendersByResolver

--------------------------------------------------------------------------------
SyncCall == [pc : {"idle", "started", "listed", "rendered", "over"}, todo : SUBSET Mach, version : Nat]
ChangeCall ==
  {[pc |-> "idle"], [pc |-> "over"]} \cup [pc : {"stored"}, op : {"set", "delete"}]
    \cup [pc : {"locked", "validated"}, op : {"set", "delete"}, key : Key, refs : SUBSET Key]

EnvTypeOK ==
  /\ vars \in Raws
  /\ version \in Nat
  /\ change \in [Change -> ChangeCall]
  /\ sync \in [Change -> SyncCall]
  /\ mach \in [Mach -> {"none", "CREATING", "STARTING", "RUNNING", "AWAY", "STOPPED"}]
  /\ build \in [Mach -> [pc : {"idle", "booted", "rendered", "written"}, version : Nat]]
  /\ files \in [Mach -> Nat]
  /\ raced \in BOOLEAN
  /\ skipped \subseteq Mach
  /\ dropped \subseteq Key

\* a request between its lock and its return holds the lock
ChangeHoldsLock == \A c \in Change : change[c].pc \in {"locked", "validated", "stored"} => holder = c

\* what was validated is still what would be stored
ValidatedRenders ==
  \A c \in Change : change[c].pc = "validated" => Renders(With(change[c].key, change[c].refs))

\* no older version is on its way
InFlightCurrent ==
  /\ \A c \in Change : sync[c].pc = "rendered" => sync[c].version = version
  /\ \A m \in Mach : /\ build[m].pc = "rendered" => build[m].version = version
                     /\ build[m].pc = "written" => files[m] = version

\* a goroutine will still reach the guest
Coming(m) ==
  \E c \in Change : \/ change[c].pc = "stored" \/ sync[c].pc = "started"
                    \/ sync[c].pc \in {"listed", "rendered"} /\ m \in sync[c].todo

\* a guest that is up, and that no sync has missed and no build is about to write
Due(m) == m \in Up /\ m \notin skipped /\ build[m].pc = "idle"

GuestsReached == Renders(vars) => \A m \in Mach : Due(m) => files[m] = version \/ Coming(m)

NoOldVersion == ~raced => InFlightCurrent /\ GuestsReached

EnvInv == EnvTypeOK /\ ChangeHoldsLock /\ ValidatedRenders /\ NoOldVersion /\ StoredVarsSound

LEMMA RawsKnown ==
  ASSUME NEW raw \in Raws
  PROVE  /\ DOMAIN raw \in SUBSET Key /\ raw \in [DOMAIN raw -> SUBSET Key]
         /\ \A k \in DOMAIN raw : raw[k] \in SUBSET Key
BY DEF Raws

LEMMA WithIsRaw ==
  ASSUME vars \in Raws, NEW k \in Key, NEW refs \in SUBSET Key
  PROVE  /\ With(k, refs) \in Raws /\ DOMAIN With(k, refs) = DOMAIN vars \cup {k}
         /\ With(k, refs)[k] = refs /\ \A i \in DOMAIN vars \ {k} : With(k, refs)[i] = vars[i]
<1>1. DOMAIN vars \in SUBSET Key /\ \A i \in DOMAIN vars : vars[i] \in SUBSET Key
  BY RawsKnown
<1>2. With(k, refs) \in [DOMAIN vars \cup {k} -> SUBSET Key]
  BY <1>1 DEF With
<1>3. DOMAIN vars \cup {k} \in SUBSET Key
  BY <1>1
<1> QED
  BY <1>1, <1>2, <1>3 DEF With, Raws

LEMMA RestrictIsRaw ==
  ASSUME vars \in Raws, NEW S \in SUBSET DOMAIN vars
  PROVE  /\ Restrict(vars, S) \in Raws /\ DOMAIN Restrict(vars, S) = S
         /\ \A i \in S : Restrict(vars, S)[i] = vars[i]
<1>1. DOMAIN vars \in SUBSET Key /\ \A i \in DOMAIN vars : vars[i] \in SUBSET Key
  BY RawsKnown
<1>2. Restrict(vars, S) \in [S -> SUBSET Key] /\ S \in SUBSET Key
  BY <1>1 DEF Restrict
<1> QED
  BY <1>2 DEF Restrict, Raws

LEMMA EnvInvInit == EnvInit => EnvInv
<1> SUFFICES ASSUME EnvInit PROVE EnvInv
  OBVIOUS
<1>1. vars \in Raws /\ DOMAIN vars = {}
  <2>1. vars = <<>>
    BY DEF EnvInit
  <2>2. vars \in [{} -> SUBSET Key] /\ DOMAIN vars = {}
    BY <2>1
  <2> QED
    BY <2>2 DEF Raws
<1>2. EnvTypeOK
  BY <1>1 DEF EnvInit, EnvTypeOK, SyncCall, NoSync, ChangeCall, NoBuild
<1>3. ChangeHoldsLock /\ ValidatedRenders
  BY DEF EnvInit, ChangeHoldsLock, ValidatedRenders
<1>4. InFlightCurrent
  BY DEF EnvInit, InFlightCurrent, NoSync, NoBuild
<1>5. GuestsReached
  BY DEF EnvInit, GuestsReached, Due, Up
<1>6. StoredVarsSound
  BY <1>1 DEF StoredVarsSound
<1> QED
  BY <1>2, <1>3, <1>4, <1>5, <1>6 DEF EnvInv, NoOldVersion

--------------------------------------------------------------------------------
\* a step of a request that stores nothing
LEMMA ChangeCallKeeps ==
  ASSUME EnvInv, NEW c \in Change, NEW call \in ChangeCall, change' = [change EXCEPT ![c] = call],
         change[c].pc # "stored", call.pc # "stored",
         UNCHANGED <<vars, version, sync, mach, build, files, raced, skipped, dropped>>,
         call.pc \in {"locked", "validated"} => holder' = c,
         \A d \in Change \ {c} : change[d].pc \in {"locked", "validated", "stored"} => holder' = d,
         call.pc = "validated" => Renders(With(call.key, call.refs))
  PROVE  EnvInv'
<1> USE DEF EnvInv
<1>1. change' \in [Change -> ChangeCall] /\ change'[c] = call /\ \A d \in Change \ {c} : change'[d] = change[d]
  BY DEF EnvTypeOK
<1>2. EnvTypeOK'
  BY <1>1 DEF EnvTypeOK
<1>3. ChangeHoldsLock'
  BY <1>1 DEF ChangeHoldsLock
<1>4. ValidatedRenders'
  <2>1. \A k, refs : With(k, refs)' = With(k, refs)
    BY DEF With
  <2>2. \A d \in Change \ {c} : change[d].pc = "validated" => Renders(With(change[d].key, change[d].refs))
    BY DEF ValidatedRenders
  <2> HIDE DEF EnvInv
  <2> QED
    BY <1>1, <2>1, <2>2 DEF ValidatedRenders
<1>5. \A m \in Mach : Coming(m) => Coming(m)'
  BY <1>1 DEF Coming
<1>6. NoOldVersion'
  BY <1>5 DEF NoOldVersion, InFlightCurrent, GuestsReached, Due, Up
<1>7. StoredVarsSound'
  BY DEF StoredVarsSound
<1> QED
  BY <1>2, <1>3, <1>4, <1>6, <1>7

LEMMA LockChangeKeeps ==
  ASSUME EnvInv, NEW c \in Change, LockChange(c)
  PROVE  EnvInv'
<1>1. PICK k \in Key, refs \in SUBSET Key, op \in {"set", "delete"} :
        change' = [change EXCEPT ![c] = [pc |-> "locked", op |-> op, key |-> k, refs |-> refs]]
  BY DEF LockChange
<1>2. PICK call : call = [pc |-> "locked", op |-> op, key |-> k, refs |-> refs]
  OBVIOUS
<1>3. call \in ChangeCall /\ call.pc = "locked"
  BY <1>2 DEF ChangeCall
<1>4. /\ change' = [change EXCEPT ![c] = call] /\ change[c].pc # "stored" /\ holder' = c
      /\ UNCHANGED <<vars, version, sync, mach, build, files, raced, skipped, dropped>>
  BY <1>1, <1>2 DEF LockChange
<1>5. \A d \in Change : change[d].pc \notin {"locked", "validated", "stored"}
  BY EnvAssumption DEF LockChange, EnvInv, ChangeHoldsLock
<1> QED
  BY <1>3, <1>4, <1>5, ChangeCallKeeps

LEMMA SetValidateKeeps ==
  ASSUME EnvInv, NEW c \in Change, SetValidate(c)
  PROVE  EnvInv'
<1>1. PICK call : call = [change[c] EXCEPT !.pc = "validated"]
  OBVIOUS
<1>2. change[c] \in ChangeCall /\ change[c].pc = "locked"
  BY DEF SetValidate, EnvInv, EnvTypeOK
<1>3. call \in ChangeCall /\ call.pc = "validated" /\ call.key = change[c].key /\ call.refs = change[c].refs
  BY <1>1, <1>2 DEF ChangeCall
<1>4. /\ change' = [change EXCEPT ![c] = call] /\ holder' = holder
      /\ UNCHANGED <<vars, version, sync, mach, build, files, raced, skipped, dropped>>
      /\ Renders(With(call.key, call.refs))
  BY <1>1, <1>3 DEF SetValidate
<1>5. \A d \in Change : change[d].pc \in {"locked", "validated", "stored"} => holder' = d
  BY <1>4 DEF EnvInv, ChangeHoldsLock
<1> QED
  BY <1>2, <1>3, <1>4, <1>5, ChangeCallKeeps

\* a request that ends unlocks what it held
LEMMA ChangeEndsKeeps ==
  ASSUME EnvInv, NEW c \in Change, SetReject(c) \/ DeleteNotFound(c)
  PROVE  EnvInv'
<1>1. PICK call : call = [pc |-> "over"]
  OBVIOUS
<1>2. call \in ChangeCall /\ call.pc = "over"
  BY <1>1 DEF ChangeCall
<1>3. /\ change' = [change EXCEPT ![c] = call] /\ change[c].pc = "locked"
      /\ UNCHANGED <<vars, version, sync, mach, build, files, raced, skipped, dropped>>
  BY <1>1 DEF SetReject, DeleteNotFound, ChangeOver
<1>4. \A d \in Change \ {c} : change[d].pc \notin {"locked", "validated", "stored"}
  BY <1>3 DEF EnvInv, ChangeHoldsLock
<1> QED
  BY <1>2, <1>3, <1>4, ChangeCallKeeps

--------------------------------------------------------------------------------
\* A change is stored: its request is the one that holds the lock, so nothing else
\* has been validated; its goroutine is still to come.
LEMMA StoredKeeps ==
  ASSUME EnvInv, NEW c \in Change, change[c].pc \in {"locked", "validated"}, Stored(c),
         vars' \in Raws, dropped' \subseteq Key, StoredVarsSound'
  PROVE  EnvInv'
<1> USE DEF EnvInv
<1>1. PICK call : call = [pc |-> "stored", op |-> change[c].op]
  OBVIOUS
<1>2. call \in ChangeCall /\ call.pc = "stored"
  BY <1>1 DEF EnvTypeOK, ChangeCall
<1>3. change' = [change EXCEPT ![c] = call]
  BY <1>1 DEF Stored
<1>4. change' \in [Change -> ChangeCall] /\ change'[c] = call /\ \A d \in Change \ {c} : change'[d] = change[d]
  BY <1>2, <1>3 DEF EnvTypeOK
<1>5. EnvTypeOK'
  BY <1>4 DEF EnvTypeOK, Stored, InFlight
<1>6. \A d \in Change \ {c} : change[d].pc \notin {"locked", "validated", "stored"}
  BY DEF ChangeHoldsLock
<1>7. ChangeHoldsLock' /\ ValidatedRenders'
  BY <1>2, <1>4, <1>6 DEF ChangeHoldsLock, ValidatedRenders, Stored
<1>8. ASSUME ~raced' PROVE InFlightCurrent'
  <2>1. ~InFlight
    BY <1>8 DEF Stored
  <2> QED
    BY <2>1 DEF InFlight, InFlightCurrent, Stored
<1>9. \A m \in Mach : Coming(m)'
  BY <1>2, <1>4 DEF Coming
<1>10. NoOldVersion'
  BY <1>8, <1>9 DEF NoOldVersion, GuestsReached
<1> QED
  BY <1>5, <1>7, <1>10

LEMMA SetStoreKeeps ==
  ASSUME EnvInv, NEW c \in Change, SetStore(c)
  PROVE  EnvInv'
<1>1. PICK k : k = change[c].key
  OBVIOUS
<1>2. PICK refs : refs = change[c].refs
  OBVIOUS
<1>3. k \in Key /\ refs \in SUBSET Key
  BY <1>1, <1>2 DEF SetStore, EnvInv, EnvTypeOK, ChangeCall
<1>4. vars' = With(k, refs) /\ Renders(With(k, refs)) /\ dropped' = dropped \ refs /\ Stored(c)
  BY <1>1, <1>2 DEF SetStore, EnvInv, ValidatedRenders
<1>5. vars' \in Raws
  BY <1>3, <1>4, WithIsRaw DEF EnvInv, EnvTypeOK
<1>6. PICK raw \in Raws : raw = vars'
  BY <1>5
<1>7. Defined(raw) /\ NoCircle(raw)
  BY <1>4, <1>6, RendersOnlySound
<1>8. StoredVarsSound'
  BY <1>6, <1>7 DEF StoredVarsSound, Defined, NoCircle
<1>9. dropped' \subseteq Key
  BY <1>4 DEF EnvInv, EnvTypeOK
<1> QED
  BY <1>4, <1>5, <1>8, <1>9, StoredKeeps DEF SetStore

LEMMA DeleteStoreKeeps ==
  ASSUME EnvInv, NEW c \in Change, DeleteStore(c)
  PROVE  EnvInv'
<1>1. PICK k : k = change[c].key
  OBVIOUS
<1>2. k \in DOMAIN vars /\ vars' = Restrict(vars, DOMAIN vars \ {k}) /\ dropped' = dropped \cup {k} /\ Stored(c)
      /\ change[c].pc = "locked"
  BY <1>1 DEF DeleteStore
<1>3. /\ vars' \in Raws /\ DOMAIN vars' = DOMAIN vars \ {k}
      /\ \A i \in DOMAIN vars \ {k} : vars'[i] = vars[i]
  BY <1>2, RestrictIsRaw DEF EnvInv, EnvTypeOK
<1>4. StoredVarsSound'
  BY <1>2, <1>3 DEF EnvInv, StoredVarsSound
<1>5. dropped' \subseteq Key
  BY <1>2, RawsKnown DEF EnvInv, EnvTypeOK
<1> QED
  BY <1>2, <1>3, <1>4, <1>5, StoredKeeps

\* the goroutine of the change takes over
LEMMA ChangeReturnKeeps ==
  ASSUME EnvInv, NEW c \in Change, ChangeReturn(c)
  PROVE  EnvInv'
<1> USE DEF EnvInv
<1>1. PICK call : call = [pc |-> "over"]
  OBVIOUS
<1>2. PICK run : run = [sync[c] EXCEPT !.pc = "started"]
  OBVIOUS
<1>3. call \in ChangeCall /\ call.pc = "over" /\ run \in SyncCall /\ run.pc = "started"
  BY <1>1, <1>2 DEF ChangeCall, SyncCall, EnvTypeOK
<1>4. change' = [change EXCEPT ![c] = call] /\ sync' = [sync EXCEPT ![c] = run] /\ holder' = Nobody
      /\ UNCHANGED <<vars, version, mach, build, files, raced, skipped, dropped>>
  BY <1>1, <1>2 DEF ChangeReturn, ChangeOver
<1>5. /\ change' \in [Change -> ChangeCall] /\ change'[c] = call /\ \A d \in Change \ {c} : change'[d] = change[d]
      /\ sync' \in [Change -> SyncCall] /\ sync'[c] = run /\ \A d \in Change \ {c} : sync'[d] = sync[d]
  BY <1>3, <1>4 DEF EnvTypeOK
<1>6. EnvTypeOK'
  BY <1>4, <1>5 DEF EnvTypeOK
<1>7. \A d \in Change \ {c} : change[d].pc \notin {"locked", "validated", "stored"}
  BY DEF ChangeHoldsLock, ChangeReturn
<1>8. ChangeHoldsLock' /\ ValidatedRenders'
  BY <1>3, <1>5, <1>7 DEF ChangeHoldsLock, ValidatedRenders
<1>9. \A m \in Mach : Coming(m)'
  BY <1>3, <1>5 DEF Coming
<1>10. InFlightCurrent => InFlightCurrent'
  BY <1>3, <1>4, <1>5 DEF InFlightCurrent
<1>11. NoOldVersion'
  BY <1>4, <1>9, <1>10 DEF NoOldVersion, GuestsReached
<1>12. StoredVarsSound'
  BY <1>4 DEF StoredVarsSound
<1> QED
  BY <1>6, <1>8, <1>11, <1>12

\* a change that ends without a goroutine has missed every guest that is up
LEMMA SetUnreadKeeps ==
  ASSUME EnvInv, NEW c \in Change, SetUnread(c)
  PROVE  EnvInv'
<1> USE DEF EnvInv
<1>1. PICK call : call = [pc |-> "over"]
  OBVIOUS
<1>2. call \in ChangeCall /\ call.pc = "over"
  BY <1>1 DEF ChangeCall
<1>3. change' = [change EXCEPT ![c] = call] /\ skipped' = skipped \cup Up
      /\ UNCHANGED <<vars, version, sync, mach, build, files, raced, dropped>>
  BY <1>1 DEF SetUnread, ChangeOver
<1>4. change' \in [Change -> ChangeCall] /\ change'[c] = call /\ \A d \in Change \ {c} : change'[d] = change[d]
  BY <1>2, <1>3 DEF EnvTypeOK
<1>5. EnvTypeOK'
  BY <1>3, <1>4 DEF EnvTypeOK, Up
<1>6. \A d \in Change \ {c} : change[d].pc \notin {"locked", "validated", "stored"}
  BY DEF ChangeHoldsLock, SetUnread
<1>7. ChangeHoldsLock' /\ ValidatedRenders'
  BY <1>2, <1>4, <1>6 DEF ChangeHoldsLock, ValidatedRenders
<1>8. \A m \in Mach : ~Due(m)'
  BY <1>3 DEF Due, Up
<1>9. InFlightCurrent => InFlightCurrent'
  BY <1>3 DEF InFlightCurrent
<1>10. NoOldVersion'
  BY <1>3, <1>8, <1>9 DEF NoOldVersion, GuestsReached
<1>11. StoredVarsSound'
  BY <1>3 DEF StoredVarsSound
<1> QED
  BY <1>5, <1>7, <1>10, <1>11

--------------------------------------------------------------------------------
\* steps of a goroutine: the stored variables and the requests stay
LEMMA SyncKeeps ==
  ASSUME EnvInv, NEW c \in Change, NEW run \in SyncCall, sync' = [sync EXCEPT ![c] = run], syncOnly,
         files' \in [Mach -> Nat], skipped' \subseteq Mach, NoOldVersion'
  PROVE  EnvInv'
<1> USE DEF EnvInv
<1>1. EnvTypeOK'
  BY DEF EnvTypeOK, syncOnly
<1>2. ChangeHoldsLock'
  BY DEF ChangeHoldsLock, syncOnly
<1>3. ValidatedRenders'
  BY DEF ValidatedRenders, syncOnly, With
<1>4. StoredVarsSound'
  BY DEF StoredVarsSound, syncOnly
<1> QED
  BY <1>1, <1>2, <1>3, <1>4

\* the machines whose rows say RUNNING are on the list, the others that are up are missed
LEMMA SyncListKeeps ==
  ASSUME EnvInv, NEW c \in Change, SyncList(c)
  PROVE  EnvInv'
<1> USE DEF EnvInv
<1>1. PICK run : run = [sync[c] EXCEPT !.pc = "listed", !.todo = {m \in Mach : mach[m] = "RUNNING"}]
  OBVIOUS
<1>2. run \in SyncCall /\ run.pc = "listed" /\ run.todo = {m \in Mach : mach[m] = "RUNNING"}
  BY <1>1 DEF EnvTypeOK, SyncCall
<1>3. sync' = [sync EXCEPT ![c] = run] /\ syncOnly /\ files' = files
      /\ skipped' = skipped \cup {m \in Mach : mach[m] = "AWAY"}
  BY <1>1 DEF SyncList
<1>4. sync'[c] = run /\ \A d \in Change \ {c} : sync'[d] = sync[d]
  BY <1>3 DEF EnvTypeOK
<1>5. \A m \in Mach : Due(m)' => Coming(m)'
  BY <1>2, <1>3, <1>4 DEF Coming, Due, Up, syncOnly
<1>6. InFlightCurrent => InFlightCurrent'
  BY <1>2, <1>3, <1>4 DEF InFlightCurrent, syncOnly
<1>7. NoOldVersion'
  BY <1>3, <1>5, <1>6 DEF NoOldVersion, GuestsReached, syncOnly
<1>8. files' \in [Mach -> Nat] /\ skipped' \subseteq Mach
  BY <1>3 DEF EnvTypeOK
<1> QED
  BY <1>2, <1>3, <1>7, <1>8, SyncKeeps

LEMMA SyncListFailKeeps ==
  ASSUME EnvInv, NEW c \in Change, SyncListFail(c)
  PROVE  EnvInv'
<1> USE DEF EnvInv
<1>1. PICK run : run = [sync[c] EXCEPT !.pc = "over"]
  OBVIOUS
<1>2. run \in SyncCall /\ run.pc = "over"
  BY <1>1 DEF EnvTypeOK, SyncCall
<1>3. sync' = [sync EXCEPT ![c] = run] /\ syncOnly /\ files' = files /\ skipped' = skipped \cup Up
  BY <1>1 DEF SyncListFail
<1>4. sync'[c] = run /\ \A d \in Change \ {c} : sync'[d] = sync[d]
  BY <1>3 DEF EnvTypeOK
<1>5. \A m \in Mach : ~Due(m)'
  BY <1>3 DEF Due, Up, syncOnly
<1>6. InFlightCurrent => InFlightCurrent'
  BY <1>2, <1>3, <1>4 DEF InFlightCurrent, syncOnly
<1>7. NoOldVersion'
  BY <1>3, <1>5, <1>6 DEF NoOldVersion, GuestsReached, syncOnly
<1>8. files' \in [Mach -> Nat] /\ skipped' \subseteq Mach
  BY <1>3 DEF EnvTypeOK, Up
<1> QED
  BY <1>2, <1>3, <1>7, <1>8, SyncKeeps

LEMMA SyncRenderKeeps ==
  ASSUME EnvInv, NEW c \in Change, SyncRender(c)
  PROVE  EnvInv'
<1> USE DEF EnvInv
<1>1. PICK run : run = [sync[c] EXCEPT !.pc = "rendered", !.version = version]
  OBVIOUS
<1>2. run \in SyncCall /\ run.pc = "rendered" /\ run.todo = sync[c].todo /\ run.version = version
  BY <1>1 DEF EnvTypeOK, SyncCall
<1>3. sync' = [sync EXCEPT ![c] = run] /\ syncOnly /\ UNCHANGED <<files, skipped>> /\ sync[c].pc = "listed"
  BY <1>1 DEF SyncRender
<1>4. sync'[c] = run /\ \A d \in Change \ {c} : sync'[d] = sync[d]
  BY <1>3 DEF EnvTypeOK
<1>5. \A m \in Mach : Coming(m) => Coming(m)'
  BY <1>2, <1>3, <1>4 DEF Coming, syncOnly
<1>6. InFlightCurrent => InFlightCurrent'
  BY <1>2, <1>3, <1>4 DEF InFlightCurrent, syncOnly
<1>7. NoOldVersion'
  BY <1>3, <1>5, <1>6 DEF NoOldVersion, GuestsReached, Due, Up, syncOnly
<1>8. files' \in [Mach -> Nat] /\ skipped' \subseteq Mach
  BY <1>3 DEF EnvTypeOK
<1> QED
  BY <1>2, <1>3, <1>7, <1>8, SyncKeeps

\* the guest that leaves the list holds the version that is stored
LEMMA SyncWriteKeeps ==
  ASSUME EnvInv, NEW c \in Change, SyncWrite(c)
  PROVE  EnvInv'
<1> USE DEF EnvInv
<1>1. PICK m \in sync[c].todo :
        /\ files' = [files EXCEPT ![m] = sync[c].version] /\ skipped' = skipped \ {m}
        /\ sync' = [sync EXCEPT ![c] = [pc |-> "listed", todo |-> @.todo \ {m}, version |-> 0]]
  BY DEF SyncWrite
<1>2. PICK run : run = [pc |-> "listed", todo |-> sync[c].todo \ {m}, version |-> 0]
  OBVIOUS
<1>3. sync[c].todo \in SUBSET Mach /\ sync[c].version \in Nat
  BY DEF EnvTypeOK, SyncCall
<1>4. run \in SyncCall /\ run.pc = "listed" /\ run.todo = sync[c].todo \ {m}
  BY <1>2, <1>3 DEF SyncCall
<1>5. sync' = [sync EXCEPT ![c] = run] /\ syncOnly /\ skipped' = skipped \ {m} /\ sync[c].pc = "rendered"
  BY <1>1, <1>2 DEF SyncWrite
<1>6. sync'[c] = run /\ \A d \in Change \ {c} : sync'[d] = sync[d]
  BY <1>5 DEF EnvTypeOK
<1>7. files' \in [Mach -> Nat] /\ files'[m] = sync[c].version /\ \A n \in Mach \ {m} : files'[n] = files[n]
  BY <1>1, <1>3 DEF EnvTypeOK
<1>8. \A n \in Mach \ {m} : Coming(n) => Coming(n)'
  BY <1>4, <1>5, <1>6 DEF Coming, syncOnly
<1>9. ASSUME InFlightCurrent PROVE InFlightCurrent' /\ files'[m] = version
  BY <1>4, <1>5, <1>6, <1>7, <1>9 DEF InFlightCurrent, syncOnly
<1>10. \A n \in Mach \ {m} : Due(n)' => Due(n)
  BY <1>5 DEF Due, Up, syncOnly
<1>11. InFlightCurrent /\ GuestsReached => GuestsReached'
  BY <1>5, <1>7, <1>8, <1>9, <1>10 DEF GuestsReached, syncOnly
<1>12. NoOldVersion'
  BY <1>5, <1>9, <1>11 DEF NoOldVersion, syncOnly
<1>13. skipped' \subseteq Mach
  BY <1>5 DEF EnvTypeOK
<1> QED
  BY <1>4, <1>5, <1>7, <1>12, <1>13, SyncKeeps

\* a write that fails counts, unless the variables do not render
LEMMA SyncFailKeeps ==
  ASSUME EnvInv, NEW c \in Change, SyncFail(c)
  PROVE  EnvInv'
<1> USE DEF EnvInv
<1>1. PICK m \in sync[c].todo :
        /\ sync' = [sync EXCEPT ![c] = [pc |-> "listed", todo |-> @.todo \ {m}, version |-> 0]]
        /\ skipped' = IF Renders(vars) THEN skipped \cup {m} ELSE skipped
  BY DEF SyncFail
<1>2. PICK run : run = [pc |-> "listed", todo |-> sync[c].todo \ {m}, version |-> 0]
  OBVIOUS
<1>3. m \in Mach /\ run \in SyncCall /\ run.pc = "listed" /\ run.todo = sync[c].todo \ {m}
  BY <1>2 DEF SyncCall, EnvTypeOK
<1>4. sync' = [sync EXCEPT ![c] = run] /\ syncOnly /\ files' = files /\ skipped \subseteq skipped'
      /\ skipped' \subseteq Mach /\ (Renders(vars) => m \in skipped')
      /\ sync[c].pc \in {"listed", "rendered"}
  BY <1>1, <1>2, <1>3 DEF SyncFail, EnvTypeOK
<1>5. sync'[c] = run /\ \A d \in Change \ {c} : sync'[d] = sync[d]
  BY <1>4 DEF EnvTypeOK
<1>6. InFlightCurrent => InFlightCurrent'
  BY <1>3, <1>4, <1>5 DEF InFlightCurrent, syncOnly
<1>7. ASSUME Renders(vars), NEW n \in Mach, Due(n)'
      PROVE  Due(n) /\ (Coming(n) => Coming(n)')
  <2>1. n # m /\ Due(n)
    BY <1>4, <1>7 DEF Due, Up, syncOnly
  <2>2. Coming(n) => Coming(n)'
    BY <1>3, <1>4, <1>5, <2>1 DEF Coming, syncOnly
  <2> QED
    BY <2>1, <2>2
<1>8. NoOldVersion'
  BY <1>4, <1>6, <1>7 DEF NoOldVersion, GuestsReached, syncOnly
<1>9. files' \in [Mach -> Nat]
  BY <1>4 DEF EnvTypeOK
<1> QED
  BY <1>3, <1>4, <1>8, <1>9, SyncKeeps

LEMMA SyncEndKeeps ==
  ASSUME EnvInv, NEW c \in Change, SyncEnd(c)
  PROVE  EnvInv'
<1> USE DEF EnvInv
<1>1. PICK run : run = [NoSync EXCEPT !.pc = "over"]
  OBVIOUS
<1>2. run \in SyncCall /\ run.pc = "over"
  BY <1>1 DEF SyncCall, NoSync
<1>3. sync' = [sync EXCEPT ![c] = run] /\ syncOnly /\ UNCHANGED <<files, skipped>> /\ sync[c].todo = {} /\ sync[c].pc = "listed"
  BY <1>1 DEF SyncEnd
<1>4. sync'[c] = run /\ \A d \in Change \ {c} : sync'[d] = sync[d]
  BY <1>3 DEF EnvTypeOK
<1>5. \A m \in Mach : Coming(m) => Coming(m)'
  BY <1>3, <1>4 DEF Coming, syncOnly
<1>6. InFlightCurrent => InFlightCurrent'
  BY <1>2, <1>3, <1>4 DEF InFlightCurrent, syncOnly
<1>7. NoOldVersion'
  BY <1>3, <1>5, <1>6 DEF NoOldVersion, GuestsReached, Due, Up, syncOnly
<1>8. files' \in [Mach -> Nat] /\ skipped' \subseteq Mach
  BY <1>3 DEF EnvTypeOK
<1> QED
  BY <1>2, <1>3, <1>7, <1>8, SyncKeeps

--------------------------------------------------------------------------------
(* The machines.  A build that ends with its machine RUNNING wrote. *)

State == {"none", "CREATING", "STARTING", "RUNNING", "AWAY", "STOPPED"}
Builds == [pc : {"idle", "booted", "rendered", "written"}, version : Nat]

\* a step of machine m that keeps what its build and its guest hold in order
LEMMA MachineKeeps ==
  ASSUME EnvInv, NEW m \in Mach, NEW b \in Builds, build' = [build EXCEPT ![m] = b],
         NEW s \in State, mach' = [mach EXCEPT ![m] = s],
         NEW f \in Nat, files' = [files EXCEPT ![m] = f],
         \/ skipped' = skipped \/ skipped' = skipped \cup {m}
         \/ skipped' = skipped \ {m} /\ b.pc # "idle",
         buildOnly, holder' = holder \/ holder \notin Change,
         InFlightCurrent =>
           /\ b.pc = "rendered" => b.version = version
           /\ b.pc = "written" => f = version
           /\ f = files[m] \/ f = version
           /\ s \in {"RUNNING", "AWAY"} /\ b.pc = "idle"
                => \/ f = version \/ m \in skipped'
                   \/ mach[m] \in {"RUNNING", "AWAY"} /\ build[m].pc = "idle"
  PROVE  EnvInv'
<1> USE DEF EnvInv
<1>1. /\ build' \in [Mach -> Builds] /\ build'[m] = b /\ \A n \in Mach \ {m} : build'[n] = build[n]
      /\ mach' \in [Mach -> State] /\ mach'[m] = s /\ \A n \in Mach \ {m} : mach'[n] = mach[n]
      /\ files' \in [Mach -> Nat] /\ files'[m] = f /\ \A n \in Mach \ {m} : files'[n] = files[n]
  BY DEF EnvTypeOK, Builds, State
<1>2. EnvTypeOK'
  BY <1>1 DEF EnvTypeOK, Builds, State, buildOnly
<1>3. ChangeHoldsLock'
  BY DEF ChangeHoldsLock, buildOnly
<1>4. ValidatedRenders'
  BY DEF ValidatedRenders, buildOnly, With
<1>5. \A n \in Mach : Coming(n)' <=> Coming(n)
  BY DEF Coming, buildOnly
<1>6. InFlightCurrent => InFlightCurrent'
  BY <1>1 DEF InFlightCurrent, buildOnly
<1>7. InFlightCurrent /\ GuestsReached => GuestsReached'
  <2> SUFFICES ASSUME InFlightCurrent, GuestsReached, Renders(vars), NEW n \in Mach, Due(n)'
               PROVE  files'[n] = version \/ Coming(n)
    BY <1>5 DEF GuestsReached, buildOnly
  <2>1. CASE n # m
    <3>1. Due(n)
      BY <1>1, <2>1 DEF Due, Up
    <3> QED
      BY <1>1, <2>1, <3>1 DEF GuestsReached
  <2>2. CASE n = m
    <3>1. s \in {"RUNNING", "AWAY"} /\ b.pc = "idle" /\ m \notin skipped /\ m \notin skipped'
      BY <1>1, <2>2 DEF Due, Up
    <3>2. f = version \/ (Due(m) /\ f = files[m])
      BY <3>1 DEF Due, Up
    <3> QED
      BY <1>1, <2>2, <3>2 DEF GuestsReached
  <2> QED
    BY <2>1, <2>2
<1>8. NoOldVersion'
  BY <1>6, <1>7 DEF NoOldVersion, buildOnly
<1>9. StoredVarsSound'
  BY DEF StoredVarsSound, buildOnly
<1> QED
  BY <1>2, <1>3, <1>4, <1>8, <1>9

LEMMA BuildTypes ==
  ASSUME EnvInv, NEW m \in Mach
  PROVE  /\ build[m] \in Builds /\ mach[m] \in State /\ files[m] \in Nat /\ version \in Nat
         /\ build = [build EXCEPT ![m] = build[m]] /\ mach = [mach EXCEPT ![m] = mach[m]]
         /\ files = [files EXCEPT ![m] = files[m]]
BY DEF EnvInv, EnvTypeOK, Builds, State

LEMMA UnlockKeepsOthers ==
  ASSUME NEW m \in Mach, Unlock(m)
  PROVE  holder' = holder \/ holder \notin Change
BY EnvAssumption DEF Unlock

LEMMA BootKeeps ==
  ASSUME EnvInv, NEW m \in Mach, CreateBoot(m) \/ LockedBoot(m)
  PROVE  EnvInv'
<1>1. PICK b : b = [build[m] EXCEPT !.pc = "booted"]
  OBVIOUS
<1>2. PICK s : s = mach'[m]
  OBVIOUS
<1>3. b \in Builds /\ b.pc = "booted" /\ build' = [build EXCEPT ![m] = b]
  BY <1>1, BuildTypes DEF CreateBoot, LockedBoot, Builds
<1>4. s \in State /\ s \notin {"RUNNING", "AWAY"} /\ mach' = [mach EXCEPT ![m] = s]
  BY <1>2 DEF CreateBoot, LockedBoot, EnvInv, EnvTypeOK, State
<1>5. files' = [files EXCEPT ![m] = files[m]] /\ files[m] \in Nat /\ buildOnly /\ skipped' = skipped
  BY BuildTypes DEF CreateBoot, LockedBoot
<1>6. holder' = holder \/ holder \notin Change
  BY EnvAssumption DEF CreateBoot, LockedBoot
<1> QED
  BY <1>3, <1>4, <1>5, <1>6, MachineKeeps

LEMMA BuildRenderKeeps ==
  ASSUME EnvInv, NEW m \in Mach, BuildRender(m)
  PROVE  EnvInv'
<1>1. PICK b : b = [pc |-> "rendered", version |-> version]
  OBVIOUS
<1>2. b \in Builds /\ b.pc = "rendered" /\ b.version = version /\ build' = [build EXCEPT ![m] = b]
  BY <1>1, BuildTypes DEF BuildRender, Builds
<1>3. mach' = [mach EXCEPT ![m] = mach[m]] /\ files' = [files EXCEPT ![m] = files[m]] /\ mach[m] \in State /\ files[m] \in Nat
      /\ buildOnly /\ holder' = holder /\ skipped' = skipped
  BY BuildTypes DEF BuildRender
<1> QED
  BY <1>2, <1>3, MachineKeeps

LEMMA BuildWriteKeeps ==
  ASSUME EnvInv, NEW m \in Mach, BuildWrite(m)
  PROVE  EnvInv'
<1>1. PICK b : b = [pc |-> "written", version |-> 0]
  OBVIOUS
<1>2. b \in Builds /\ b.pc = "written" /\ build' = [build EXCEPT ![m] = b]
  BY <1>1 DEF BuildWrite, Builds
<1>3. PICK f \in Nat : f = build[m].version
  BY BuildTypes DEF Builds
<1>4. files' = [files EXCEPT ![m] = f] /\ build[m].pc = "rendered" /\ mach' = [mach EXCEPT ![m] = mach[m]] /\ mach[m] \in State
      /\ buildOnly /\ holder' = holder /\ skipped' = skipped \ {m}
  BY <1>3, BuildTypes DEF BuildWrite
<1>5. InFlightCurrent => f = version
  BY <1>3, <1>4 DEF InFlightCurrent
<1> QED
  BY <1>2, <1>4, <1>5, MachineKeeps

\* a fork's row says RUNNING while its build goes on
LEMMA ForkRunningKeeps ==
  ASSUME EnvInv, NEW m \in Mach, ForkRunning(m)
  PROVE  EnvInv'
<1>1. build' = [build EXCEPT ![m] = build[m]] /\ build[m] \in Builds /\ build[m].pc = "booted"
  BY BuildTypes DEF ForkRunning
<1>2. mach' = [mach EXCEPT ![m] = "RUNNING"] /\ "RUNNING" \in State
  BY DEF ForkRunning, State
<1>3. files' = [files EXCEPT ![m] = files[m]] /\ files[m] \in Nat /\ buildOnly /\ holder' = holder /\ skipped' = skipped
  BY BuildTypes DEF ForkRunning
<1> QED
  BY <1>1, <1>2, <1>3, MachineKeeps

LEMMA BuildOverKeeps ==
  ASSUME EnvInv, NEW m \in Mach, BuildDone(m) \/ BuildFail(m)
  PROVE  EnvInv'
<1>1. PICK s : s = mach'[m]
  OBVIOUS
<1>2. NoBuild \in Builds /\ NoBuild.pc = "idle" /\ build' = [build EXCEPT ![m] = NoBuild]
  BY DEF BuildDone, BuildFail, Builds, NoBuild
<1>3. /\ s \in State /\ mach' = [mach EXCEPT ![m] = s]
      /\ s \in {"RUNNING", "AWAY"} => build[m].pc = "written" \/ m \in skipped'
  BY <1>1 DEF BuildDone, BuildFail, EnvInv, EnvTypeOK, State
<1>4. /\ files' = [files EXCEPT ![m] = files[m]] /\ files[m] \in Nat /\ buildOnly
      /\ skipped' = skipped \/ skipped' = skipped \cup {m}
  BY BuildTypes DEF BuildDone, BuildFail
<1>5. holder' = holder \/ holder \notin Change
  BY UnlockKeepsOthers DEF BuildDone, BuildFail
<1>6. InFlightCurrent => (build[m].pc = "written" => files[m] = version)
  BY DEF InFlightCurrent
<1> QED
  BY <1>2, <1>3, <1>4, <1>5, <1>6, MachineKeeps

\* a machine that steps aside and back was up all the time
LEMMA AsideKeeps ==
  ASSUME EnvInv, NEW m \in Mach, StepAside(m) \/ StepBack(m) \/ StopMachine(m)
  PROVE  EnvInv'
<1>1. PICK s : s = mach'[m]
  OBVIOUS
<1>2. build' = [build EXCEPT ![m] = build[m]] /\ build[m] \in Builds
  BY BuildTypes DEF StepAside, StepBack, StopMachine
<1>3. s \in State /\ mach[m] \in {"RUNNING", "AWAY"} /\ mach' = [mach EXCEPT ![m] = s]
  BY <1>1 DEF StepAside, StepBack, StopMachine, EnvInv, EnvTypeOK, State
<1>4. files' = [files EXCEPT ![m] = files[m]] /\ files[m] \in Nat /\ buildOnly /\ skipped' = skipped
  BY BuildTypes DEF StepAside, StepBack, StopMachine
<1>5. holder' = holder \/ holder \notin Change
  <2>1. CASE StepAside(m)
    BY <2>1, EnvAssumption DEF StepAside
  <2>2. CASE StepBack(m) \/ StopMachine(m)
    BY <2>2, UnlockKeepsOthers DEF StepBack, StopMachine
  <2> QED
    BY <2>1, <2>2
<1>6. InFlightCurrent => /\ build[m].pc = "rendered" => build[m].version = version
                         /\ build[m].pc = "written" => files[m] = version
  BY DEF InFlightCurrent
<1> QED
  BY <1>2, <1>3, <1>4, <1>5, <1>6, MachineKeeps

--------------------------------------------------------------------------------
LEMMA EnvStillKeeps ==
  ASSUME EnvInv, UNCHANGED nvars
  PROVE  EnvInv'
<1>1. EnvTypeOK' /\ ChangeHoldsLock' /\ StoredVarsSound'
  BY DEF EnvInv, nvars, EnvTypeOK, ChangeHoldsLock, StoredVarsSound
<1>2. ValidatedRenders'
  BY DEF EnvInv, nvars, ValidatedRenders, With
<1>3. NoOldVersion'
  BY DEF EnvInv, nvars, NoOldVersion, InFlightCurrent, GuestsReached, Coming, Due, Up
<1> QED
  BY <1>1, <1>2, <1>3 DEF EnvInv

LEMMA EnvNextKeeps == EnvInv /\ [EnvNext]_nvars => EnvInv'
<1> SUFFICES ASSUME EnvInv, [EnvNext]_nvars PROVE EnvInv'
  OBVIOUS
<1>1. ASSUME NEW c \in Change, LockChange(c) \/ SetEnvVar(c) \/ DeleteEnvVar(c) \/ ChangeReturn(c) PROVE EnvInv'
  BY <1>1, LockChangeKeeps, SetValidateKeeps, ChangeEndsKeeps, SetStoreKeeps, DeleteStoreKeeps, SetUnreadKeeps,
       ChangeReturnKeeps
     DEF SetEnvVar, DeleteEnvVar
<1>2. ASSUME NEW c \in Change, SyncRunningMachineEnv(c) PROVE EnvInv'
  BY <1>2, SyncListKeeps, SyncListFailKeeps, SyncRenderKeeps, SyncWriteKeeps, SyncFailKeeps, SyncEndKeeps
     DEF SyncRunningMachineEnv
<1>3. ASSUME NEW m \in Mach, CreateBoot(m) \/ LockedBoot(m) \/ ForkRunning(m) \/ SyncManagedEnv(m) PROVE EnvInv'
  BY <1>3, BootKeeps, ForkRunningKeeps, BuildRenderKeeps, BuildWriteKeeps DEF SyncManagedEnv
<1>4. ASSUME NEW m \in Mach, BuildDone(m) \/ BuildFail(m) \/ StepAside(m) \/ StepBack(m) \/ StopMachine(m) PROVE EnvInv'
  BY <1>4, BuildOverKeeps, AsideKeeps
<1> QED
  BY <1>1, <1>2, <1>3, <1>4, EnvStillKeeps DEF EnvNext

\* The strengthened invariant of the variables, type correctness included, for any finite
\* set of names and any changes and machines (SetEnvVar, DeleteEnvVar and their goroutines).
THEOREM EnvInvHolds == EnvSpec => []EnvInv
BY EnvInvInit, EnvNextKeeps, PTL DEF EnvSpec

\* Changes that are validated and stored under the user's lock never leave values that
\* refer to each other in a circle (SetEnvVar, renderEffectiveEnv), for any number of names.
THEOREM StoredVarsSoundAlways == EnvSpec => []StoredVarsSound
BY EnvInvHolds, PTL DEF EnvInv

\* with no goroutine left to come, the guest it would have reached is current
LEMMA QuietGuestsCurrent == EnvInv => GuestsCurrent
<1> SUFFICES ASSUME EnvInv, ~raced, Renders(vars),
                    \A c \in Change : change[c].pc # "stored" /\ sync[c].pc \in {"idle", "over"},
                    NEW m \in Mach, m \notin skipped, mach[m] = "RUNNING", build[m].pc = "idle"
             PROVE  files[m] = version
  BY DEF GuestsCurrent
<1>1. ~Coming(m)
  BY DEF Coming
<1> QED
  BY <1>1 DEF EnvInv, NoOldVersion, GuestsReached, Due, Up

\* When the goroutines of all changes are over, every RUNNING guest that no sync has missed
\* holds what is stored, unless a change met an older version on its way
\* (syncRunningMachineEnvBestEffort, syncManagedEnv), for any number of changes and machines.
THEOREM GuestsCurrentAlways == EnvSpec => []GuestsCurrent
BY EnvInvHolds, QuietGuestsCurrent, PTL

\* sound values without a dropped key refer to stored ones only, so they render
LEMMA UndroppedRenders == EnvInv => (dropped = {} => Renders(vars))
<1> SUFFICES ASSUME EnvInv, dropped = {} PROVE Renders(vars)
  OBVIOUS
<1>1. PICK raw \in Raws : raw = vars
  BY DEF EnvInv, EnvTypeOK
<1>2. Defined(raw) /\ NoCircle(raw)
  BY <1>1 DEF EnvInv, StoredVarsSound, Defined, NoCircle
<1> QED
  BY <1>1, <1>2, SoundRenders

\* Until a key is deleted from under a value that refers to it, what is stored renders:
\* no sync, create or start fails for its sake (DeleteEnvVar asks for no reference).
THEOREM UndroppedRendersAlways == EnvSpec => [](dropped = {} => Renders(vars))
BY EnvInvHolds, UndroppedRenders, PTL

--------------------------------------------------------------------------------
(* ToolAuth.  A capture, restore or mark that is alone finds what it left:     *)
(* nobody has touched the shared .tmp names or the files between its steps.    *)

ProfileFlag == {"full", "empty", NoFile}
ToolCall ==
  [pc : {"check", "save", "stateTmp", "saveProfile", "profileTmp", "mark", "marked", "markTmp"},
   mode : {"exact", "preserve", "restore"}, bundle : Bundle, alone : BOOLEAN, flag : ProfileFlag]

ToolTypeOK ==
  /\ tools \in [Guest -> Bundle]
  /\ state \in Bundle \cup {NoFile} /\ stateTmp \in Bundle \cup {NoFile}
  /\ profile \in ProfileFlag /\ profileTmp \in ProfileFlag
  /\ proc \in [Proc -> {AtRest} \cup ToolCall]
  /\ mixed \in BOOLEAN

Alone(p) == Using(p) /\ proc[p].alone

\* a restore never stores
SavesAreCaptures == \A p \in Proc : Using(p) /\ proc[p].mode = "restore" => proc[p].pc \in {"mark", "marked", "markTmp"}

AloneMeansAlone == \A p, q \in Proc : Alone(p) /\ Using(q) => p = q

\* between two steps of a call that is alone, nobody else has touched what it wrote
OwnStateFile(p) ==
  /\ proc[p].pc = "stateTmp" => stateTmp = proc[p].bundle
  /\ proc[p].pc \in {"saveProfile", "profileTmp"} => state = proc[p].bundle
OwnProfileFile(p) ==
  /\ proc[p].pc = "profileTmp" => profileTmp = Flag(proc[p].bundle)
  /\ proc[p].pc = "marked" => proc[p].flag = profile
  /\ proc[p].pc = "markTmp" => profileTmp = profile
\* an empty capture that preserves goes on only over a store that holds no login
NoLoginStored(p) ==
  proc[p].pc \in {"save", "stateTmp"} /\ proc[p].mode = "preserve" /\ proc[p].bundle = Empty
    => state = NoFile \/ profile # "full"
OwnFiles == \A p \in Proc : Alone(p) => OwnStateFile(p) /\ OwnProfileFile(p) /\ NoLoginStored(p)

ToolInv == ToolTypeOK /\ SavesAreCaptures /\ AloneMeansAlone /\ OwnFiles /\ ProfileMatches

--------------------------------------------------------------------------------
LEMMA ToolInvInit == ToolInit => ToolInv
<1> SUFFICES ASSUME ToolInit PROVE ToolInv
  OBVIOUS
<1>1. ToolTypeOK
  BY DEF ToolInit, ToolTypeOK, ProfileFlag, Bundle
<1>2. \A p \in Proc : ~Using(p)
  BY DEF ToolInit, Using, AtRest
<1>3. SavesAreCaptures /\ AloneMeansAlone /\ OwnFiles
  BY <1>2 DEF SavesAreCaptures, AloneMeansAlone, OwnFiles, Alone
<1>4. ProfileMatches
  BY DEF ToolInit, ProfileMatches
<1> QED
  BY <1>1, <1>3, <1>4 DEF ToolInv

\* a call that is under way
LEMMA CallFields ==
  ASSUME ToolTypeOK, NEW p \in Proc
  PROVE  /\ Using(p) <=> proc[p] \in ToolCall
         /\ ~Using(p) <=> proc[p] = AtRest
BY DEF ToolTypeOK, Using, AtRest, ToolCall

LEMMA FlagIsFlag == \A b \in Bundle : Flag(b) \in ProfileFlag
BY DEF Flag, ProfileFlag

\* Enter's effect on every process: the one that enters is alone if nobody else is
\* under way, and nobody else is alone any more.
LEMMA EnterMoves ==
  ASSUME ToolTypeOK, AloneMeansAlone, SavesAreCaptures, NEW p \in Proc, ~Using(p), NEW fields \in ToolCall, Enter(p, fields),
         fields.mode = "restore" => fields.pc = "mark"
  PROVE  /\ proc' \in [Proc -> {AtRest} \cup ToolCall]
         /\ AloneMeansAlone' /\ SavesAreCaptures'
         /\ \A q \in Proc \ {p} : ~Alone(q)'
         /\ proc'[p].pc = fields.pc /\ proc'[p].mode = fields.mode /\ proc'[p].bundle = fields.bundle
<1> DEFINE others == {q \in Proc \ {p} : Using(q)}
           new == [fields EXCEPT !.alone = others = {}]
           Off(q) == [proc[q] EXCEPT !.alone = FALSE]
<1>1. proc' = [q \in Proc |-> IF q = p THEN new
               ELSE IF Using(q) THEN Off(q) ELSE proc[q]]
  BY Zenon DEF Enter
<1>2. new \in ToolCall /\ new.alone = (others = {}) /\ new.pc = fields.pc /\ new.mode = fields.mode /\ new.bundle = fields.bundle
  BY DEF ToolCall
<1>3. \A q \in Proc : Using(q) => /\ Off(q) \in ToolCall /\ Off(q).alone = FALSE
                                  /\ Off(q).pc = proc[q].pc /\ Off(q).mode = proc[q].mode
  BY CallFields DEF ToolCall
<1>4. \A q \in Proc : ~Using(q) => proc[q] = AtRest
  BY CallFields
<1>5. others = {} <=> \A q \in Proc \ {p} : ~Using(q)
  OBVIOUS
<1> HIDE DEF others, new, Off
<1>6. proc' \in [Proc -> {AtRest} \cup ToolCall]
  BY <1>1, <1>2, <1>3, <1>4
<1>7. proc'[p] = new
  BY <1>1
<1>8. \A q \in Proc \ {p} : proc'[q] = IF Using(q) THEN Off(q) ELSE AtRest
  BY <1>1, <1>4
<1>9. \A q \in Proc \ {p} : ~Alone(q)' /\ (Using(q)' <=> Using(q))
  BY <1>8, <1>3 DEF Alone, Using, AtRest
<1>10. AloneMeansAlone'
  BY <1>9, <1>7, <1>2, <1>5 DEF AloneMeansAlone, Alone
<1>11. SavesAreCaptures'
  BY <1>8, <1>3, <1>7, <1>2 DEF SavesAreCaptures, Using, AtRest
<1> QED
  BY <1>6, <1>7, <1>2, <1>9, <1>10, <1>11

\* Advance's effect: control state only
LEMMA AdvanceMoves ==
  ASSUME ToolTypeOK, AloneMeansAlone, SavesAreCaptures, NEW p \in Proc, Using(p),
         NEW pc \in {"check", "save", "stateTmp", "saveProfile", "profileTmp", "mark", "marked", "markTmp"},
         Advance(p, pc), proc[p].pc \in {"mark", "marked", "markTmp"} => pc \in {"mark", "marked", "markTmp"}
  PROVE  /\ proc' \in [Proc -> {AtRest} \cup ToolCall]
         /\ AloneMeansAlone' /\ SavesAreCaptures'
         /\ \A q \in Proc \ {p} : ~Alone(q)'
         /\ Alone(p)' <=> Alone(p)
         /\ proc'[p].pc = pc /\ proc'[p].mode = proc[p].mode /\ proc'[p].bundle = proc[p].bundle
         /\ proc'[p].flag = proc[p].flag
<1> DEFINE new == [proc[p] EXCEPT !.pc = pc]
<1>1. proc[p] \in ToolCall
  BY CallFields
<1>2. proc' = [proc EXCEPT ![p] = new]
  BY DEF Advance
<1>3. /\ new \in ToolCall /\ new.pc = pc /\ new.mode = proc[p].mode /\ new.bundle = proc[p].bundle
      /\ new.flag = proc[p].flag /\ new.alone = proc[p].alone /\ new.pc # "idle"
  BY <1>1 DEF ToolCall
<1> HIDE DEF new
<1>4. proc' \in [Proc -> {AtRest} \cup ToolCall] /\ proc'[p] = new /\ \A q \in Proc \ {p} : proc'[q] = proc[q]
  BY <1>2, <1>3 DEF ToolTypeOK
<1>5. \A q \in Proc : (Using(q)' <=> Using(q)) /\ (Alone(q)' <=> Alone(q))
  BY <1>3, <1>4 DEF Using, Alone
<1>6. AloneMeansAlone'
  BY <1>5 DEF AloneMeansAlone
<1>7. SavesAreCaptures'
  BY <1>3, <1>4 DEF SavesAreCaptures, Using
<1>8. \A q \in Proc \ {p} : ~Alone(q)'
  BY <1>5 DEF AloneMeansAlone
<1> QED
  BY <1>3, <1>4, <1>5, <1>6, <1>7, <1>8

\* Return's effect: the call is over, its step leaves nobody else alone
LEMMA ReturnMoves ==
  ASSUME ToolTypeOK, AloneMeansAlone, SavesAreCaptures, NEW p \in Proc, Using(p), Return(p)
  PROVE  /\ proc' \in [Proc -> {AtRest} \cup ToolCall]
         /\ AloneMeansAlone' /\ SavesAreCaptures'
         /\ \A q \in Proc : ~Alone(q)'
<1>1. proc' \in [Proc -> {AtRest} \cup ToolCall] /\ proc'[p] = AtRest /\ \A q \in Proc \ {p} : proc'[q] = proc[q]
  BY DEF Return, ToolTypeOK
<1>2. \A q \in Proc \ {p} : (Using(q)' <=> Using(q)) /\ (Alone(q)' <=> Alone(q)) /\ ~Alone(q)
  BY <1>1 DEF Using, Alone, AloneMeansAlone
<1>3. ~Using(p)' /\ ~Alone(p)'
  BY <1>1 DEF Using, Alone, AtRest
<1>4. AloneMeansAlone'
  BY <1>2, <1>3 DEF AloneMeansAlone
<1>5. SavesAreCaptures'
  BY <1>1, <1>2, <1>3 DEF SavesAreCaptures
<1> QED
  BY <1>1, <1>2, <1>3, <1>4, <1>5

--------------------------------------------------------------------------------
\* what a step of p has to show about the files
LEMMA OwnFilesOf ==
  ASSUME NEW p \in Proc, \A q \in Proc \ {p} : ~Alone(q)',
         Alone(p)' => OwnStateFile(p)' /\ OwnProfileFile(p)' /\ NoLoginStored(p)'
  PROVE  OwnFiles'
BY DEF OwnFiles

LEMMA EnterKeeps ==
  ASSUME ToolInv, NEW p \in Proc, NEW fields \in ToolCall, ~Using(p), Enter(p, fields), UNCHANGED <<store, mixed>>,
         tools' \in [Guest -> Bundle], fields.mode = "restore" => fields.pc = "mark",
         fields.pc = "save" => fields.bundle # Empty \/ fields.mode # "preserve",
         fields.pc \in {"check", "save", "mark"}
  PROVE  ToolInv'
<1> USE DEF ToolInv
<1>1. /\ proc' \in [Proc -> {AtRest} \cup ToolCall]
      /\ AloneMeansAlone' /\ SavesAreCaptures'
      /\ \A q \in Proc \ {p} : ~Alone(q)'
      /\ proc'[p].pc = fields.pc /\ proc'[p].mode = fields.mode /\ proc'[p].bundle = fields.bundle
  BY EnterMoves
<1>2. ToolTypeOK'
  BY <1>1 DEF ToolTypeOK, store
<1>3. OwnFiles'
  <2>1. OwnStateFile(p)' /\ OwnProfileFile(p)'
    BY <1>1 DEF OwnStateFile, OwnProfileFile
  <2>2. NoLoginStored(p)'
    BY <1>1 DEF NoLoginStored
  <2> QED
    BY <1>1, <2>1, <2>2, OwnFilesOf
<1>4. ProfileMatches'
  BY DEF ProfileMatches, store
<1> QED
  BY <1>1, <1>2, <1>3, <1>4

\* a step that only moves one call on
LEMMA AdvanceKeeps ==
  ASSUME ToolInv, NEW p \in Proc, Using(p), NEW pc \in {"check", "save", "stateTmp", "saveProfile", "profileTmp", "mark", "marked", "markTmp"},
         Advance(p, pc), proc[p].pc \in {"mark", "marked", "markTmp"} => pc \in {"mark", "marked", "markTmp"},
         tools' = tools, state' \in Bundle \cup {NoFile}, stateTmp' \in Bundle \cup {NoFile},
         profile' \in ProfileFlag, profileTmp' \in ProfileFlag, mixed' \in BOOLEAN,
         ProfileMatches',
         Alone(p) /\ proc'[p].pc = pc /\ proc'[p].mode = proc[p].mode /\ proc'[p].bundle = proc[p].bundle
                  /\ proc'[p].flag = proc[p].flag
           => OwnStateFile(p)' /\ OwnProfileFile(p)' /\ NoLoginStored(p)'
  PROVE  ToolInv'
<1> USE DEF ToolInv
<1>1. /\ proc' \in [Proc -> {AtRest} \cup ToolCall]
      /\ AloneMeansAlone' /\ SavesAreCaptures'
      /\ \A q \in Proc \ {p} : ~Alone(q)'
      /\ Alone(p)' <=> Alone(p)
      /\ proc'[p].pc = pc /\ proc'[p].mode = proc[p].mode /\ proc'[p].bundle = proc[p].bundle
      /\ proc'[p].flag = proc[p].flag
  BY AdvanceMoves
<1>2. ToolTypeOK'
  BY <1>1 DEF ToolTypeOK
<1>3. OwnFiles'
  BY <1>1, OwnFilesOf
<1> QED
  BY <1>1, <1>2, <1>3

--------------------------------------------------------------------------------
LEMMA UserChangesKeeps ==
  ASSUME ToolInv, NEW g \in Guest, UserChanges(g)
  PROVE  ToolInv'
<1>1. ToolTypeOK'
  BY DEF ToolInv, UserChanges, ToolTypeOK, store
<1>2. SavesAreCaptures' /\ AloneMeansAlone' /\ OwnFiles' /\ ProfileMatches'
  BY DEF ToolInv, UserChanges, store, SavesAreCaptures, AloneMeansAlone, OwnFiles, Alone, Using,
     OwnStateFile, OwnProfileFile, NoLoginStored, ProfileMatches
<1> QED
  BY <1>1, <1>2 DEF ToolInv

LEMMA CaptureKeeps ==
  ASSUME ToolInv, NEW p \in Proc, NEW g \in Guest, NEW mode \in {"exact", "preserve"}, Capture(p, g, mode)
  PROVE  ToolInv'
<1>1. PICK fields : fields = [pc |-> IF Captured(g) = Empty /\ mode = "preserve" THEN "check" ELSE "save",
               mode |-> mode, bundle |-> Captured(g), alone |-> FALSE, flag |-> NoFile]
  OBVIOUS
<1>2. Captured(g) \in Bundle
  BY DEF ToolInv, ToolTypeOK, Captured
<1>3. /\ fields \in ToolCall /\ fields.mode # "restore" /\ fields.pc \in {"check", "save"}
      /\ fields.pc = "save" => fields.bundle # Empty \/ fields.mode # "preserve"
  BY <1>1, <1>2 DEF ToolCall, ProfileFlag
<1>4. ~Using(p) /\ Enter(p, fields) /\ UNCHANGED <<store, mixed>> /\ tools' = tools
  BY <1>1 DEF Capture, Using
<1>5. tools' \in [Guest -> Bundle]
  BY <1>4 DEF ToolInv, ToolTypeOK
<1> QED
  BY <1>3, <1>4, <1>5, EnterKeeps

LEMMA CaptureFailKeeps ==
  ASSUME ToolInv, NEW p \in Proc, NEW mode \in {"exact", "preserve"}, CaptureFail(p, mode)
  PROVE  ToolInv'
<1>1. PICK fields : fields = [pc |-> "mark", mode |-> mode, bundle |-> Empty, alone |-> FALSE, flag |-> NoFile]
  OBVIOUS
<1>2. fields \in ToolCall /\ fields.pc = "mark"
  BY <1>1 DEF ToolCall, ProfileFlag, Bundle
<1>3. ~Using(p) /\ Enter(p, fields) /\ UNCHANGED <<store, mixed>> /\ tools' = tools
  BY <1>1 DEF CaptureFail, Using
<1>4. tools' \in [Guest -> Bundle]
  BY <1>3 DEF ToolInv, ToolTypeOK
<1> QED
  BY <1>2, <1>3, <1>4, EnterKeeps

LEMMA RestoreKeeps ==
  ASSUME ToolInv, NEW p \in Proc, NEW g \in Guest, Restore(p, g)
  PROVE  ToolInv'
<1>1. PICK fields : fields = [pc |-> "mark", mode |-> "restore", bundle |-> state, alone |-> FALSE, flag |-> NoFile]
  OBVIOUS
<1>2. state \in Bundle
  BY DEF ToolInv, ToolTypeOK, Restore
<1>3. fields \in ToolCall /\ fields.pc = "mark"
  BY <1>1, <1>2 DEF ToolCall, ProfileFlag
<1>4. ~Using(p) /\ Enter(p, fields) /\ UNCHANGED <<store, mixed>> /\ tools' \in Restored(g)
  BY <1>1 DEF Restore, Using
<1>5. tools' \in [Guest -> Bundle]
  BY <1>2, <1>4 DEF ToolInv, ToolTypeOK, Restored, Bundle
<1> QED
  BY <1>3, <1>4, <1>5, EnterKeeps

\* LoadSessionState finds no login, or the capture does not go on to store
LEMMA CheckExistingKeeps ==
  ASSUME ToolInv, NEW p \in Proc, CheckExisting(p)
  PROVE  ToolInv'
<1>1. PICK pc : pc = IF profile = "full" /\ state # NoFile THEN "mark" ELSE "save"
  OBVIOUS
<1>2. Using(p) /\ Advance(p, pc) /\ UNCHANGED <<tools, store, mixed>> /\ pc \in {"mark", "save"} /\ proc[p].pc = "check"
  BY <1>1 DEF CheckExisting, Using
<1>3. ProfileMatches'
  BY <1>2 DEF ToolInv, ProfileMatches, store
<1>4. ASSUME proc'[p].pc = pc PROVE OwnStateFile(p)' /\ OwnProfileFile(p)' /\ NoLoginStored(p)'
  BY <1>1, <1>2, <1>4 DEF OwnStateFile, OwnProfileFile, NoLoginStored, store
<1>5. state' \in Bundle \cup {NoFile} /\ stateTmp' \in Bundle \cup {NoFile} /\ tools' = tools
      /\ profile' \in ProfileFlag /\ profileTmp' \in ProfileFlag /\ mixed' \in BOOLEAN
  BY <1>2 DEF ToolInv, ToolTypeOK, store
<1> QED
  BY <1>2, <1>3, <1>4, <1>5, AdvanceKeeps

LEMMA SaveStateTmpKeeps ==
  ASSUME ToolInv, NEW p \in Proc, SaveStateTmp(p)
  PROVE  ToolInv'
<1>1. Using(p) /\ Advance(p, "stateTmp") /\ proc[p].pc = "save"
  BY DEF SaveStateTmp, Using
<1>2. proc[p] \in ToolCall
  BY <1>1, CallFields DEF ToolInv
<1>3. ProfileMatches'
  BY DEF SaveStateTmp, ToolInv, ProfileMatches
<1>4. ASSUME Alone(p), proc'[p].pc = "stateTmp", proc'[p].mode = proc[p].mode, proc'[p].bundle = proc[p].bundle
      PROVE  OwnStateFile(p)' /\ OwnProfileFile(p)' /\ NoLoginStored(p)'
  BY <1>1, <1>4 DEF SaveStateTmp, OwnStateFile, OwnProfileFile, NoLoginStored, ToolInv, OwnFiles
<1>5. state' \in Bundle \cup {NoFile} /\ stateTmp' \in Bundle \cup {NoFile} /\ tools' = tools
      /\ profile' \in ProfileFlag /\ profileTmp' \in ProfileFlag /\ mixed' \in BOOLEAN
  BY <1>2 DEF ToolInv, ToolTypeOK, SaveStateTmp, ToolCall
<1> QED
  BY <1>1, <1>3, <1>4, <1>5, AdvanceKeeps

LEMMA SaveStateKeeps ==
  ASSUME ToolInv, NEW p \in Proc, SaveState(p)
  PROVE  ToolInv'
<1>1. PICK pc : pc = IF stateTmp = NoFile THEN "mark" ELSE "saveProfile"
  OBVIOUS
<1>2. Using(p) /\ Advance(p, pc) /\ proc[p].pc = "stateTmp" /\ pc \in {"mark", "saveProfile"}
  BY <1>1 DEF SaveState, Using
<1>3. ProfileMatches'
  BY DEF SaveState, ToolInv, ProfileMatches
<1>4. ASSUME Alone(p), proc'[p].pc = pc, proc'[p].bundle = proc[p].bundle
      PROVE  OwnStateFile(p)' /\ OwnProfileFile(p)' /\ NoLoginStored(p)'
  BY <1>1, <1>2, <1>4 DEF SaveState, OwnStateFile, OwnProfileFile, NoLoginStored, ToolInv, OwnFiles
<1>5. state' \in Bundle \cup {NoFile} /\ stateTmp' \in Bundle \cup {NoFile} /\ tools' = tools
      /\ profile' \in ProfileFlag /\ profileTmp' \in ProfileFlag /\ mixed' \in BOOLEAN
  BY DEF ToolInv, ToolTypeOK, SaveState
<1> QED
  BY <1>2, <1>3, <1>4, <1>5, AdvanceKeeps

LEMMA SaveProfileTmpKeeps ==
  ASSUME ToolInv, NEW p \in Proc, SaveProfileTmp(p)
  PROVE  ToolInv'
<1>1. Using(p) /\ Advance(p, "profileTmp") /\ proc[p].pc = "saveProfile"
  BY DEF SaveProfileTmp, Using
<1>2. proc[p] \in ToolCall
  BY <1>1, CallFields DEF ToolInv
<1>3. ProfileMatches'
  BY DEF SaveProfileTmp, ToolInv, ProfileMatches
<1>4. ASSUME Alone(p), proc'[p].pc = "profileTmp", proc'[p].bundle = proc[p].bundle
      PROVE  OwnStateFile(p)' /\ OwnProfileFile(p)' /\ NoLoginStored(p)'
  BY <1>1, <1>4 DEF SaveProfileTmp, OwnStateFile, OwnProfileFile, NoLoginStored, ToolInv, OwnFiles, Flag
<1>5. state' \in Bundle \cup {NoFile} /\ stateTmp' \in Bundle \cup {NoFile} /\ tools' = tools
      /\ profile' \in ProfileFlag /\ profileTmp' \in ProfileFlag /\ mixed' \in BOOLEAN
  BY <1>2, FlagIsFlag DEF ToolInv, ToolTypeOK, SaveProfileTmp, ToolCall
<1> QED
  BY <1>1, <1>3, <1>4, <1>5, AdvanceKeeps

\* The one step that makes the two files agree again: what a call that was alone
\* finds under the shared names is what it wrote there.
LEMMA SaveProfileKeeps ==
  ASSUME ToolInv, NEW p \in Proc, SaveProfile(p)
  PROVE  ToolInv'
<1>1. Using(p) /\ Advance(p, "mark") /\ proc[p].pc = "profileTmp"
  BY DEF SaveProfile, Using
<1>2. proc[p] \in ToolCall
  BY <1>1, CallFields DEF ToolInv
<1>3. ProfileMatches'
  <2>1. CASE profileTmp = NoFile
    BY <2>1 DEF SaveProfile, ToolInv, ProfileMatches
  <2>2. CASE profileTmp # NoFile /\ Alone(p)
    <3>1. profileTmp = Flag(proc[p].bundle) /\ state = proc[p].bundle
      BY <1>1, <2>2 DEF ToolInv, OwnFiles, OwnStateFile, OwnProfileFile
    <3> QED
      BY <2>2, <3>1 DEF SaveProfile, ProfileMatches, Flag
  <2>3. CASE profileTmp # NoFile /\ ~Alone(p)
    BY <1>1, <2>3 DEF SaveProfile, ProfileMatches, Alone
  <2> QED
    BY <2>1, <2>2, <2>3
<1>4. ASSUME proc'[p].pc = "mark" PROVE OwnStateFile(p)' /\ OwnProfileFile(p)' /\ NoLoginStored(p)'
  BY <1>4 DEF OwnStateFile, OwnProfileFile, NoLoginStored
<1>5. state' \in Bundle \cup {NoFile} /\ stateTmp' \in Bundle \cup {NoFile} /\ tools' = tools
      /\ profile' \in ProfileFlag /\ profileTmp' \in ProfileFlag
  BY DEF ToolInv, ToolTypeOK, SaveProfile, ProfileFlag
<1>6. mixed' \in BOOLEAN
  BY <1>2 DEF ToolInv, ToolTypeOK, SaveProfile, ToolCall
<1> QED
  BY <1>1, <1>3, <1>4, <1>5, <1>6, AdvanceKeeps

LEMMA SaveFailKeeps ==
  ASSUME ToolInv, NEW p \in Proc, SaveFail(p)
  PROVE  ToolInv'
<1>1. Using(p) /\ Advance(p, "mark") /\ UNCHANGED <<tools, store, mixed>>
  BY DEF SaveFail, Using
<1>2. ProfileMatches'
  BY <1>1 DEF ToolInv, ProfileMatches, store
<1>3. ASSUME proc'[p].pc = "mark" PROVE OwnStateFile(p)' /\ OwnProfileFile(p)' /\ NoLoginStored(p)'
  BY <1>3 DEF OwnStateFile, OwnProfileFile, NoLoginStored
<1>4. state' \in Bundle \cup {NoFile} /\ stateTmp' \in Bundle \cup {NoFile} /\ tools' = tools
      /\ profile' \in ProfileFlag /\ profileTmp' \in ProfileFlag /\ mixed' \in BOOLEAN
  BY <1>1 DEF ToolInv, ToolTypeOK, store
<1> QED
  BY <1>1, <1>2, <1>3, <1>4, AdvanceKeeps

\* a mark whose call is alone remembers the profile that is there
LEMMA MarkReadKeeps ==
  ASSUME ToolInv, NEW p \in Proc, MarkRead(p)
  PROVE  ToolInv'
<1> USE DEF ToolInv
<1>1. Using(p) /\ proc[p].pc = "mark" /\ UNCHANGED <<tools, store, mixed>>
  BY DEF MarkRead, Using
<1>2. proc[p] \in ToolCall
  BY <1>1, CallFields
<1>3. ProfileMatches'
  BY <1>1 DEF ProfileMatches, store
<1>5. CASE profile = NoFile
  <2>1. /\ proc' \in [Proc -> {AtRest} \cup ToolCall]
        /\ AloneMeansAlone' /\ SavesAreCaptures' /\ \A q \in Proc : ~Alone(q)'
    BY <1>1, <1>5, ReturnMoves DEF MarkRead
  <2> QED
    BY <1>1, <1>3, <2>1 DEF ToolTypeOK, store, OwnFiles
<1>6. CASE profile # NoFile
  <2> DEFINE new == [proc[p] EXCEPT !.pc = "marked", !.flag = profile]
  <2>1. proc' = [proc EXCEPT ![p] = new]
    BY <1>6 DEF MarkRead
  <2>2. /\ new \in ToolCall /\ new.pc = "marked" /\ new.flag = profile /\ new.alone = proc[p].alone
        /\ new.mode = proc[p].mode
    BY <1>2 DEF ToolCall, ToolTypeOK
  <2> HIDE DEF new
  <2>3. proc' \in [Proc -> {AtRest} \cup ToolCall] /\ proc'[p] = new /\ \A q \in Proc \ {p} : proc'[q] = proc[q]
    BY <2>1, <2>2 DEF ToolTypeOK
  <2>4. \A q \in Proc : (Using(q)' <=> Using(q)) /\ (Alone(q)' <=> Alone(q))
    BY <1>1, <2>2, <2>3 DEF Using, Alone
  <2>5. AloneMeansAlone' /\ \A q \in Proc \ {p} : ~Alone(q)'
    BY <1>1, <2>4 DEF AloneMeansAlone
  <2>6. SavesAreCaptures'
    BY <2>2, <2>3, <2>4 DEF SavesAreCaptures
  <2>7. OwnStateFile(p)' /\ OwnProfileFile(p)' /\ NoLoginStored(p)'
    BY <1>1, <2>2, <2>3 DEF OwnStateFile, OwnProfileFile, NoLoginStored, store
  <2>8. OwnFiles'
    BY <2>5, <2>7, OwnFilesOf
  <2>9. ToolTypeOK'
    BY <1>1, <2>3 DEF ToolTypeOK, store
  <2> QED
    BY <1>3, <2>5, <2>6, <2>8, <2>9
<1> QED
  BY <1>5, <1>6

LEMMA MarkTmpKeeps ==
  ASSUME ToolInv, NEW p \in Proc, MarkTmp(p)
  PROVE  ToolInv'
<1>1. Using(p) /\ Advance(p, "markTmp") /\ proc[p].pc = "marked"
  BY DEF MarkTmp, Using
<1>2. proc[p] \in ToolCall
  BY <1>1, CallFields DEF ToolInv
<1>3. ProfileMatches'
  BY DEF MarkTmp, ToolInv, ProfileMatches
<1>4. ASSUME Alone(p), proc'[p].pc = "markTmp"
      PROVE  OwnStateFile(p)' /\ OwnProfileFile(p)' /\ NoLoginStored(p)'
  BY <1>1, <1>4 DEF MarkTmp, OwnStateFile, OwnProfileFile, NoLoginStored, ToolInv, OwnFiles
<1>5. state' \in Bundle \cup {NoFile} /\ stateTmp' \in Bundle \cup {NoFile} /\ tools' = tools
      /\ profile' \in ProfileFlag /\ profileTmp' \in ProfileFlag /\ mixed' \in BOOLEAN
  BY <1>2 DEF ToolInv, ToolTypeOK, MarkTmp, ToolCall
<1> QED
  BY <1>1, <1>3, <1>4, <1>5, AdvanceKeeps

LEMMA MarkKeeps ==
  ASSUME ToolInv, NEW p \in Proc, Mark(p)
  PROVE  ToolInv'
<1> USE DEF ToolInv
<1>1. Using(p) /\ Return(p) /\ proc[p].pc = "markTmp"
  BY DEF Mark, Using
<1>2. proc[p] \in ToolCall
  BY <1>1, CallFields
<1>3. /\ proc' \in [Proc -> {AtRest} \cup ToolCall]
      /\ AloneMeansAlone' /\ SavesAreCaptures' /\ \A q \in Proc : ~Alone(q)'
  BY <1>1, ReturnMoves
<1>4. ProfileMatches'
  <2>1. CASE profileTmp = NoFile
    BY <2>1 DEF Mark, ProfileMatches
  <2>2. CASE profileTmp # NoFile /\ Alone(p)
    <3>1. profileTmp = profile
      BY <1>1, <2>2 DEF OwnFiles, OwnProfileFile
    <3> QED
      BY <2>2, <3>1 DEF Mark, ProfileMatches
  <2>3. CASE profileTmp # NoFile /\ ~Alone(p)
    BY <1>1, <2>3 DEF Mark, ProfileMatches, Alone
  <2> QED
    BY <2>1, <2>2, <2>3
<1>5. mixed' \in BOOLEAN
  BY <1>2 DEF Mark, ToolTypeOK, ToolCall
<1>6. ToolTypeOK'
  BY <1>3, <1>5 DEF Mark, ToolTypeOK, ProfileFlag
<1> QED
  BY <1>3, <1>4, <1>6 DEF OwnFiles

LEMMA CrashKeeps ==
  ASSUME ToolInv, Crash
  PROVE  ToolInv'
<1>1. \A p \in Proc : ~Using(p)'
  BY DEF Crash, Using, AtRest
<1>2. ToolTypeOK'
  BY DEF ToolInv, ToolTypeOK, Crash, store
<1>3. SavesAreCaptures' /\ AloneMeansAlone' /\ OwnFiles'
  BY <1>1 DEF SavesAreCaptures, AloneMeansAlone, OwnFiles, Alone
<1>4. ProfileMatches'
  BY DEF ToolInv, ProfileMatches, Crash, store
<1> QED
  BY <1>2, <1>3, <1>4 DEF ToolInv

LEMMA ToolStillKeeps ==
  ASSUME ToolInv, UNCHANGED tvars
  PROVE  ToolInv'
BY DEF ToolInv, tvars, store, ToolTypeOK, SavesAreCaptures, AloneMeansAlone, OwnFiles, Alone, Using,
   OwnStateFile, OwnProfileFile, NoLoginStored, ProfileMatches

LEMMA ToolNextKeeps == ToolInv /\ [ToolNext]_tvars => ToolInv'
<1> SUFFICES ASSUME ToolInv, [ToolNext]_tvars PROVE ToolInv'
  OBVIOUS
<1>1. ASSUME NEW g \in Guest, UserChanges(g) PROVE ToolInv'
  BY <1>1, UserChangesKeeps
<1>2. ASSUME NEW p \in Proc, NEW mode \in {"exact", "preserve"}, SyncToolAuthForRecord(p, mode) PROVE ToolInv'
  BY <1>2, CaptureKeeps, CaptureFailKeeps DEF SyncToolAuthForRecord
<1>3. ASSUME NEW p \in Proc, RestoreToolAuth(p) PROVE ToolInv'
  BY <1>3, RestoreKeeps DEF RestoreToolAuth
<1>4. ASSUME NEW p \in Proc, CheckExisting(p) \/ SaveSessionState(p) PROVE ToolInv'
  BY <1>4, CheckExistingKeeps, SaveStateTmpKeeps, SaveStateKeeps, SaveProfileTmpKeeps, SaveProfileKeeps, SaveFailKeeps
     DEF SaveSessionState
<1>5. ASSUME NEW p \in Proc, UpdateProfileMetadata(p) PROVE ToolInv'
  BY <1>5, MarkReadKeeps, MarkTmpKeeps, MarkKeeps DEF UpdateProfileMetadata
<1> QED
  BY <1>1, <1>2, <1>3, <1>4, <1>5, CrashKeeps, ToolStillKeeps DEF ToolNext, SyncRunningToolAuth, CaptureToolAuth

\* The strengthened invariant of one persisted login, for any guests, logins and number of
\* captures, restores and marks (syncToolAuthForRecord, SaveSessionState, updateProfileMetadata).
THEOREM ToolInvHolds == ToolSpec => []ToolInv
BY ToolInvInit, ToolNextKeeps, PTL DEF ToolSpec

\* However captures, restores, failed writes and crashes cut into each other, the profile
\* says of the bundle what it is, unless two of them overlapped or one was cut short
\* (SaveSessionState, updateProfileMetadata).
THEOREM ProfileMatchesAlways == ToolSpec => []ProfileMatches
BY ToolInvHolds, PTL DEF ToolInv

\* The only step that replaces state.enc is the rename of a save.
LEMMA StateChangesBySave ==
  ASSUME [ToolNext]_tvars, state' # state
  PROVE  \E p \in Proc : SaveState(p)
BY DEF ToolNext, tvars, store, UserChanges, SyncRunningToolAuth, CaptureToolAuth, SyncToolAuthForRecord, Capture, CaptureFail,
   RestoreToolAuth, Restore, CheckExisting, SaveSessionState, SaveStateTmp, SaveProfileTmp, SaveProfile, SaveFail,
   UpdateProfileMetadata, MarkRead, MarkTmp, Mark, Crash

\* A save that is alone and preserves has found no login, and nobody stored one since.
LEMMA SaveKeepsLogin ==
  ASSUME ToolInv, [ToolNext]_tvars, state \in Login, state' = Empty, ~mixed
  PROVE  \E p \in Proc : OverwritesLogin(p)
<1>1. state # Empty /\ state # NoFile
  BY LoginAssumption
<1>2. PICK p \in Proc : SaveState(p)
  BY <1>1, StateChangesBySave
<1>3. Using(p) /\ proc[p].pc = "stateTmp" /\ stateTmp = Empty
  BY <1>1, <1>2 DEF SaveState, Using
<1>4. SUFFICES ASSUME proc[p].mode # "exact", proc[p].alone PROVE FALSE
  BY <1>3 DEF OverwritesLogin
<1>5. proc[p].mode = "preserve"
  BY <1>3, <1>4, CallFields DEF ToolInv, ToolCall, SavesAreCaptures
<1>6. profile = "full"
  BY <1>1 DEF ToolInv, ProfileMatches, Flag
<1>7. OwnStateFile(p) /\ NoLoginStored(p)
  BY <1>3, <1>4 DEF ToolInv, OwnFiles, Alone
<1> QED
  BY <1>1, <1>3, <1>5, <1>6, <1>7 DEF OwnStateFile, NoLoginStored

\* An empty capture replaces a stored login only when it is the exact one of a delete, or
\* when captures overlap (captureSessionState, LoadSessionState), for any number of them.
THEOREM LoginKeptAlways == ToolSpec => LoginKept
<1>1. ToolInv /\ [ToolNext]_tvars => [(state \in Login /\ state' = Empty) => mixed \/ \E p \in Proc : OverwritesLogin(p)]_tvars
  BY SaveKeepsLogin
<1> QED
  BY <1>1, ToolInvHolds, PTL DEF ToolSpec, LoginKept
================================================================================
