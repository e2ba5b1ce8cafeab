-------------------------------- MODULE Auth ---------------------------------
(***************************************************************************)
(* AuthService and OtpService on top of the users: pending registrations   *)
(* and token mappings in the cache, one-time codes and sessions in         *)
(* PostgreSQL.  Every call is a sequence of awaits; nothing spans two.     *)
(*                                                                         *)
(* A code, a pending registration and a session are named after the        *)
(* request that made them; <<s, "access">> and <<s, "refresh">> are the    *)
(* two tokens of session s.  Time is left out: a code may age and expire,  *)
(* and a cache entry vanish, at any moment.  A request that is refused ends   *)
(* like one whose await throws (Fails), or never begins.                   *)
(***************************************************************************)
EXTENDS Users

VARIABLES
  otp,      \* the Otp row of each request: "none", "fresh", "old" or "dead"
  reg,      \* auth:reg:<email>: the registration that waits for its code
  live,     \* the tokens that have a mapping auth:token:<token>
  sessions, \* the AuthSession rows
  given,    \* the code a verification has found; the session a request used
  data,     \* the registration a verification has read
  listed,   \* the sessions a logoutAll has found
  todo      \* their tokens it has still to delete

authVars == <<otp, reg, live, sessions>>
localVars == <<target, seen, given, data, listed, todo>>
vars == <<call, pc, userVars, authVars, localVars>>

----------------------------------------------------------------------------
Tokens == Requests \X {"access", "refresh"}
TokensOf(S) == S \X {"access", "refresh"}
Active == {"fresh", "old"}

AuthLabels == {"reg_cache", "otp_find", "otp_cancel", "otp_save", "otp_mail",
               "credential", "resend_cache", "cancel_reg", "v_cache", "code", "mark",
               "insert", "v_profile", "v_credential", "v_del_reg", "activate",
               "access", "refresh", "session", "log",
               "r_user", "r_reject", "r_del",
               "out_access", "out_refresh", "out_row", "list", "out_all", "out_rows"}
Final == {"ok", "failed"}

TypeOK ==
  /\ call \in Plans
  /\ pc \in [Requests -> {"idle"} \cup UserLabels \cup AuthLabels \cup Final]
  /\ status \in [Requests -> Statuses \cup {NONE}]
  /\ password \in [Requests -> Requests \cup {NONE}]
  /\ profiles \in SUBSET Requests
  /\ target \in [Requests -> Requests \cup {NONE}]
  /\ seen \in [Requests -> Statuses \cup {NONE}]
  /\ otp \in [Requests -> {"none", "dead"} \cup Active]
  /\ reg \in [Emails -> Requests \cup {NONE}]
  /\ live \in SUBSET Tokens
  /\ sessions \in SUBSET Requests
  /\ given \in [Requests -> Requests \cup {NONE}]
  /\ data \in [Requests -> Requests \cup {NONE}]
  /\ listed \in [Requests -> SUBSET Requests]
  /\ todo \in [Requests -> SUBSET Tokens]

Init ==
  /\ UserInit
  /\ otp = [r \in Requests |-> "none"]
  /\ reg = [e \in Emails |-> NONE]
  /\ live = TokensOf(Accounts)
  /\ sessions = Accounts
  /\ given = [r \in Requests |-> NONE]
  /\ data = [r \in Requests |-> NONE]
  /\ listed = [r \in Requests |-> {}]
  /\ todo = [r \in Requests |-> {}]

----------------------------------------------------------------------------
(* OtpService.createAndSendOtp *)

CodeType(r) ==
  CASE Op(r) = "register" -> "REGISTER"
    [] Op(r) = "login" -> IF seen[r] = "PENDING" THEN "REGISTER" ELSE "LOGIN"
    [] OTHER -> call[r].type

CodesFor(e, t) == {o \in Requests : otp[o] # "none" /\ Email(o) = e /\ CodeType(o) = t}

ActiveCodes(e, t) == {o \in CodesFor(e, t) : otp[o] \in Active}

\* A code of the last 60 seconds is a refusal.
OtpFind(r) ==
  /\ pc[r] = "otp_find"
  /\ \A o \in ActiveCodes(Email(r), CodeType(r)) : otp[o] # "fresh"
  /\ Goto(r, "otp_cancel")
  /\ UNCHANGED <<call, userVars, authVars, localVars>>

Cancelled(e, t) ==
  [o \in Requests |-> IF o \in ActiveCodes(e, t) THEN "dead" ELSE otp[o]]

OtpCancel(r) ==
  /\ pc[r] = "otp_cancel"
  /\ otp' = Cancelled(Email(r), CodeType(r))
  /\ Goto(r, "otp_save")
  /\ UNCHANGED <<call, userVars, reg, live, sessions, localVars>>

OtpSave(r) ==
  /\ pc[r] = "otp_save"
  /\ otp' = [otp EXCEPT ![r] = "fresh"]
  /\ Goto(r, "otp_mail")
  /\ UNCHANGED <<call, userVars, reg, live, sessions, localVars>>

\* login never returns: it throws 401 with requiresOtp, here "ok".
OtpMail(r) ==
  /\ pc[r] = "otp_mail"
  /\ Goto(r, "ok")
  /\ UNCHANGED <<call, userVars, authVars, localVars>>

\* After 60 seconds; after 5 minutes.
OtpAges(o) ==
  /\ otp[o] \in Active
  /\ otp' = [otp EXCEPT ![o] = IF @ = "fresh" THEN "old" ELSE "dead"]
  /\ UNCHANGED <<call, pc, userVars, reg, live, sessions, localVars>>

----------------------------------------------------------------------------
(* register, login, resendOtp, cancelOtp *)

Register(r) ==
  /\ pc[r] = "idle" /\ Op(r) = "register"
  /\ UserWith(Email(r)) = {}
  /\ Goto(r, "reg_cache")
  /\ UNCHANGED <<call, userVars, authVars, localVars>>

\* The data of the last caller, who may yet be told to wait 60 seconds.
RegCache(r) ==
  /\ pc[r] = "reg_cache"
  /\ reg' = [reg EXCEPT ![Email(r)] = r]
  /\ Goto(r, "otp_find")
  /\ UNCHANGED <<call, userVars, otp, live, sessions, localVars>>

\* The user row with the request's e-mail address, if there is one.
Found(r) ==
  \/ \E u \in UserWith(Email(r)) :
       /\ target' = [target EXCEPT ![r] = u]
       /\ seen' = [seen EXCEPT ![r] = status[u]]
  \/ UserWith(Email(r)) = {} /\ UNCHANGED <<target, seen>>

NewUser(r) == target'[r] = NONE

Login(r) ==
  /\ pc[r] = "idle" /\ Op(r) = "login"
  /\ Found(r)
  /\ ~NewUser(r) /\ seen'[r] # "BARRED"
  /\ Goto(r, "credential")
  /\ UNCHANGED <<call, userVars, authVars, given, data, listed, todo>>

LoginCredential(r) ==
  /\ pc[r] = "credential"
  /\ password[target[r]] # NONE
  /\ Goto(r, "otp_find")
  /\ UNCHANGED <<call, userVars, authVars, localVars>>

Resend(r) ==
  /\ pc[r] = "idle" /\ Op(r) = "resend"
  /\ Found(r)
  /\ IF NewUser(r)
     THEN call[r].type = "REGISTER" /\ Goto(r, "resend_cache")
     ELSE Goto(r, "otp_find")
  /\ UNCHANGED <<call, userVars, authVars, given, data, listed, todo>>

ResendCache(r) ==
  /\ pc[r] = "resend_cache"
  /\ reg[Email(r)] # NONE
  /\ Goto(r, "otp_find")
  /\ UNCHANGED <<call, userVars, authVars, localVars>>

Cancel(r) ==
  /\ pc[r] = "idle" /\ Op(r) = "cancel"
  /\ otp' = Cancelled(Email(r), call[r].type)
  /\ Goto(r, IF call[r].type = "REGISTER" THEN "cancel_reg" ELSE "ok")
  /\ UNCHANGED <<call, userVars, reg, live, sessions, localVars>>

CancelReg(r) ==
  /\ pc[r] = "cancel_reg"
  /\ reg' = [reg EXCEPT ![Email(r)] = NONE]
  /\ Goto(r, "ok")
  /\ UNCHANGED <<call, userVars, otp, live, sessions, localVars>>

OtpStep(r) ==
  \/ OtpFind(r) \/ OtpCancel(r) \/ OtpSave(r) \/ OtpMail(r)
  \/ Register(r) \/ RegCache(r) \/ Login(r) \/ LoginCredential(r)
  \/ Resend(r) \/ ResendCache(r) \/ Cancel(r) \/ CancelReg(r)
----------------------------------------------------------------------------
(* verifyOtp *)

Verify(r) ==
  /\ pc[r] = "idle" /\ Op(r) = "verify"
  /\ Found(r)
  /\ Goto(r, IF NewUser(r) /\ call[r].type = "REGISTER" THEN "v_cache" ELSE "code")
  /\ UNCHANGED <<call, userVars, authVars, given, data, listed, todo>>

VerifyCache(r) ==
  /\ pc[r] = "v_cache"
  /\ reg[Email(r)] # NONE
  /\ data' = [data EXCEPT ![r] = reg[Email(r)]]
  /\ Goto(r, "code")
  /\ UNCHANGED <<call, userVars, authVars, target, seen, given, listed, todo>>

\* validateAndVerify: the query, by the code the caller has been sent.
VerifyCode(r) ==
  /\ pc[r] = "code"
  /\ \E o \in ActiveCodes(Email(r), call[r].type) :
       given' = [given EXCEPT ![r] = o]
  /\ Goto(r, "mark")
  /\ UNCHANGED <<call, userVars, authVars, target, seen, data, listed, todo>>

\* Mutation: any user with a REGISTER code becomes active.
VerifiedAny(r) ==
  CASE data[r] # NONE -> "insert"
    [] data[r] = NONE /\ target[r] = NONE -> "failed"
    [] data[r] = NONE /\ target[r] # NONE /\ call[r].type = "REGISTER" -> "activate"
    [] OTHER -> "access"

Verified(r) ==
  CASE data[r] # NONE -> "insert"
    [] data[r] = NONE /\ target[r] = NONE -> "failed"
    [] /\ data[r] = NONE /\ target[r] # NONE
       /\ seen[r] = "PENDING" /\ call[r].type = "REGISTER" -> "activate"
    [] OTHER -> "access"

\* and the save of the code
VerifyMark(r) ==
  /\ pc[r] = "mark"
  /\ otp' = [otp EXCEPT ![given[r]] = "dead"]
  /\ Goto(r, Verified(r))
  /\ UNCHANGED <<call, userVars, reg, live, sessions, localVars>>

\* The user, then the profile, then the credential
InsertUser(r) ==
  /\ pc[r] = "insert"
  /\ SaveUser(r, "ACTIVE")
  /\ target' = [target EXCEPT ![r] = r]
  /\ seen' = [seen EXCEPT ![r] = "ACTIVE"]
  /\ Goto(r, "v_profile")
  /\ UNCHANGED <<call, password, profiles, authVars, given, data, listed, todo>>

InsertProfile(r) ==
  /\ pc[r] = "v_profile"
  /\ profiles' = profiles \cup {r}
  /\ Goto(r, "v_credential")
  /\ UNCHANGED <<call, status, password, authVars, localVars>>

InsertCredential(r) ==
  /\ pc[r] = "v_credential"
  /\ password' = [password EXCEPT ![r] = data[r]]
  /\ Goto(r, "v_del_reg")
  /\ UNCHANGED <<call, status, profiles, authVars, localVars>>

VerifyDelReg(r) ==
  /\ pc[r] = "v_del_reg"
  /\ reg' = [reg EXCEPT ![Email(r)] = NONE]
  /\ Goto(r, "access")
  /\ UNCHANGED <<call, userVars, otp, live, sessions, localVars>>

\* save(user) with the new status
Activate(r) ==
  /\ pc[r] = "activate"
  /\ SaveUser(target[r], "ACTIVE")
  /\ Goto(r, "access")
  /\ UNCHANGED <<call, password, profiles, authVars, localVars>>

VerifyStep(r) ==
  \/ Verify(r) \/ VerifyCache(r) \/ VerifyCode(r) \/ VerifyMark(r)
  \/ InsertUser(r) \/ InsertProfile(r) \/ InsertCredential(r) \/ VerifyDelReg(r)
  \/ Activate(r)
----------------------------------------------------------------------------
(* A new session, the end of verifyOtp and of refreshTokens *)

StoreAccess(r) ==
  /\ pc[r] = "access"
  /\ live' = live \cup {<<r, "access">>}
  /\ Goto(r, "refresh")
  /\ UNCHANGED <<call, userVars, otp, reg, sessions, localVars>>

StoreRefresh(r) ==
  /\ pc[r] = "refresh"
  /\ live' = live \cup {<<r, "refresh">>}
  /\ Goto(r, "session")
  /\ UNCHANGED <<call, userVars, otp, reg, sessions, localVars>>

InsertSession(r) ==
  /\ pc[r] = "session"
  /\ sessions' = sessions \cup {r}
  /\ Goto(r, "log")
  /\ UNCHANGED <<call, userVars, otp, reg, live, localVars>>

\* The audit entry; then the answer, with the tokens in its cookies
Log(r) ==
  /\ pc[r] = "log"
  /\ Goto(r, "ok")
  /\ UNCHANGED <<call, userVars, authVars, localVars>>

\* The sessions whose tokens a client has been given.
HandedOut == {s \in Requests : pc[s] = "ok" /\ Op(s) \in {"account", "verify", "refresh"}}

\* A client presents one of its two tokens.
Presents(r, token) ==
  \E s \in HandedOut :
    /\ <<s, token>> \in live
    /\ given' = [given EXCEPT ![r] = s]
    /\ target' = [target EXCEPT ![r] = target[s]]

----------------------------------------------------------------------------
(* refreshTokens *)

Refresh(r) ==
  /\ pc[r] = "idle" /\ Op(r) = "refresh"
  /\ Presents(r, "refresh")
  /\ Goto(r, "r_user")
  /\ UNCHANGED <<call, userVars, authVars, seen, data, listed, todo>>

RefreshUser(r) ==
  /\ pc[r] = "r_user"
  /\ seen' = [seen EXCEPT ![r] = status[target[r]]]
  /\ Goto(r, IF status[target[r]] = "ACTIVE" THEN "r_del" ELSE "r_reject")
  /\ UNCHANGED <<call, userVars, authVars, target, given, data, listed, todo>>

\* Mutation: the token stays valid until it expires.
KeepToken(r) ==
  /\ pc[r] \in {"r_del", "r_reject"}
  /\ Goto(r, IF pc[r] = "r_del" THEN "access" ELSE "failed")
  /\ UNCHANGED <<call, userVars, authVars, localVars>>

RefreshDelete(r) ==
  /\ pc[r] \in {"r_del", "r_reject"}
  /\ live' = live \ {<<given[r], "refresh">>}
  /\ Goto(r, IF pc[r] = "r_del" THEN "access" ELSE "failed")
  /\ UNCHANGED <<call, userVars, otp, reg, sessions, localVars>>

----------------------------------------------------------------------------
(* logout, logoutAll: behind JwtAuthGuard *)

\* The guard lets in a live access token, or whoever the gateway vouches for,
\* with any cookies.  With both of them, which one response has set, the
\* tokens are ended; without one the answer is the same and nothing is.
Logout(r) ==
  /\ pc[r] = "idle" /\ Op(r) = "logout"
  /\ \/ \E s \in HandedOut :
          /\ given' = [given EXCEPT ![r] = s]
          /\ target' = [target EXCEPT ![r] = target[s]]
          /\ Goto(r, "out_access")
     \/ Goto(r, "ok") /\ UNCHANGED <<given, target>>
  /\ UNCHANGED <<call, userVars, authVars, seen, data, listed, todo>>

LogoutToken(r) ==
  /\ \/ /\ pc[r] = "out_access"
        /\ live' = live \ {<<given[r], "access">>}
        /\ Goto(r, "out_refresh")
     \/ /\ pc[r] = "out_refresh"
        /\ live' = live \ {<<given[r], "refresh">>}
        /\ Goto(r, "out_row")
  /\ UNCHANGED <<call, userVars, otp, reg, sessions, localVars>>

LogoutRow(r) ==
  /\ pc[r] = "out_row"
  /\ sessions' = sessions \ {given[r]}
  /\ Goto(r, "log")
  /\ UNCHANGED <<call, userVars, otp, reg, live, localVars>>

LogoutAll(r) ==
  /\ pc[r] = "idle" /\ Op(r) = "logoutAll"
  /\ Presents(r, "access")
  /\ Goto(r, "list")
  /\ UNCHANGED <<call, userVars, authVars, seen, data, listed, todo>>

SessionsOf(u) == {s \in sessions : target[s] = u}

\* Mutation: the rows go first.
RowsFirst(r) ==
  /\ pc[r] = "list"
  /\ listed' = [listed EXCEPT ![r] = SessionsOf(target[r])]
  /\ todo' = [todo EXCEPT ![r] = TokensOf(SessionsOf(target[r]))]
  /\ sessions' = sessions \ SessionsOf(target[r])
  /\ Goto(r, "out_all")
  /\ UNCHANGED <<call, userVars, otp, reg, live, target, seen, given, data>>

LogoutAllList(r) ==
  /\ pc[r] = "list"
  /\ listed' = [listed EXCEPT ![r] = SessionsOf(target[r])]
  /\ todo' = [todo EXCEPT ![r] = TokensOf(SessionsOf(target[r]))]
  /\ Goto(r, "out_all")
  /\ UNCHANGED <<call, userVars, authVars, target, seen, given, data>>

\* One turn of the loop, or its end
LogoutAllToken(r) ==
  /\ pc[r] = "out_all"
  /\ \/ \E t \in todo[r] :
          /\ t[2] = "refresh" => <<t[1], "access">> \notin todo[r]
          /\ live' = live \ {t}
          /\ todo' = [todo EXCEPT ![r] = @ \ {t}]
          /\ UNCHANGED pc
     \/ todo[r] = {} /\ Goto(r, "out_rows") /\ UNCHANGED <<live, todo>>
  /\ UNCHANGED <<call, userVars, otp, reg, sessions, target, seen, given, data, listed>>

\* Every session of the user, also one that was not listed
LogoutAllRows(r) ==
  /\ pc[r] = "out_rows"
  /\ sessions' = sessions \ SessionsOf(target[r])
  /\ Goto(r, "log")
  /\ UNCHANGED <<call, userVars, otp, reg, live, localVars>>

SessionStep(r) ==
  \/ StoreAccess(r) \/ StoreRefresh(r) \/ InsertSession(r) \/ Log(r)
  \/ Refresh(r) \/ RefreshUser(r) \/ RefreshDelete(r)
  \/ Logout(r) \/ LogoutToken(r) \/ LogoutRow(r)
  \/ LogoutAll(r) \/ LogoutAllList(r) \/ LogoutAllToken(r) \/ LogoutAllRows(r)

----------------------------------------------------------------------------
\* The request is refused, an await throws, or the process dies.
Fails(r) ==
  /\ pc[r] \notin Final \cup {"idle"}
  /\ Goto(r, "failed")
  /\ UNCHANGED <<call, userVars, authVars, localVars>>

\* The time to live of an entry is over, or the cache is restarted.
CacheLoses ==
  /\ \/ \E e \in Emails : reg[e] # NONE /\ reg' = [reg EXCEPT ![e] = NONE] /\ UNCHANGED live
     \/ \E t \in live : live' = live \ {t} /\ UNCHANGED reg
  /\ UNCHANGED <<call, pc, userVars, otp, sessions, localVars>>

AccountStep(r) ==
  /\ UserStep(r)
  /\ UNCHANGED <<call, authVars, given, data, listed, todo>>

Next ==
  \/ \E r \in Requests :
       \/ AccountStep(r) \/ OtpStep(r) \/ VerifyStep(r) \/ SessionStep(r)
       \/ OtpAges(r) \/ Fails(r)
  \/ CacheLoses

Spec == Init /\ [][Next]_vars

----------------------------------------------------------------------------
(* Properties *)

\* What has been ended stays ended: the tokens of a session that a logout has
\* got both cookies of (without them it reports success and ends nothing),
\* those of the sessions a logoutAll has listed, and a refresh token that was
\* exchanged.  Nothing stores a mapping again.
EndedTokensStayDead ==
  \A r \in Requests :
    pc[r] = "ok" =>
      /\ Op(r) = "logout" /\ given[r] # NONE => TokensOf({given[r]}) \cap live = {}
      /\ Op(r) = "logoutAll" => TokensOf(listed[r]) \cap live = {}
      /\ Op(r) = "refresh" => <<given[r], "refresh">> \notin live

\* A client's token that works although its session has no row any more, so
\* that no later logoutAll will find it: the row was deleted by a logoutAll
\* that had listed the sessions before the row was there.
OrphanTokensExplained ==
  \A s \in HandedOut :
    TokensOf({s}) \cap live # {} /\ s \notin sessions =>
      \E l \in Requests :
        /\ Op(l) = "logoutAll" /\ target[l] = target[s]
        /\ pc[l] \in {"log", "ok", "failed"} /\ s \notin listed[l]

\* Requests that write a User row they have read, and have done so (or failed).
Saved(u) ==
  {r \in Requests : target[r] = u /\ r # u /\
     \/ Op(r) \in {"adminUpdate", "updateProfile"} /\ pc[r] \notin {"idle", "admin_save", "rename"}
     \/ Op(r) = "verify" /\ pc[r] \notin {"idle", "v_cache", "code", "mark", "activate"}}

\* An acknowledged suspension is in the row, unless the user is deleted or a
\* request has saved what it had read before, or another administrator came
\* after.
SuspensionsKept ==
  \A a \in Requests :
    /\ pc[a] = "ok" /\ Op(a) = "adminUpdate" /\ call[a].status = "BARRED"
    /\ Exists(target[a]) /\ status[target[a]] # "BARRED"
    => \E s \in Saved(target[a]) \ {a} : Op(s) = "adminUpdate" \/ seen[s] # "BARRED"

\* After an acknowledged deletion a row of the user is there only because a
\* request that had read it before has saved it (again).
DeletionsAreFinal ==
  \A d \in Requests :
    pc[d] = "ok" /\ Op(d) = "deleteUser" =>
      LET u == target[d]
          registered == Op(u) = "verify"
      IN  /\ Exists(u) => Saved(u) # {}
          /\ password[u] # NONE =>
               \/ registered
               \/ \E s \in Requests : Op(s) = "changePassword" /\ target[s] = u /\ pc[s] = "ok"
          /\ u \in profiles =>
               registered \/ \E s \in Saved(u) : Op(s) = "updateProfile"

\* Two accounts are created with one code only if the first was deleted.
OneAccountPerCode ==
  \A u, v \in Requests :
    /\ target[u] = u /\ target[v] = v /\ u # v
    /\ given[u] = given[v] /\ given[u] # NONE
    => \E d \in Requests : Op(d) = "deleteUser" /\ target[d] \in {u, v} /\ pc[d] = "ok"
=============================================================================
