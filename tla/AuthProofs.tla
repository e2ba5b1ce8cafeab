----------------------------- MODULE AuthProofs ------------------------------
(***************************************************************************)
(* What holds of accounts and sessions for every set of requests, e-mail   *)
(* addresses and plans.                                                    *)
(***************************************************************************)
EXTENDS Auth, TLAPS

(***************************************************************************)
(* The inductive invariant, part by part.                                  *)
(***************************************************************************)

OtpOps == {"register", "login", "resend", "cancel"}
Makers == {"account", "verify", "refresh"}

\* A label belongs to its method.
InPlace(r) ==
  /\ pc[r] = "admin_save" => Op(r) = "adminUpdate"
  /\ pc[r] \in {"rename", "profile"} => Op(r) = "updateProfile"
  /\ pc[r] = "reread" => Op(r) \in {"adminUpdate", "updateProfile"}
  /\ pc[r] = "password" => Op(r) = "changePassword"
  /\ pc[r] \in {"del_credential", "del_profile", "del_user"} => Op(r) = "deleteUser"
  /\ pc[r] \in {"reg_cache", "otp_find", "otp_cancel", "otp_save", "otp_mail",
                "credential", "resend_cache", "cancel_reg"} => Op(r) \in OtpOps
  /\ pc[r] \in {"v_cache", "code", "mark", "insert", "v_profile", "v_credential",
                "v_del_reg", "activate"} => Op(r) = "verify"
  /\ pc[r] \in {"r_user", "r_reject", "r_del"} => Op(r) = "refresh"
  /\ pc[r] \in {"access", "refresh", "session"} => Op(r) \in {"verify", "refresh"}
  /\ pc[r] \in {"out_access", "out_refresh", "out_row"} => Op(r) = "logout"
  /\ pc[r] \in {"list", "out_all", "out_rows"} => Op(r) = "logoutAll"
  /\ pc[r] = "log" => Op(r) \in {"verify", "refresh", "logout", "logoutAll"}
  /\ Op(r) = "account" => pc[r] = "ok"

\* Labels at which a request knows its user.
Knowing == UserLabels \cup {"v_profile", "v_credential", "v_del_reg", "activate",
            "access", "refresh", "session", "r_user", "r_reject", "r_del",
            "out_access", "out_refresh", "out_row", "list", "out_all", "out_rows"}

\* The user of a request is a request that inserted a user, and is known
\* from the first step on that needs it.
TargetKnown(r) ==
  /\ pc[r] = "idle" => target[r] = NONE /\ given[r] = NONE /\ data[r] = NONE
  /\ pc[r] \in {"v_cache", "insert"} => target[r] = NONE
  /\ pc[r] \in {"code", "mark"} /\ data[r] # NONE => target[r] = NONE
  /\ pc[r] \in Knowing => target[r] # NONE
  /\ pc[r] \in {"log", "ok"} /\ Op(r) \in Makers => target[r] # NONE
  /\ target[r] # NONE => target[target[r]] = target[r]
  /\ status[r] # NONE => target[r] = r
  /\ password[r] # NONE => target[r] = r
  /\ target[r] = r => /\ Op(r) \in {"account", "verify"}
                      /\ pc[r] \notin {"idle", "v_cache", "code", "mark", "insert", "activate"}
  /\ pc[r] \in {"v_profile", "v_credential", "v_del_reg"} => target[r] = r

Places == \A r \in Requests : InPlace(r)
Targets == \A r \in Requests : TargetKnown(r)

Core == TypeOK /\ Places /\ Targets

----------------------------------------------------------------------------
LEMMA InitCore == Init => Core
  BY UsersAssumption
  DEF Init, UserInit, Core, TypeOK, Places, Targets, InPlace, TargetKnown, Knowing,
      Accounts, Op, Calls, Tokens, TokensOf, Active, Final, UserLabels, Statuses,
      OtpOps, Makers

\* The operation, the address and the status of a call.
LEMMA CallTypes ==
  ASSUME TypeOK, NEW r \in Requests
  PROVE  /\ call[r].op \in UserOps \cup AuthOps \cup {"account", "none"}
         /\ call[r].email \in Emails
         /\ call[r].type \in Types
         /\ call[r].status \in Statuses
  BY UsersAssumption DEF TypeOK, Calls

\* UserService
LEMMA UserCore ==
  ASSUME Core, NEW r \in Requests, AccountStep(r)
  PROVE  Core'
  <1> USE UsersAssumption, CallTypes
      DEF Core, TypeOK, Places, Targets, InPlace, TargetKnown, Knowing, Op, Goto,
          SaveUser, Exists, userVars, authVars, Final, UserLabels, OtpOps, Makers,
          UserOps, AuthOps
  <1>1. CASE FindUser(r)
    BY <1>1 DEF FindUser, FirstStep, AccountStep
  <1>2. CASE AdminSave(r)
    BY <1>2 DEF AdminSave, AccountStep
  <1>3. CASE Rename(r)
    BY <1>3 DEF Rename, AccountStep
  <1>4. CASE SaveProfile(r)
    BY <1>4 DEF SaveProfile, AccountStep
  <1>5. CASE Reread(r)
    BY <1>5 DEF Reread, AccountStep
  <1>6. CASE FindCredential(r)
    BY <1>6 DEF FindCredential, AccountStep
  <1>7. CASE SavePassword(r)
    BY <1>7 DEF SavePassword, AccountStep
  <1>8. CASE DeleteCredential(r)
    BY <1>8 DEF DeleteCredential, AccountStep
  <1>9. CASE DeleteProfile(r)
    BY <1>9 DEF DeleteProfile, AccountStep
  <1>10. CASE DeleteUser(r)
    BY <1>10 DEF DeleteUser, AccountStep
  <1>11. QED
    BY <1>1, <1>2, <1>3, <1>4, <1>5, <1>6, <1>7, <1>8, <1>9, <1>10
    DEF AccountStep, UserStep

\* register, login, resendOtp, cancelOtp
LEMMA OtpCore ==
  ASSUME Core, NEW r \in Requests, OtpStep(r)
  PROVE  Core'
  <1> USE UsersAssumption, CallTypes
      DEF Core, TypeOK, Places, Targets, InPlace, TargetKnown, Knowing, Op, Email,
          Goto, userVars, authVars, localVars, Final, UserLabels, AuthLabels,
          OtpOps, Makers, UserOps, AuthOps, Active
  <1>1. CASE OtpFind(r)
    BY <1>1 DEF OtpFind
  <1>2. CASE OtpCancel(r)
    BY <1>2 DEF OtpCancel, Cancelled
  <1>3. CASE OtpSave(r)
    BY <1>3 DEF OtpSave
  <1>4. CASE OtpMail(r)
    BY <1>4 DEF OtpMail
  <1>5. CASE Register(r)
    BY <1>5 DEF Register
  <1>6. CASE RegCache(r)
    BY <1>6 DEF RegCache
  <1>7. CASE Login(r)
    <2>1. ASSUME NEW u \in UserWith(Email(r)),
                 target' = [target EXCEPT ![r] = u], seen' = [seen EXCEPT ![r] = status[u]]
          PROVE  Core'
      BY <1>7, <2>1 DEF Login, NewUser, UserWith, Exists
    <2>2. CASE UNCHANGED <<target, seen>>
      BY <1>7, <2>2 DEF Login, NewUser
    <2>3. QED
      BY <1>7, <2>1, <2>2 DEF Login, Found
  <1>8. CASE LoginCredential(r)
    BY <1>8 DEF LoginCredential
  <1>9. CASE Resend(r)
    <2>1. ASSUME NEW u \in UserWith(Email(r)),
                 target' = [target EXCEPT ![r] = u], seen' = [seen EXCEPT ![r] = status[u]]
          PROVE  Core'
      <3>1. u \in Requests /\ status[u] # NONE
        BY <2>1 DEF UserWith, Exists
      <3>2. Goto(r, "otp_find")
        BY <1>9, <2>1, <3>1 DEF Resend, NewUser
      <3>3. pc[r] = "idle" /\ Op(r) = "resend"
            /\ UNCHANGED <<call, userVars, authVars, given, data, listed, todo>>
        BY <1>9 DEF Resend
      <3>4. QED
        BY <2>1, <3>1, <3>2, <3>3
    <2>2. CASE UNCHANGED <<target, seen>>
      BY <1>9, <2>2 DEF Resend, NewUser
    <2>3. QED
      BY <1>9, <2>1, <2>2 DEF Resend, Found
  <1>10. CASE ResendCache(r)
    BY <1>10 DEF ResendCache
  <1>11. CASE Cancel(r)
    BY <1>11 DEF Cancel, Cancelled
  <1>12. CASE CancelReg(r)
    BY <1>12 DEF CancelReg
  <1>13. QED
    BY <1>1, <1>2, <1>3, <1>4, <1>5, <1>6, <1>7, <1>8, <1>9, <1>10, <1>11, <1>12 DEF OtpStep

\* verifyOtp
LEMMA VerifyCore ==
  ASSUME Core, NEW r \in Requests, VerifyStep(r)
  PROVE  Core'
  <1> USE UsersAssumption, CallTypes
      DEF Core, TypeOK, Places, Targets, InPlace, TargetKnown, Knowing, Op, Email,
          Goto, userVars, authVars, localVars, Final, UserLabels, AuthLabels,
          OtpOps, Makers, UserOps, AuthOps, Active
  <1>1. CASE Verify(r)
    <2>1. ASSUME NEW u \in UserWith(Email(r)),
                 target' = [target EXCEPT ![r] = u], seen' = [seen EXCEPT ![r] = status[u]]
          PROVE  Core'
      BY <1>1, <2>1 DEF Verify, NewUser, UserWith, Exists
    <2>2. CASE UNCHANGED <<target, seen>>
      BY <1>1, <2>2 DEF Verify, NewUser
    <2>3. QED
      BY <1>1, <2>1, <2>2 DEF Verify, Found
  <1>2. CASE VerifyCache(r)
    BY <1>2 DEF VerifyCache
  <1>3. CASE VerifyCode(r)
    BY <1>3 DEF VerifyCode, ActiveCodes, CodesFor
  <1>4. CASE VerifyMark(r)
    <2>1. data[r] # NONE => target[r] = NONE
      BY <1>4 DEF VerifyMark
    <2>2. /\ data[r] # NONE => Verified(r) = "insert"
          /\ data[r] = NONE /\ target[r] = NONE => Verified(r) = "failed"
          /\ data[r] = NONE /\ target[r] # NONE => Verified(r) \in {"activate", "access"}
      BY <2>1, Zenon DEF Verified
    <2>3. Verified(r) \in {"insert", "failed", "activate", "access"}
      BY <2>2
    <2>4. otp' \in [Requests -> {"none", "dead"} \cup Active]
      BY <1>4 DEF VerifyMark
    <2>5. QED
      BY <1>4, <2>2, <2>3, <2>4 DEF VerifyMark
  <1>5. CASE InsertUser(r)
    BY <1>5 DEF InsertUser, SaveUser, Statuses
  <1>6. CASE InsertProfile(r)
    BY <1>6 DEF InsertProfile
  <1>7. CASE InsertCredential(r)
    BY <1>7 DEF InsertCredential
  <1>8. CASE VerifyDelReg(r)
    BY <1>8 DEF VerifyDelReg
  <1>9. CASE Activate(r)
    BY <1>9 DEF Activate, SaveUser, Statuses
  <1>10. QED
    BY <1>1, <1>2, <1>3, <1>4, <1>5, <1>6, <1>7, <1>8, <1>9 DEF VerifyStep

\* New sessions, refreshTokens, logout, logoutAll
LEMMA SessionCore ==
  ASSUME Core, NEW r \in Requests, SessionStep(r)
  PROVE  Core'
  <1> USE UsersAssumption, CallTypes
      DEF Core, TypeOK, Places, Targets, InPlace, TargetKnown, Knowing, Op, Email,
          Goto, userVars, authVars, localVars, Final, UserLabels, AuthLabels,
          OtpOps, Makers, UserOps, AuthOps, Active
  <1>1. CASE StoreAccess(r)
    BY <1>1 DEF StoreAccess, Tokens
  <1>2. CASE StoreRefresh(r)
    BY <1>2 DEF StoreRefresh, Tokens
  <1>3. CASE InsertSession(r)
    BY <1>3 DEF InsertSession
  <1>4. CASE Log(r)
    BY <1>4 DEF Log
  <1>5. CASE Refresh(r)
    BY <1>5 DEF Refresh, Presents, HandedOut
  <1>6. CASE RefreshUser(r)
    BY <1>6 DEF RefreshUser
  <1>7. CASE RefreshDelete(r)
    BY <1>7 DEF RefreshDelete
  <1>8. CASE Logout(r)
    BY <1>8 DEF Logout, HandedOut
  <1>9. CASE LogoutToken(r)
    <2>1. live' \in SUBSET Tokens /\ UNCHANGED <<call, userVars, otp, reg, sessions, localVars>>
      BY <1>9 DEF LogoutToken
    <2>2. CASE pc[r] = "out_access" /\ Goto(r, "out_refresh")
      BY <2>1, <2>2
    <2>3. CASE pc[r] = "out_refresh" /\ Goto(r, "out_row")
      BY <2>1, <2>3
    <2>4. QED
      BY <1>9, <2>2, <2>3 DEF LogoutToken
  <1>10. CASE LogoutRow(r)
    BY <1>10 DEF LogoutRow
  <1>11. CASE LogoutAll(r)
    BY <1>11 DEF LogoutAll, Presents, HandedOut
  <1>12. CASE LogoutAllList(r)
    BY <1>12 DEF LogoutAllList, SessionsOf, TokensOf, Tokens
  <1>13. CASE LogoutAllToken(r)
    <2>1. live' \in SUBSET Tokens /\ todo' \in [Requests -> SUBSET Tokens]
      <3>1. ASSUME NEW t, live' = live \ {t}, todo' = [todo EXCEPT ![r] = @ \ {t}]
            PROVE  live' \in SUBSET Tokens /\ todo' \in [Requests -> SUBSET Tokens]
        BY <3>1
      <3>2. CASE UNCHANGED <<live, todo>>
        BY <3>2
      <3>3. QED
        <4> HIDE DEF Core, TypeOK, Places, Targets, InPlace, TargetKnown, Tokens, Goto
        <4>1. QED
          BY <1>13, <3>1, <3>2, Zenon DEF LogoutAllToken
    <2>2. CASE UNCHANGED pc
      BY <1>13, <2>1, <2>2 DEF LogoutAllToken
    <2>3. CASE Goto(r, "out_rows")
      BY <1>13, <2>1, <2>3 DEF LogoutAllToken
    <2>4. QED
      BY <1>13, <2>2, <2>3 DEF LogoutAllToken
  <1>14. CASE LogoutAllRows(r)
    BY <1>14 DEF LogoutAllRows, SessionsOf
  <1>15. QED
    BY <1>1, <1>2, <1>3, <1>4, <1>5, <1>6, <1>7, <1>8, <1>9, <1>10, <1>11, <1>12, <1>13, <1>14 DEF SessionStep

\* Time and failures
LEMMA OtherCore ==
  ASSUME Core,
         (\E r \in Requests : OtpAges(r) \/ Fails(r)) \/ CacheLoses \/ UNCHANGED vars
  PROVE  Core'
  <1> USE UsersAssumption
      DEF Core, TypeOK, Places, Targets, InPlace, TargetKnown, Knowing, Op, Goto,
          userVars, authVars, localVars, Final, UserLabels, Active
  <1>1. ASSUME NEW r \in Requests, OtpAges(r) PROVE Core'
    BY <1>1 DEF OtpAges
  <1>2. ASSUME NEW r \in Requests, Fails(r) PROVE Core'
    BY <1>2 DEF Fails
  <1>3. CASE CacheLoses
    BY <1>3 DEF CacheLoses
  <1>4. CASE UNCHANGED vars
    BY <1>4 DEF vars
  <1>5. QED
    BY <1>1, <1>2, <1>3, <1>4

LEMMA StepCore == Core /\ [Next]_vars => Core'
  BY UserCore, OtpCore, VerifyCore, SessionCore, OtherCore DEF Next

\* The types are right for every set of requests and every plan.
THEOREM TypeCorrect == Spec => []TypeOK
  <1>1. Core => TypeOK
    BY DEF Core
  <1>2. QED
    BY <1>1, InitCore, StepCore, PTL DEF Spec

----------------------------------------------------------------------------
(* Sessions: what is ended stays ended, and orphans are explained *)

Stored == {"log", "ok", "failed"}
Enders == {"refresh", "logout", "logoutAll"}

\* A session with a row, or that was listed, has got its tokens.
SessionsStored ==
  /\ \A s \in sessions : pc[s] \in Stored
  /\ \A l \in Requests : \A s \in listed[l] : pc[s] \in Stored

\* The session a request presents has been handed out.
GivenDone ==
  \A r \in Requests : Op(r) \in Enders /\ given[r] # NONE => pc[given[r]] = "ok"

Ended(r) ==
  /\ Op(r) = "logout" /\ pc[r] \in {"out_refresh", "out_row", "log", "ok"}
       => <<given[r], "access">> \notin live
  /\ Op(r) = "logout" /\ pc[r] \in {"out_row", "log", "ok"}
       => <<given[r], "refresh">> \notin live
  /\ Op(r) = "logoutAll" /\ pc[r] \in {"out_all", "out_rows", "log", "ok"}
       => TokensOf(listed[r]) \cap live \subseteq todo[r]
  /\ Op(r) = "logoutAll" /\ pc[r] \in {"out_rows", "log", "ok"}
       => todo[r] = {}
  /\ Op(r) = "refresh" /\ pc[r] \in {"access", "refresh", "session", "log", "ok"}
       => <<given[r], "refresh">> \notin live

\* The logoutAll that has taken the row of a session it had not listed.
Swept(s, l) ==
  /\ Op(l) = "logoutAll" /\ target[l] = target[s]
  /\ pc[l] \in Stored /\ s \notin listed[l]

OrphanSwept(s) ==
  Op(s) \in Makers /\ pc[s] \in {"log", "ok"} /\ s \notin sessions =>
    TokensOf({s}) \cap live = {} \/ \E l \in Requests : Swept(s, l)

Endings == \A r \in Requests : Ended(r)
Orphans == \A s \in Requests : OrphanSwept(s)
SessionInv == SessionsStored /\ GivenDone /\ Endings /\ Orphans

LEMMA InitSessions == Init => SessionInv
  BY UsersAssumption
  DEF Init, UserInit, SessionInv, SessionsStored, GivenDone, Endings, Ended, Orphans,
      OrphanSwept, Accounts, Stored, Enders, TokensOf, Op

\* The steps that concern no session leave the sessions alone.
LEMMA NoSessionFrame ==
  ASSUME Core, NEW r \in Requests, AccountStep(r) \/ OtpStep(r) \/ VerifyStep(r)
  PROVE  /\ UNCHANGED <<call, live, sessions, listed, todo>>
         /\ Op(r) \notin Enders
         /\ pc[r] \notin Stored
         /\ \E label : /\ Goto(r, label)
                       /\ label # "log"
                       /\ Op(r) \in Makers => label # "ok"
         /\ \A q \in Requests \ {r} : target'[q] = target[q] /\ given'[q] = given[q]
         /\ target[r] # NONE => target'[r] = target[r]
  <1> USE DEF Core, TypeOK, Places, Targets, InPlace, TargetKnown, Knowing, Goto,
              Stored, Enders, Makers, OtpOps, UserOps, UserLabels, Final,
              userVars, authVars, localVars
  <1>1. ASSUME AccountStep(r) PROVE UNCHANGED <<call, live, sessions, listed, todo>>
    BY <1>1 DEF AccountStep
  <1>2. ASSUME UserStep(r), UNCHANGED <<given, call>>
        PROVE  /\ Op(r) \in UserOps /\ pc[r] \notin Stored
               /\ \E label : /\ Goto(r, label) /\ label # "log"
               /\ \A q \in Requests \ {r} : target'[q] = target[q] /\ given'[q] = given[q]
               /\ target[r] # NONE => target'[r] = target[r]
    <2>1. CASE FindUser(r)
      <3>1. FirstStep(r) # "log" /\ Goto(r, FirstStep(r))
        BY <2>1 DEF FindUser, FirstStep
      <3>2. PICK u \in Requests : target' = [target EXCEPT ![r] = u]
        BY <2>1 DEF FindUser
      <3>3. pc[r] = "idle" /\ Op(r) \in UserOps /\ given' = given
        BY <2>1, <1>2 DEF FindUser
      <3>4. QED
        BY <3>1, <3>2, <3>3
    <2>2. CASE Reread(r)
      <3>1. Goto(r, "ok") \/ Goto(r, "failed")
        BY <2>2 DEF Reread
      <3>2. pc[r] = "reread" /\ target' = target /\ given' = given
        BY <2>2, <1>2 DEF Reread
      <3>3. QED
        BY <3>1, <3>2
    <2>3. CASE FindCredential(r)
      <3>1. Goto(r, "password")
        BY <2>3 DEF FindCredential
      <3>2. PICK u \in Requests : target' = [target EXCEPT ![r] = u]
        BY <2>3 DEF FindCredential
      <3>3. pc[r] = "idle" /\ Op(r) \in UserOps /\ given' = given
        BY <2>3, <1>2 DEF FindCredential
      <3>4. \A q \in Requests \ {r} : target'[q] = target[q]
        BY <3>2
      <3>5. target[r] = NONE
        BY <3>3
      <3>6. \E label : Goto(r, label) /\ label # "log"
        <4> HIDE DEF Goto
        <4>1. "password" # "log"
          OBVIOUS
        <4>2. QED
          BY <3>1, <4>1
      <3>7. QED
        BY <3>3, <3>4, <3>5, <3>6
    <2>4. CASE AdminSave(r) \/ Rename(r) \/ SaveProfile(r) \/ SavePassword(r)
      BY <2>4, <1>2 DEF AdminSave, Rename, SaveProfile, SavePassword
    <2>5. CASE DeleteCredential(r) \/ DeleteProfile(r) \/ DeleteUser(r)
      BY <2>5, <1>2 DEF DeleteCredential, DeleteProfile, DeleteUser
    <2>6. QED
      BY <2>1, <2>2, <2>3, <2>4, <2>5, <1>2 DEF UserStep
  <1>3. CASE AccountStep(r)
    BY <1>1, <1>2, <1>3 DEF AccountStep
  <1>4. CASE OtpStep(r)
    <2>1. CASE OtpFind(r) \/ OtpCancel(r) \/ OtpSave(r) \/ OtpMail(r) \/ Register(r)
      BY <2>1 DEF OtpFind, OtpCancel, OtpSave, OtpMail, Register
    <2>2. CASE RegCache(r) \/ LoginCredential(r) \/ ResendCache(r) \/ Cancel(r) \/ CancelReg(r)
      BY <2>2 DEF RegCache, LoginCredential, ResendCache, Cancel, CancelReg
    <2>3. CASE Login(r)
      BY <2>3 DEF Login, Found
    <2>4. CASE Resend(r)
      BY <2>4 DEF Resend, Found
    <2>5. QED
      BY <1>4, <2>1, <2>2, <2>3, <2>4 DEF OtpStep
  <1>5. CASE VerifyStep(r)
    <2>1. CASE Verify(r)
      <3>1. Goto(r, "v_cache") \/ Goto(r, "code")
        BY <2>1 DEF Verify
      <3>2. \A q \in Requests \ {r} : target'[q] = target[q]
        BY <2>1 DEF Verify, Found
      <3>3. /\ pc[r] = "idle" /\ Op(r) = "verify" /\ given' = given
            /\ UNCHANGED <<call, live, sessions, listed, todo>>
        BY <2>1 DEF Verify
      <3>4. QED
        BY <3>1, <3>2, <3>3
    <2>2. CASE VerifyCache(r) \/ VerifyCode(r)
      BY <2>2 DEF VerifyCache, VerifyCode
    <2>3. CASE VerifyMark(r)
      <3>1. Verified(r) \notin {"log", "ok"}
        BY DEF Verified
      <3>2. QED
        BY <2>3, <3>1 DEF VerifyMark
    <2>4. CASE InsertUser(r) \/ InsertProfile(r) \/ InsertCredential(r)
      BY <2>4 DEF InsertUser, InsertProfile, InsertCredential
    <2>5. CASE VerifyDelReg(r) \/ Activate(r)
      BY <2>5 DEF VerifyDelReg, Activate
    <2>6. QED
      BY <1>5, <2>1, <2>2, <2>3, <2>4, <2>5 DEF VerifyStep
  <1>6. QED
    BY <1>3, <1>4, <1>5

\* They keep what is known of sessions.
LEMMA NoSessionInv ==
  ASSUME Core, SessionInv, NEW r \in Requests,
         AccountStep(r) \/ OtpStep(r) \/ VerifyStep(r)
  PROVE  SessionInv'
  <1>1. /\ UNCHANGED <<call, live, sessions, listed, todo>>
        /\ Op(r) \notin Enders
        /\ pc[r] \notin Stored
        /\ \A q \in Requests \ {r} : target'[q] = target[q] /\ given'[q] = given[q]
        /\ target[r] # NONE => target'[r] = target[r]
    BY NoSessionFrame
  <1>2. PICK label : /\ Goto(r, label)
                     /\ label # "log"
                     /\ Op(r) \in Makers => label # "ok"
    BY NoSessionFrame
  <1>3. /\ pc'[r] = label
        /\ \A q \in Requests \ {r} : pc'[q] = pc[q]
    BY <1>2 DEF Goto, Core, TypeOK
  <1>4. \A q \in Requests : Op(q)' = Op(q)
    BY <1>1 DEF Op
  <1>5. \A q \in Requests : pc[q] \in Stored => pc'[q] = pc[q]
    BY <1>1, <1>3
  <1>6. SessionsStored'
    BY <1>1, <1>5 DEF SessionInv, SessionsStored, Core, TypeOK
  <1>7. GivenDone'
    BY <1>1, <1>4, <1>5 DEF SessionInv, GivenDone, Core, TypeOK, Stored
  <1>8. ASSUME NEW q \in Requests PROVE Ended(q)'
    BY <1>1, <1>3, <1>4 DEF SessionInv, Endings, Ended, Enders, TokensOf
  <1>9. ASSUME NEW s \in Requests PROVE OrphanSwept(s)'
    <2>1. SUFFICES ASSUME Op(s) \in Makers, pc'[s] \in {"log", "ok"}, s \notin sessions,
                          TokensOf({s}) \cap live # {}
                   PROVE  \E l \in Requests : Swept(s, l)'
      BY <1>1, <1>4 DEF OrphanSwept, TokensOf
    <2>2. s # r /\ pc[s] = pc'[s]
      BY <1>2, <1>3, <2>1
    <2>3. PICK l \in Requests : Swept(s, l)
      BY <2>1, <2>2 DEF SessionInv, Orphans, OrphanSwept
    <2>4. l # r
      BY <2>3, <1>1 DEF Swept, Enders
    <2>5. Swept(s, l)'
      BY <1>1, <1>3, <1>4, <2>2, <2>3, <2>4 DEF Swept
    <2>6. QED
      BY <2>5
  <1>10. QED
    BY <1>6, <1>7, <1>8, <1>9 DEF SessionInv, Endings, Orphans

\* A step that gives a session no token, and takes its row only with its
\* tokens or unlisted, leaves it explained.
LEMMA OrphanStays ==
  ASSUME Core, SessionInv, NEW r \in Requests, NEW s \in Requests, s # r,
         UNCHANGED call,
         \A q \in Requests \ {r} : pc'[q] = pc[q] /\ listed'[q] = listed[q],
         pc[r] \notin Stored,
         \A q \in Requests \ {r} : target'[q] = target[q],
         TokensOf({s}) \cap live' \subseteq TokensOf({s}) \cap live,
         s \in sessions => \/ s \in sessions'
                           \/ TokensOf({s}) \cap live' = {}
                           \/ Swept(s, r)'
  PROVE  OrphanSwept(s)'
  <1>1. Op(s)' = Op(s) /\ pc'[s] = pc[s] /\ target'[s] = target[s]
    BY DEF Op
  <1>2. SUFFICES ASSUME Op(s) \in Makers, pc[s] \in {"log", "ok"}, s \notin sessions',
                        TokensOf({s}) \cap live' # {}
                 PROVE  \E l \in Requests : Swept(s, l)'
    BY <1>1 DEF OrphanSwept, TokensOf
  <1>3. CASE s \in sessions
    BY <1>2, <1>3
  <1>4. CASE s \notin sessions
    <2>1. PICK l \in Requests : Swept(s, l)
      BY <1>2, <1>4 DEF SessionInv, Orphans, OrphanSwept
    <2>2. l # r
      BY <2>1 DEF Swept
    <2>3. Swept(s, l)'
      BY <1>1, <2>1, <2>2 DEF Swept, Op
    <2>4. QED
      BY <2>3
  <1>5. QED
    BY <1>3, <1>4

\* New sessions, refreshTokens, logout and logoutAll.
LEMMA SessionStepInv ==
  ASSUME Core, SessionInv, NEW r \in Requests, SessionStep(r)
  PROVE  SessionInv'
  <1> USE DEF Core, TypeOK, Places, Targets, InPlace, TargetKnown, Knowing, Goto, Op,
              SessionInv, SessionsStored, GivenDone, Endings, Ended, Orphans,
              OrphanSwept, Swept, Stored, Enders, Makers, Final, Tokens, TokensOf,
              userVars, authVars, localVars
  <1>1. CASE StoreAccess(r)
    <2>1. SessionsStored' /\ GivenDone'
      BY <1>1 DEF StoreAccess
    <2>2. ASSUME NEW q \in Requests PROVE Ended(q)'
      <3>0. pc[r] \notin Stored
        BY <1>1 DEF StoreAccess
      <3>1. r \notin listed[q] /\ (Op(q) \in Enders => given[q] # r)
        BY <3>0, UsersAssumption
      <3>2. TokensOf(listed[q]) \cap live' \subseteq TokensOf(listed[q]) \cap live
        BY <1>1, <3>1 DEF StoreAccess
      <3>3. Op(q) \in Enders /\ <<given[q], "refresh">> \in live' =>
               <<given[q], "refresh">> \in live
        BY <1>1, <3>1 DEF StoreAccess
      <3>4. Op(q) \in Enders /\ <<given[q], "access">> \in live' =>
               <<given[q], "access">> \in live
        BY <1>1, <3>1 DEF StoreAccess
      <3>5. /\ Op(q)' = Op(q) /\ UNCHANGED <<given, listed, todo>>
            /\ pc'[q] = pc[q] \/ (q = r /\ pc[q] \in {"access", "refresh"}
                                  /\ pc'[q] \in {"refresh", "session"})
        BY <1>1 DEF StoreAccess
      <3>6. Ended(q)
        OBVIOUS
      <3>7. QED
        <4> HIDE DEF Core, TokensOf, Tokens, Goto, Orphans, SessionsStored
        <4>1. QED
          BY <3>2, <3>3, <3>4, <3>5, <3>6
    <2>3. ASSUME NEW s \in Requests PROVE OrphanSwept(s)'
      BY <1>1 DEF StoreAccess
    <2>4. QED
      BY <2>1, <2>2, <2>3
  <1>2. CASE StoreRefresh(r)
    <2>1. SessionsStored' /\ GivenDone'
      BY <1>2 DEF StoreRefresh
    <2>2. ASSUME NEW q \in Requests PROVE Ended(q)'
      <3>0. pc[r] \notin Stored
        BY <1>2 DEF StoreRefresh
      <3>1. r \notin listed[q] /\ (Op(q) \in Enders => given[q] # r)
        BY <3>0, UsersAssumption
      <3>2. TokensOf(listed[q]) \cap live' \subseteq TokensOf(listed[q]) \cap live
        BY <1>2, <3>1 DEF StoreRefresh
      <3>3. Op(q) \in Enders /\ <<given[q], "refresh">> \in live' =>
               <<given[q], "refresh">> \in live
        BY <1>2, <3>1 DEF StoreRefresh
      <3>4. Op(q) \in Enders /\ <<given[q], "access">> \in live' =>
               <<given[q], "access">> \in live
        BY <1>2, <3>1 DEF StoreRefresh
      <3>5. /\ Op(q)' = Op(q) /\ UNCHANGED <<given, listed, todo>>
            /\ pc'[q] = pc[q] \/ (q = r /\ pc[q] \in {"access", "refresh"}
                                  /\ pc'[q] \in {"refresh", "session"})
        BY <1>2 DEF StoreRefresh
      <3>6. Ended(q)
        OBVIOUS
      <3>7. QED
        <4> HIDE DEF Core, TokensOf, Tokens, Goto, Orphans, SessionsStored
        <4>1. QED
          BY <3>2, <3>3, <3>4, <3>5, <3>6
    <2>3. ASSUME NEW s \in Requests PROVE OrphanSwept(s)'
      BY <1>2 DEF StoreRefresh
    <2>4. QED
      BY <2>1, <2>2, <2>3
  <1>3. CASE InsertSession(r)
    BY <1>3 DEF InsertSession
  <1>4. CASE Log(r)
    BY <1>4 DEF Log
  <1>5. CASE Refresh(r)
    <2>1. SessionsStored' /\ GivenDone'
      BY <1>5 DEF Refresh, Presents, HandedOut
    <2>2. ASSUME NEW q \in Requests PROVE Ended(q)'
      BY <1>5 DEF Refresh, Presents, HandedOut
    <2>3. ASSUME NEW s \in Requests PROVE OrphanSwept(s)'
      <3>1. CASE s = r
        BY <1>5, <3>1 DEF Refresh
      <3>2. CASE s # r
        <4>1. /\ UNCHANGED <<call, listed, live, sessions>> /\ pc[r] = "idle"
              /\ \A q \in Requests \ {r} : pc'[q] = pc[q] /\ target'[q] = target[q]
          BY <1>5 DEF Refresh, Presents
        <4>2. pc[r] \notin Stored
          BY <4>1
        <4>3. QED
          <5> HIDE DEF Core, SessionInv, OrphanSwept, Swept, TokensOf, Stored, Op
          <5>1. QED
            BY <3>2, <4>1, <4>2, OrphanStays
      <3>3. QED
        BY <3>1, <3>2
    <2>4. QED
      BY <2>1, <2>2, <2>3
  <1>6. CASE RefreshUser(r)
    BY <1>6 DEF RefreshUser
  <1>7. CASE RefreshDelete(r)
    <2>0. /\ UNCHANGED <<call, given, sessions, listed, todo, target>>
          /\ Op(r) = "refresh" /\ pc[r] \in {"r_del", "r_reject"}
          /\ pc'[r] = IF pc[r] = "r_del" THEN "access" ELSE "failed"
          /\ \A q \in Requests \ {r} : pc'[q] = pc[q]
          /\ live' = live \ {<<given[r], "refresh">>}
      BY <1>7 DEF RefreshDelete
    <2>1. SessionsStored' /\ GivenDone'
      <3>1. \A q \in Requests : pc[q] \in Stored => pc'[q] = pc[q]
        BY <2>0
      <3>2. QED
        BY <2>0, <3>1
    <2>2. ASSUME NEW q \in Requests PROVE Ended(q)'
      <3>1. Ended(q) /\ live' \subseteq live
        BY <2>0
      <3>2. CASE q = r
        <4> HIDE DEF Core, SessionInv
        <4>1. QED
          BY <2>0, <3>2
      <3>3. CASE q # r
        <4> HIDE DEF Core, SessionInv
        <4>1. QED
          BY <2>0, <3>1, <3>3
      <3>4. QED
        BY <3>2, <3>3
    <2>3. ASSUME NEW s \in Requests PROVE OrphanSwept(s)'
      <3>1. CASE s = r
        BY <2>0, <3>1
      <3>2. CASE s # r
        <4>1. TokensOf({s}) \cap live' \subseteq TokensOf({s}) \cap live
          BY <2>0
        <4>2. pc[r] \notin Stored
          BY <2>0
        <4>3. QED
          <5> HIDE DEF Core, SessionInv, OrphanSwept, Swept, TokensOf, Stored, Op
          <5>1. QED
            BY <2>0, <3>2, <4>1, <4>2, OrphanStays
      <3>3. QED
        BY <3>1, <3>2
    <2>4. QED
      BY <2>1, <2>2, <2>3
  <1>8. CASE Logout(r)
    <2>0. /\ UNCHANGED <<call, sessions, listed, todo, live>>
          /\ pc[r] = "idle" /\ Op(r) = "logout" /\ given[r] = NONE
          /\ pc'[r] \in {"out_access", "ok"} /\ (pc'[r] = "ok" => given' = given)
          /\ \A q \in Requests \ {r} : pc'[q] = pc[q] /\ given'[q] = given[q]
          /\ given'[r] # NONE => given'[r] \in Requests /\ pc[given'[r]] = "ok"
      <3> HIDE DEF SessionInv
      <3>1. CASE given' = given /\ Goto(r, "ok")
        BY <1>8, <3>1 DEF Logout
      <3>2. CASE Goto(r, "out_access")
                 /\ \E s \in HandedOut : given' = [given EXCEPT ![r] = s]
        BY <1>8, <3>2 DEF Logout, HandedOut
      <3>3. QED
        BY <1>8, <3>1, <3>2 DEF Logout
    <2>1. SessionsStored' /\ GivenDone'
      <3>1. SessionsStored'
        BY <2>0
      <3>2. GivenDone'
        BY <2>0
      <3>3. QED
        BY <3>1, <3>2
    <2>2. ASSUME NEW q \in Requests PROVE Ended(q)'
      <3>1. CASE q = r
        <4>1. \A k \in {"access", "refresh"} : <<NONE, k>> \notin live
          BY UsersAssumption DEF Tokens
        <4>2. QED
          BY <2>0, <3>1, <4>1
      <3>2. CASE q # r
        BY <2>0, <3>2
      <3>3. QED
        BY <3>1, <3>2
    <2>3. ASSUME NEW s \in Requests PROVE OrphanSwept(s)'
      <3>1. CASE s = r
        BY <1>8, <3>1 DEF Logout
      <3>2. CASE s # r
        <4>1. /\ UNCHANGED <<call, listed, live, sessions>> /\ pc[r] = "idle"
              /\ \A q \in Requests \ {r} : pc'[q] = pc[q] /\ target'[q] = target[q]
          BY <1>8 DEF Logout
        <4>2. pc[r] \notin Stored
          BY <4>1
        <4>3. QED
          <5> HIDE DEF Core, SessionInv, OrphanSwept, Swept, TokensOf, Stored, Op
          <5>1. QED
            BY <3>2, <4>1, <4>2, OrphanStays
      <3>3. QED
        BY <3>1, <3>2
    <2>4. QED
      BY <2>1, <2>2, <2>3
  <1>9. CASE LogoutToken(r)
    <2>1. SessionsStored' /\ GivenDone'
      <3>1. /\ pc[r] \notin Stored /\ UNCHANGED <<call, given, sessions, listed>>
            /\ \A q \in Requests \ {r} : pc'[q] = pc[q]
        BY <1>9 DEF LogoutToken
      <3>2. QED
        BY <3>1
    <2>2. ASSUME NEW q \in Requests PROVE Ended(q)'
      <3>1. /\ UNCHANGED <<call, given, listed, todo>> /\ Op(r) = "logout"
            /\ \A x \in Requests \ {r} : pc'[x] = pc[x]
            /\ live' \subseteq live
        BY <1>9 DEF LogoutToken
      <3>2. CASE pc[r] = "out_access"
        <4>1. pc'[r] = "out_refresh" /\ live' = live \ {<<given[r], "access">>}
          BY <1>9, <3>2 DEF LogoutToken
        <4>2. Ended(q)
          OBVIOUS
        <4>3. QED
          <5> HIDE DEF Core, SessionInv
          <5>1. QED
            BY <3>1, <4>1, <4>2
      <3>3. CASE pc[r] = "out_refresh"
        <4>1. pc'[r] = "out_row" /\ live' = live \ {<<given[r], "refresh">>}
          BY <1>9, <3>3 DEF LogoutToken
        <4>2. Ended(q)
          OBVIOUS
        <4>3. QED
          <5> HIDE DEF Core, SessionInv
          <5>1. QED
            BY <3>1, <3>3, <4>1, <4>2
      <3>4. QED
        BY <1>9, <3>2, <3>3 DEF LogoutToken
    <2>3. ASSUME NEW s \in Requests PROVE OrphanSwept(s)'
      <3>1. /\ UNCHANGED <<call, target, sessions, listed>>
            /\ pc[r] \notin Stored /\ pc'[r] \in {"out_refresh", "out_row"}
            /\ \A q \in Requests \ {r} : pc'[q] = pc[q]
            /\ live' \subseteq live
        BY <1>9 DEF LogoutToken
      <3>2. CASE s = r
        BY <3>1, <3>2
      <3>3. CASE s # r
        <4>1. TokensOf({s}) \cap live' \subseteq TokensOf({s}) \cap live
          BY <3>1
        <4>2. QED
          <5> HIDE DEF Core, SessionInv, OrphanSwept, Swept, TokensOf, Stored, Op
          <5>1. QED
            BY <3>1, <3>3, <4>1, OrphanStays
      <3>4. QED
        BY <3>2, <3>3
    <2>4. QED
      BY <2>1, <2>2, <2>3
  <1>10. CASE LogoutRow(r)
    <2>1. SessionsStored' /\ GivenDone'
      BY <1>10 DEF LogoutRow
    <2>2. ASSUME NEW q \in Requests PROVE Ended(q)'
      BY <1>10 DEF LogoutRow
    <2>3. ASSUME NEW s \in Requests PROVE OrphanSwept(s)'
      <3>1. CASE s = r
        BY <1>10, <3>1 DEF LogoutRow
      <3>2. CASE s # r
        <4>1. /\ UNCHANGED <<call, listed, live, target>> /\ pc[r] = "out_row"
              /\ \A q \in Requests \ {r} : pc'[q] = pc[q]
              /\ sessions' = sessions \ {given[r]}
          BY <1>10 DEF LogoutRow
        <4>2. s = given[r] => TokensOf({s}) \cap live = {}
          <5>1. <<given[r], "access">> \notin live /\ <<given[r], "refresh">> \notin live
            BY <4>1
          <5> HIDE DEF Core, SessionInv
          <5>2. QED
            BY <5>1
        <4>3. pc[r] \notin Stored
          BY <4>1
        <4>4. QED
          <5> HIDE DEF Core, SessionInv, OrphanSwept, Swept, TokensOf, Stored, Op
          <5>1. TokensOf({s}) \cap live' = TokensOf({s}) \cap live
            BY <4>1
          <5>2. s \in sessions => s \in sessions' \/ TokensOf({s}) \cap live' = {}
            BY <4>1, <4>2
          <5>3. QED
            BY <3>2, <4>1, <4>3, <5>1, <5>2, OrphanStays
      <3>3. QED
        BY <3>1, <3>2
    <2>4. QED
      BY <2>1, <2>2, <2>3
  <1>11. CASE LogoutAll(r)
    <2>1. SessionsStored' /\ GivenDone'
      BY <1>11 DEF LogoutAll, Presents, HandedOut
    <2>2. ASSUME NEW q \in Requests PROVE Ended(q)'
      BY <1>11 DEF LogoutAll, Presents, HandedOut
    <2>3. ASSUME NEW s \in Requests PROVE OrphanSwept(s)'
      <3>1. CASE s = r
        BY <1>11, <3>1 DEF LogoutAll
      <3>2. CASE s # r
        <4>1. /\ UNCHANGED <<call, listed, live, sessions>> /\ pc[r] = "idle"
              /\ \A q \in Requests \ {r} : pc'[q] = pc[q] /\ target'[q] = target[q]
          BY <1>11 DEF LogoutAll, Presents
        <4>2. pc[r] \notin Stored
          BY <4>1
        <4>3. QED
          <5> HIDE DEF Core, SessionInv, OrphanSwept, Swept, TokensOf, Stored, Op
          <5>1. QED
            BY <3>2, <4>1, <4>2, OrphanStays
      <3>3. QED
        BY <3>1, <3>2
    <2>4. QED
      BY <2>1, <2>2, <2>3
  <1>12. CASE LogoutAllList(r)
    BY <1>12 DEF LogoutAllList, SessionsOf
  <1>13. CASE LogoutAllToken(r)
    <2>1. pc[r] = "out_all" /\ UNCHANGED <<call, given, sessions, listed, target>>
      BY <1>13 DEF LogoutAllToken
    <2>2. \/ \E t \in todo[r] : /\ live' = live \ {t}
                              /\ todo' = [todo EXCEPT ![r] = todo[r] \ {t}]
                              /\ pc' = pc
          \/ todo[r] = {} /\ Goto(r, "out_rows") /\ UNCHANGED <<live, todo>>
      <3> HIDE DEF Core, SessionInv, Goto
      <3>1. QED
        BY <1>13, Zenon DEF LogoutAllToken
    <2>0. \A q \in Requests \ {r} : pc'[q] = pc[q]
      BY <2>2
    <2>3. SessionsStored' /\ GivenDone'
      <3>1. pc[r] \notin Stored
        BY <2>1
      <3>2. \A q \in Requests : pc[q] \in Stored => pc'[q] = pc[q]
        BY <2>0, <3>1
      <3>3. QED
        BY <2>1, <3>2
    <2>4. ASSUME NEW q \in Requests PROVE Ended(q)'
      <3>1. ASSUME NEW t, live' = live \ {t}, todo' = [todo EXCEPT ![r] = todo[r] \ {t}],
                   pc' = pc
            PROVE  Ended(q)'
        BY <2>1, <3>1
      <3>2. ASSUME todo[r] = {}, Goto(r, "out_rows"), UNCHANGED <<live, todo>>
            PROVE  Ended(q)'
        BY <2>1, <3>2
      <3>3. QED
        <4> HIDE DEF Ended, Core, SessionInv, Goto
        <4>1. QED
          BY <2>2, <3>1, <3>2
    <2>5. ASSUME NEW s \in Requests PROVE OrphanSwept(s)'
      <3>1. CASE s = r
        BY <2>1, <3>1
      <3>2. CASE s # r
        <4>1. live' \subseteq live /\ pc[r] \notin Stored
          BY <2>1, <2>2
        <4>2. TokensOf({s}) \cap live' \subseteq TokensOf({s}) \cap live
          BY <4>1
        <4>3. QED
          <5> HIDE DEF Core, SessionInv, OrphanSwept, Swept, TokensOf, Stored, Op
          <5>1. QED
            BY <2>0, <2>1, <3>2, <4>1, <4>2, OrphanStays
      <3>3. QED
        BY <3>1, <3>2
    <2>6. QED
      BY <2>3, <2>4, <2>5
  <1>14. CASE LogoutAllRows(r)
    <2>1. SessionsStored' /\ GivenDone'
      BY <1>14 DEF LogoutAllRows, SessionsOf
    <2>2. ASSUME NEW q \in Requests PROVE Ended(q)'
      BY <1>14 DEF LogoutAllRows, SessionsOf
    <2>3. ASSUME NEW s \in Requests PROVE OrphanSwept(s)'
      <3>1. CASE s = r
        BY <1>14, <3>1 DEF LogoutAllRows
      <3>2. CASE s # r
        <4>1. /\ UNCHANGED <<call, listed, live, target>> /\ pc[r] = "out_rows"
              /\ Op(r) = "logoutAll"
              /\ pc'[r] = "log" /\ \A q \in Requests \ {r} : pc'[q] = pc[q]
              /\ \A x \in sessions : x \in sessions' \/ target[x] = target[r]
          BY <1>14 DEF LogoutAllRows, SessionsOf
        <4>2. s \in listed[r] => TokensOf({s}) \cap live = {}
          <5>1. TokensOf(listed[r]) \cap live = {}
            BY <4>1
          <5>2. QED
            BY <5>1
        <4>3. s \in sessions /\ s \notin sessions' /\ s \notin listed[r] => Swept(s, r)'
          BY <4>1
        <4>4. pc[r] \notin Stored
          BY <4>1
        <4>5. QED
          <5> HIDE DEF Core, SessionInv, OrphanSwept, Swept, TokensOf, Stored, Op
          <5>1. TokensOf({s}) \cap live' = TokensOf({s}) \cap live
            BY <4>1
          <5>2. s \in sessions => \/ s \in sessions'
                                  \/ TokensOf({s}) \cap live' = {}
                                  \/ Swept(s, r)'
            BY <4>2, <4>3, <5>1
          <5>3. QED
            BY <3>2, <4>1, <4>4, <5>1, <5>2, OrphanStays
      <3>3. QED
        BY <3>1, <3>2
    <2>4. QED
      BY <2>1, <2>2, <2>3
  <1>15. QED
    BY <1>1, <1>2, <1>3, <1>4, <1>5, <1>6, <1>7, <1>8, <1>9, <1>10, <1>11, <1>12,
       <1>13, <1>14 DEF SessionStep

\* Time, failures and a cache that loses entries.
LEMMA OtherSessionInv ==
  ASSUME Core, SessionInv,
         (\E r \in Requests : OtpAges(r) \/ Fails(r)) \/ CacheLoses \/ UNCHANGED vars
  PROVE  SessionInv'
  <1> USE DEF Core, TypeOK, Goto, Op, SessionInv, SessionsStored, GivenDone, Endings,
              Ended, Orphans, OrphanSwept, Swept, Stored, Enders, Makers, Final,
              TokensOf, userVars, authVars, localVars
  <1>1. ASSUME NEW r \in Requests, OtpAges(r) PROVE SessionInv'
    BY <1>1 DEF OtpAges
  <1>2. ASSUME NEW r \in Requests, Fails(r) PROVE SessionInv'
    <2>1. pc[r] \notin Final /\ pc'[r] = "failed" /\ \A q \in Requests \ {r} : pc'[q] = pc[q]
      BY <1>2 DEF Fails
    <2>2. UNCHANGED <<call, target, given, live, sessions, listed, todo>>
      BY <1>2 DEF Fails
    <2>3. SessionsStored' /\ GivenDone'
      BY <2>1, <2>2
    <2>4. ASSUME NEW q \in Requests PROVE Ended(q)'
      BY <2>1, <2>2
    <2>5. ASSUME NEW s \in Requests PROVE OrphanSwept(s)'
      <3>1. ASSUME NEW l \in Requests, Swept(s, l) PROVE Swept(s, l)'
        BY <2>1, <2>2, <3>1
      <3>2. CASE s = r
        BY <2>1, <3>2
      <3>3. CASE s # r
        <4>1. OrphanSwept(s)
          OBVIOUS
        <4>2. /\ Op(s)' = Op(s) /\ pc'[s] = pc[s] /\ sessions' = sessions
              /\ TokensOf({s})' = TokensOf({s}) /\ live' = live
          BY <2>1, <2>2, <3>3
        <4>3. QED
          <5> HIDE DEF Core, SessionInv, Swept, TokensOf, Op
          <5>1. QED
            BY <3>1, <4>1, <4>2
      <3>4. QED
        BY <3>2, <3>3
    <2>6. QED
      BY <2>3, <2>4, <2>5
  <1>3. CASE CacheLoses
    <2>1. live' \subseteq live
      BY <1>3 DEF CacheLoses
    <2>2. UNCHANGED <<call, pc, target, given, sessions, listed, todo>>
      BY <1>3 DEF CacheLoses
    <2>3. QED
      BY <2>1, <2>2
  <1>4. CASE UNCHANGED vars
    BY <1>4 DEF vars
  <1>5. QED
    BY <1>1, <1>2, <1>3, <1>4

LEMMA StepSessions == Core /\ SessionInv /\ [Next]_vars => SessionInv'
  BY NoSessionInv, SessionStepInv, OtherSessionInv DEF Next

\* A token that a logout with both cookies, a logoutAll or a refresh has ended
\* is never valid again.
THEOREM EndedStaysEnded == Spec => []EndedTokensStayDead
  <1>1. Core /\ SessionInv => EndedTokensStayDead
    <2>1. SUFFICES ASSUME Core, SessionInv, NEW r \in Requests, pc[r] = "ok"
                   PROVE  /\ Op(r) = "logout" /\ given[r] # NONE =>
                               TokensOf({given[r]}) \cap live = {}
                          /\ Op(r) = "logoutAll" => TokensOf(listed[r]) \cap live = {}
                          /\ Op(r) = "refresh" => <<given[r], "refresh">> \notin live
      BY DEF EndedTokensStayDead
    <2>2. Ended(r)
      BY <2>1 DEF SessionInv, Endings
    <2>3. Op(r) = "logout" => TokensOf({given[r]}) \cap live = {}
      BY <2>1, <2>2 DEF Ended, TokensOf
    <2>4. Op(r) = "logoutAll" => TokensOf(listed[r]) \cap live = {}
      BY <2>1, <2>2 DEF Ended
    <2>5. Op(r) = "refresh" => <<given[r], "refresh">> \notin live
      BY <2>1, <2>2 DEF Ended
    <2>6. QED
      BY <2>3, <2>4, <2>5
  <1>2. QED
    BY <1>1, InitCore, StepCore, InitSessions, StepSessions, PTL DEF Spec

\* A working token without a session row was left over by a logoutAll that had
\* listed the sessions too early.
THEOREM OrphansAreExplained == Spec => []OrphanTokensExplained
  <1>1. Core /\ SessionInv => OrphanTokensExplained
    BY DEF Core, SessionInv, Orphans, OrphanSwept, Swept, Stored, Makers, HandedOut,
           OrphanTokensExplained
  <1>2. QED
    BY <1>1, InitCore, StepCore, InitSessions, StepSessions, PTL DEF Spec

----------------------------------------------------------------------------
(* Users: what removes a row, and what brings it back *)

Early(r) ==
  \/ Op(r) \in {"adminUpdate", "updateProfile"} /\ pc[r] \in {"idle", "admin_save", "rename"}
  \/ Op(r) = "verify" /\ pc[r] \in {"idle", "v_cache", "code", "mark", "insert", "activate"}

\* What a request has found and done is not undone by its next steps.
RowFrame(r) ==
  /\ call' = call
  /\ \A q \in Requests \ {r} : pc'[q] = pc[q] /\ target'[q] = target[q] /\ seen'[q] = seen[q]
  /\ target[r] # NONE \/ pc[r] = "ok" => target'[r] = target[r]
  /\ pc[r] = "ok" => pc'[r] = "ok"
  /\ Op(r) \in {"adminUpdate", "updateProfile", "verify"} /\ ~Early(r) =>
       /\ ~Early(r)'
       /\ seen'[r] = seen[r]

LEMMA UserRowFrame ==
  ASSUME Core, NEW r \in Requests, AccountStep(r)
  PROVE  RowFrame(r)
  <1> USE DEF Core, TypeOK, Places, Targets, InPlace, TargetKnown, Knowing, Goto,
              RowFrame, Early, UserLabels, Final, UserOps, AccountStep, Op
  <1>1. CASE FindUser(r)
    BY <1>1 DEF FindUser
  <1>2. CASE AdminSave(r) \/ Rename(r) \/ SaveProfile(r) \/ Reread(r)
    BY <1>2 DEF AdminSave, Rename, SaveProfile, Reread
  <1>3. CASE FindCredential(r)
    BY <1>3 DEF FindCredential
  <1>4. CASE SavePassword(r) \/ DeleteCredential(r) \/ DeleteProfile(r) \/ DeleteUser(r)
    BY <1>4 DEF SavePassword, DeleteCredential, DeleteProfile, DeleteUser
  <1>5. QED
    BY <1>1, <1>2, <1>3, <1>4 DEF UserStep

LEMMA OtpRowFrame ==
  ASSUME Core, NEW r \in Requests, OtpStep(r)
  PROVE  RowFrame(r)
  <1> USE DEF Core, TypeOK, Places, Targets, InPlace, TargetKnown, Goto,
              RowFrame, Early, Final, OtpOps, Op, localVars
  <1>1. CASE OtpFind(r) \/ OtpCancel(r) \/ OtpSave(r) \/ OtpMail(r) \/ Register(r)
    BY <1>1 DEF OtpFind, OtpCancel, OtpSave, OtpMail, Register
  <1>2. CASE RegCache(r) \/ LoginCredential(r) \/ ResendCache(r) \/ Cancel(r) \/ CancelReg(r)
    BY <1>2 DEF RegCache, LoginCredential, ResendCache, Cancel, CancelReg
  <1>3. CASE Login(r)
    BY <1>3 DEF Login, Found
  <1>4. CASE Resend(r)
    BY <1>4 DEF Resend, Found
  <1>5. QED
    BY <1>1, <1>2, <1>3, <1>4 DEF OtpStep

LEMMA VerifyRowFrame ==
  ASSUME Core, NEW r \in Requests, VerifyStep(r)
  PROVE  RowFrame(r)
  <1> USE DEF Core, TypeOK, Places, Targets, InPlace, TargetKnown, Knowing, Goto,
              RowFrame, Early, Final, Op, localVars
  <1>1. CASE Verify(r)
    BY <1>1 DEF Verify, Found
  <1>2. CASE VerifyCache(r) \/ VerifyCode(r) \/ VerifyMark(r)
    BY <1>2 DEF VerifyCache, VerifyCode, VerifyMark
  <1>3. CASE InsertUser(r)
    BY <1>3 DEF InsertUser
  <1>4. CASE InsertProfile(r) \/ InsertCredential(r) \/ VerifyDelReg(r) \/ Activate(r)
    BY <1>4 DEF InsertProfile, InsertCredential, VerifyDelReg, Activate
  <1>5. QED
    BY <1>1, <1>2, <1>3, <1>4 DEF VerifyStep

LEMMA SessionRowFrame ==
  ASSUME Core, NEW r \in Requests, SessionStep(r) \/ OtpAges(r) \/ Fails(r)
  PROVE  RowFrame(r) /\ UNCHANGED userVars
  <1> USE DEF Core, TypeOK, Places, Targets, InPlace, TargetKnown, Knowing, Goto,
              RowFrame, Early, Final, Op, localVars, userVars
  <1>1. CASE StoreAccess(r) \/ StoreRefresh(r) \/ InsertSession(r) \/ Log(r)
    BY <1>1 DEF StoreAccess, StoreRefresh, InsertSession, Log
  <1>2. CASE Refresh(r)
    BY <1>2 DEF Refresh, Presents
  <1>3. CASE RefreshUser(r) \/ RefreshDelete(r)
    BY <1>3 DEF RefreshUser, RefreshDelete
  <1>4. CASE Logout(r)
    BY <1>4 DEF Logout
  <1>5. CASE LogoutToken(r) \/ LogoutRow(r)
    BY <1>5 DEF LogoutToken, LogoutRow
  <1>6. CASE LogoutAll(r)
    BY <1>6 DEF LogoutAll, Presents
  <1>7. CASE LogoutAllList(r) \/ LogoutAllRows(r)
    BY <1>7 DEF LogoutAllList, LogoutAllRows
  <1>8. CASE LogoutAllToken(r)
    <2>1. /\ pc' = pc \/ Goto(r, "out_rows")
          /\ UNCHANGED <<call, target, seen, userVars>> /\ pc[r] = "out_all"
      BY <1>8 DEF LogoutAllToken
    <2>2. QED
      BY <2>1
  <1>9. CASE OtpAges(r) \/ Fails(r)
    BY <1>9 DEF OtpAges, Fails
  <1>10. QED
    BY <1>1, <1>2, <1>3, <1>4, <1>5, <1>6, <1>7, <1>8, <1>9 DEF SessionStep

RequestStep(r) ==
  \/ AccountStep(r) \/ OtpStep(r) \/ VerifyStep(r) \/ SessionStep(r)
  \/ OtpAges(r) \/ Fails(r)

LEMMA StepRowFrame ==
  ASSUME Core, NEW r \in Requests, RequestStep(r)
  PROVE  RowFrame(r)
  BY UserRowFrame, OtpRowFrame, VerifyRowFrame, SessionRowFrame DEF RequestStep

\* The code of a verification was sent to its own address.
CodeMatches(r) ==
  /\ Op(r) = "verify" /\ given[r] # NONE => given[r] \in Requests /\ Email(given[r]) = Email(r)
  /\ Op(r) = "account" => given[r] = NONE

\* A user that was inserted is there or has been deleted.
Gone(u) == \E d \in Requests : Op(d) = "deleteUser" /\ target[d] = u /\ pc[d] = "ok"
Present(u) == target[u] = u => Exists(u) \/ Gone(u)

\* Only a user who was pending is activated; only one who was there renamed.
WasPending(r) ==
  /\ pc[r] = "activate" => seen[r] = "PENDING"
  /\ pc[r] = "rename" => seen[r] # NONE

Overruled(a) ==
  \E s \in Saved(target[a]) \ {a} : Op(s) = "adminUpdate" \/ seen[s] # "BARRED"
Suspended(a) ==
  /\ Op(a) = "adminUpdate" /\ pc[a] \in {"reread", "ok"} /\ call[a].status = "BARRED"
  /\ Exists(target[a]) /\ status[target[a]] # "BARRED"
  => Overruled(a)

\* Someone has chosen a password for the user, or made a profile.
NewPassword(u) ==
  \/ Op(u) = "verify"
  \/ \E s \in Requests : Op(s) = "changePassword" /\ target[s] = u /\ pc[s] = "ok"
NewProfile(u) == Op(u) = "verify" \/ \E s \in Saved(u) : Op(s) = "updateProfile"

Deleted(d) ==
  Op(d) = "deleteUser" =>
    /\ pc[d] = "ok" => target[d] # NONE
    /\ pc[d] = "ok" /\ Exists(target[d]) => Saved(target[d]) # {}
    /\ pc[d] \in {"del_profile", "del_user", "ok"} /\ password[target[d]] # NONE
         => NewPassword(target[d])
    /\ pc[d] \in {"del_user", "ok"} /\ target[d] \in profiles => NewProfile(target[d])

RowInv ==
  /\ \A r \in Requests : CodeMatches(r) /\ Present(r) /\ WasPending(r)
  /\ \A r \in Requests : Suspended(r) /\ Deleted(r)
  /\ OneAccountPerCode

LEMMA InitRows == Init => RowInv
  <1> SUFFICES ASSUME Init PROVE RowInv
    OBVIOUS
  <1>1. ASSUME NEW r \in Requests
        PROVE  /\ given[r] = NONE
               /\ pc[r] = IF Op(r) = "account" THEN "ok" ELSE "idle"
               /\ target[r] = IF Op(r) = "account" THEN r ELSE NONE
               /\ status[r] = IF Op(r) = "account" THEN "ACTIVE" ELSE NONE
    BY DEF Init, UserInit, Accounts, Op
  <1>2. ASSUME NEW r \in Requests
        PROVE  CodeMatches(r) /\ Present(r) /\ WasPending(r) /\ Suspended(r) /\ Deleted(r)
    <2>1. CodeMatches(r) /\ WasPending(r) /\ Suspended(r) /\ Deleted(r)
      BY <1>1 DEF CodeMatches, WasPending, Suspended, Deleted
    <2>2. Present(r)
      <3>1. target[r] = r => status[r] = "ACTIVE"
        BY <1>1, UsersAssumption
      <3>2. "ACTIVE" # NONE
        BY UsersAssumption DEF Statuses
      <3>3. QED
        BY <3>1, <3>2 DEF Present, Exists
    <2>3. QED
      BY <2>1, <2>2
  <1>3. OneAccountPerCode
    BY <1>1 DEF OneAccountPerCode
  <1>4. QED
    BY <1>2, <1>3 DEF RowInv

\* A save that was done stays done.
LEMMA SavedStays ==
  ASSUME Core, Core', NEW r \in Requests, RowFrame(r), NEW u \in Requests, NEW s \in Saved(u)
  PROVE  s \in Saved(u)' /\ seen'[s] = seen[s] /\ Op(s)' = Op(s)
  <1>1. s \in Requests /\ target[s] = u /\ s # u /\ Op(s)' = Op(s)
    BY DEF Saved, RowFrame, Op
  <1>2. Op(s) \in {"adminUpdate", "updateProfile", "verify"} /\ ~Early(s)
    BY <1>1, UsersAssumption DEF Saved, Early, Core, Targets, TargetKnown
  <1>3. target'[s] = u
    BY <1>1, UsersAssumption DEF RowFrame
  <1>4. ~Early(s)' /\ seen'[s] = seen[s]
    <2>1. CASE s = r
      BY <1>2, <2>1 DEF RowFrame
    <2>2. CASE s # r
      BY <1>1, <1>2, <2>2 DEF RowFrame, Early, Op
    <2>3. QED
      BY <2>1, <2>2
  <1>5. QED
    BY <1>1, <1>2, <1>3, <1>4 DEF Saved, Early, Op

\* What changes the row of a user.
Resaves(r, u) ==
  /\ Early(r) /\ target[r] = u /\ r \in Saved(u)' /\ status'[u] # NONE
  /\ Op(r) = "adminUpdate" \/ (status'[u] # "BARRED" => seen'[r] # "BARRED")
Inserts(r, u) == r = u /\ target[r] = NONE
Removes(r, u) == status'[u] = NONE /\ Op(r) = "deleteUser" /\ pc'[r] = "ok" /\ target'[r] = u

LEMMA StatusCause ==
  ASSUME Core, Core', NEW r \in Requests, WasPending(r), RequestStep(r), RowFrame(r),
         NEW u \in Requests, status'[u] # status[u]
  PROVE  Resaves(r, u) \/ Inserts(r, u) \/ Removes(r, u)
  <1> USE DEF Core, TypeOK, Places, Targets, InPlace, TargetKnown, Knowing, Goto, Early,
              UserLabels, SaveUser, userVars, Saved, Op, WasPending,
              Resaves, Inserts, Removes
  <1>1. CASE AccountStep(r)
    <2>1. CASE AdminSave(r)
      BY <1>1, <2>1, CallTypes, UsersAssumption DEF AdminSave, AccountStep
    <2>2. CASE Rename(r)
      BY <1>1, <2>2 DEF Rename, AccountStep
    <2>3. CASE DeleteUser(r)
      BY <1>1, <2>3 DEF DeleteUser, AccountStep
    <2>4. CASE FindUser(r) \/ SaveProfile(r) \/ Reread(r) \/ FindCredential(r)
               \/ SavePassword(r) \/ DeleteCredential(r) \/ DeleteProfile(r)
      BY <2>4 DEF FindUser, SaveProfile, Reread, FindCredential, SavePassword,
                  DeleteCredential, DeleteProfile
    <2>5. QED
      BY <1>1, <2>1, <2>2, <2>3, <2>4 DEF AccountStep, UserStep
  <1>2. CASE OtpStep(r)
    BY <1>2 DEF OtpStep, OtpFind, OtpCancel, OtpSave, OtpMail, Register, RegCache, Login,
                LoginCredential, Resend, ResendCache, Cancel, CancelReg
  <1>3. CASE VerifyStep(r)
    <2>1. CASE InsertUser(r)
      BY <2>1 DEF InsertUser
    <2>2. CASE Activate(r)
      BY <2>2, UsersAssumption DEF Activate, localVars, Statuses
    <2>3. CASE Verify(r) \/ VerifyCache(r) \/ VerifyCode(r) \/ VerifyMark(r)
               \/ InsertProfile(r) \/ InsertCredential(r) \/ VerifyDelReg(r)
      BY <2>3 DEF Verify, VerifyCache, VerifyCode, VerifyMark, InsertProfile,
                  InsertCredential, VerifyDelReg
    <2>4. QED
      BY <1>3, <2>1, <2>2, <2>3 DEF VerifyStep
  <1>4. CASE SessionStep(r) \/ OtpAges(r) \/ Fails(r)
    BY <1>4, SessionRowFrame
  <1>5. QED
    BY <1>1, <1>2, <1>3, <1>4 DEF RequestStep

\* Who gives a user a password or a profile.
LEMMA CredentialCause ==
  ASSUME Core, Core', NEW r \in Requests, RequestStep(r), RowFrame(r), NEW u \in Requests
  PROVE  /\ password[u] = NONE /\ password'[u] # NONE => NewPassword(u)'
         /\ u \notin profiles /\ u \in profiles' => NewProfile(u)'
  <1> USE DEF Core, TypeOK, Places, Targets, InPlace, TargetKnown, Knowing, Goto,
              UserLabels, userVars, Saved, Op, NewPassword, NewProfile
  <1>1. CASE AccountStep(r)
    <2>1. CASE SavePassword(r)
      BY <1>1, <2>1 DEF SavePassword, AccountStep
    <2>2. CASE SaveProfile(r)
      BY <1>1, <2>2 DEF SaveProfile, AccountStep
    <2>3. CASE DeleteCredential(r) \/ DeleteProfile(r)
      BY <2>3 DEF DeleteCredential, DeleteProfile
    <2>4. CASE FindUser(r) \/ AdminSave(r) \/ Rename(r) \/ Reread(r) \/ FindCredential(r)
               \/ DeleteUser(r)
      BY <2>4 DEF FindUser, AdminSave, Rename, Reread, FindCredential, DeleteUser
    <2>5. QED
      BY <1>1, <2>1, <2>2, <2>3, <2>4 DEF AccountStep, UserStep
  <1>2. CASE OtpStep(r)
    BY <1>2 DEF OtpStep, OtpFind, OtpCancel, OtpSave, OtpMail, Register, RegCache, Login,
                LoginCredential, Resend, ResendCache, Cancel, CancelReg
  <1>3. CASE VerifyStep(r)
    <2>1. CASE InsertProfile(r) \/ InsertCredential(r)
      BY <2>1 DEF InsertProfile, InsertCredential
    <2>2. CASE Verify(r) \/ VerifyCache(r) \/ VerifyCode(r) \/ VerifyMark(r)
               \/ InsertUser(r) \/ VerifyDelReg(r) \/ Activate(r)
      BY <2>2 DEF Verify, VerifyCache, VerifyCode, VerifyMark, InsertUser,
                  VerifyDelReg, Activate
    <2>3. QED
      BY <1>3, <2>1, <2>2 DEF VerifyStep
  <1>4. CASE SessionStep(r) \/ OtpAges(r) \/ Fails(r)
    BY <1>4, SessionRowFrame
  <1>5. QED
    BY <1>1, <1>2, <1>3, <1>4 DEF RequestStep

\* What the steps of an administrator have done when they are over.
LEMMA AdminDone ==
  ASSUME Core, NEW r \in Requests, RequestStep(r)
  PROVE  /\ Op(r) = "adminUpdate" /\ pc[r] \notin {"reread", "ok"} /\ pc'[r] \in {"reread", "ok"}
              => status'[target'[r]] = call[r].status
         /\ Op(r) = "deleteUser" =>
              /\ pc[r] # "ok" /\ pc'[r] = "ok"
                   => target'[r] # NONE /\ status'[target'[r]] = NONE
              /\ pc[r] \notin {"del_profile", "del_user", "ok"}
                 /\ pc'[r] \in {"del_profile", "del_user", "ok"} => password'[target'[r]] = NONE
              /\ pc[r] \notin {"del_user", "ok"} /\ pc'[r] \in {"del_user", "ok"}
                   => target'[r] \notin profiles'
  <1> USE DEF Core, TypeOK, Places, Targets, InPlace, TargetKnown, Knowing, Goto,
              UserLabels, userVars, Op, OtpOps
  <1>1. CASE AccountStep(r)
    <2>1. CASE FindUser(r)
      BY <2>1 DEF FindUser, FirstStep
    <2>2. CASE AdminSave(r)
      BY <2>2 DEF AdminSave, SaveUser
    <2>3. CASE DeleteCredential(r) \/ DeleteProfile(r) \/ DeleteUser(r)
      BY <2>3 DEF DeleteCredential, DeleteProfile, DeleteUser
    <2>4. CASE Rename(r) \/ SaveProfile(r) \/ Reread(r) \/ FindCredential(r) \/ SavePassword(r)
      BY <2>4 DEF Rename, SaveProfile, Reread, FindCredential, SavePassword
    <2>5. QED
      BY <1>1, <2>1, <2>2, <2>3, <2>4 DEF AccountStep, UserStep
  <1>2. CASE OtpStep(r)
    BY <1>2 DEF OtpStep, OtpFind, OtpCancel, OtpSave, OtpMail, Register, RegCache, Login,
                LoginCredential, Resend, ResendCache, Cancel, CancelReg
  <1>3. CASE VerifyStep(r)
    BY <1>3 DEF VerifyStep, Verify, VerifyCache, VerifyCode, VerifyMark, InsertUser,
                InsertProfile, InsertCredential, VerifyDelReg, Activate
  <1>4. CASE SessionStep(r)
    BY <1>4 DEF SessionStep, StoreAccess, StoreRefresh, InsertSession, Log, Refresh,
                RefreshUser, RefreshDelete, Logout, LogoutToken, LogoutRow, LogoutAll,
                LogoutAllList, LogoutAllToken, LogoutAllRows
  <1>5. CASE OtpAges(r) \/ Fails(r)
    BY <1>5 DEF OtpAges, Fails
  <1>6. QED
    BY <1>1, <1>2, <1>3, <1>4, <1>5 DEF RequestStep

\* A user is new only as its own insertion, by a verification whose code is
\* known, and at an address nobody has.
LEMMA NewTarget ==
  ASSUME Core, Core', NEW r \in Requests, RequestStep(r), RowFrame(r), WasPending(r)
  PROVE  /\ target[r] # r /\ target'[r] = r =>
              Exists(r)' /\ EmailFree(r) /\ given'[r] = given[r] /\ Op(r) = "verify"
         /\ target[r] = r => given'[r] = given[r]
         /\ CodeMatches(r) => CodeMatches(r)'
         /\ WasPending(r)'
         /\ \A q \in Requests \ {r} : given'[q] = given[q]
  <1> USE UsersAssumption
      DEF Core, TypeOK, Places, Targets, InPlace, TargetKnown, Knowing, Goto,
          UserLabels, userVars, localVars, Op, OtpOps, UserOps, CodeMatches, WasPending, Final
  <1>1. CASE AccountStep(r)
    <2>1. CASE FindUser(r) \/ FindCredential(r)
      BY <1>1, <2>1 DEF FindUser, FirstStep, FindCredential, AccountStep, Email, Exists
    <2>2. CASE AdminSave(r) \/ Rename(r) \/ SaveProfile(r) \/ Reread(r) \/ SavePassword(r)
               \/ DeleteCredential(r) \/ DeleteProfile(r) \/ DeleteUser(r)
      BY <1>1, <2>2 DEF AdminSave, Rename, SaveProfile, Reread, SavePassword, AccountStep,
                        DeleteCredential, DeleteProfile, DeleteUser, Email
    <2>3. QED
      BY <1>1, <2>1, <2>2 DEF AccountStep, UserStep
  <1>2. CASE OtpStep(r)
    BY <1>2 DEF OtpStep, OtpFind, OtpCancel, OtpSave, OtpMail, Register, RegCache, Login,
                LoginCredential, Resend, ResendCache, Cancel, CancelReg, Email
  <1>3. CASE VerifyStep(r)
    <2>1. CASE InsertUser(r)
      BY <2>1 DEF InsertUser, SaveUser, Exists, Email, Statuses
    <2>2. CASE VerifyCode(r)
      BY <2>2 DEF VerifyCode, ActiveCodes, CodesFor, Email
    <2>3. CASE VerifyMark(r)
      BY <2>3 DEF VerifyMark, Verified, Email
    <2>4. CASE Verify(r) \/ VerifyCache(r) \/ InsertProfile(r) \/ InsertCredential(r)
               \/ VerifyDelReg(r) \/ Activate(r)
      BY <2>4 DEF Verify, VerifyCache, InsertProfile, InsertCredential, VerifyDelReg,
                  Activate, Email
    <2>5. QED
      BY <1>3, <2>1, <2>2, <2>3, <2>4 DEF VerifyStep
  <1>4. CASE SessionStep(r)
    <2>1. CASE Refresh(r) \/ Logout(r) \/ LogoutAll(r)
      <3> HIDE DEF Core, TypeOK, Places, Targets, TargetKnown
      <3>0. UNCHANGED <<given, target>>
            \/ \E s \in Requests :
                 given' = [given EXCEPT ![r] = s] /\ target' = [target EXCEPT ![r] = target[s]]
        BY <2>1 DEF Refresh, Logout, LogoutAll, Presents, HandedOut
      <3>2. Op(r) \in {"refresh", "logout", "logoutAll"} /\ call' = call
        BY <2>1 DEF Refresh, Logout, LogoutAll
      <3>3. given \in [Requests -> Requests \cup {NONE}]
        BY DEF Core, TypeOK
      <3>4. target[r] # r /\ target'[r] # r
        BY <3>2 DEF Core, Targets, TargetKnown
      <3>5. pc'[r] # "activate"
        BY <3>2 DEF Core, Places, InPlace
      <3>6. pc'[r] # "rename"
        BY <3>2 DEF Core, Places, InPlace
      <3>7. QED
        BY <3>0, <3>2, <3>3, <3>4, <3>5, <3>6 DEF Email
    <2>2. CASE ~(Refresh(r) \/ Logout(r) \/ LogoutAll(r))
      BY <1>4, <2>2 DEF SessionStep, StoreAccess, StoreRefresh, InsertSession, Log,
              RefreshUser, RefreshDelete, LogoutToken, LogoutRow,
              LogoutAllList, LogoutAllToken, LogoutAllRows, Email
    <2>3. QED
      BY <2>1, <2>2
  <1>5. CASE OtpAges(r) \/ Fails(r)
    BY <1>5 DEF OtpAges, Fails, Email
  <1>6. QED
    BY <1>1, <1>2, <1>3, <1>4, <1>5 DEF RequestStep

LEMMA GoneStays ==
  ASSUME Core, NEW r \in Requests, RowFrame(r), NEW u \in Requests, Gone(u)
  PROVE  Gone(u)'
  <1>1. PICK d \in Requests : Op(d) = "deleteUser" /\ target[d] = u /\ pc[d] = "ok"
    BY DEF Gone
  <1>2. Op(d)' = "deleteUser" /\ target'[d] = u /\ pc'[d] = "ok"
    BY <1>1 DEF RowFrame, Op
  <1>3. QED
    BY <1>2 DEF Gone

LEMMA PresentStep ==
  ASSUME Core, Core', NEW r \in Requests, RequestStep(r), RowFrame(r), WasPending(r),
         NEW u \in Requests, Present(u)
  PROVE  Present(u)'
  <1> SUFFICES ASSUME target'[u] = u, ~Exists(u)' PROVE Gone(u)'
    BY DEF Present
  <1>1. status'[u] = NONE
    BY DEF Exists
  <1>2. target[u] = u
    BY NewTarget DEF RowFrame
  <1>3. CASE Gone(u)
    BY <1>3, GoneStays
  <1>4. CASE Exists(u)
    <2>1. status'[u] # status[u]
      BY <1>1, <1>4 DEF Exists
    <2>2. Removes(r, u)
      BY <1>1, <1>2, <2>1, StatusCause, UsersAssumption DEF Resaves, Inserts
    <2>3. QED
      BY <2>2 DEF Removes, Gone, RowFrame, Op
  <1>5. QED
    BY <1>2, <1>3, <1>4 DEF Present

LEMMA SuspendedStep ==
  ASSUME Core, Core', NEW r \in Requests, RequestStep(r), RowFrame(r), WasPending(r),
         NEW a \in Requests, Suspended(a)
  PROVE  Suspended(a)'
  <1> SUFFICES ASSUME Op(a) = "adminUpdate", pc'[a] \in {"reread", "ok"},
                      call[a].status = "BARRED", Exists(target[a])',
                      status'[target'[a]] # "BARRED"
               PROVE  Overruled(a)'
    BY DEF Suspended, RowFrame, Op
  <1>1. PICK t \in Requests : t = target'[a] /\ status'[t] # NONE
    BY DEF Exists
  <1>2. pc[a] \in {"reread", "ok"}
    BY AdminDone DEF RowFrame
  <1>3. target[a] = t
    BY <1>1, <1>2, UsersAssumption DEF RowFrame, Core, Targets, TargetKnown, Knowing, UserLabels
  <1>4. status'[t] # NONE /\ status'[t] # "BARRED" /\ target'[a] = t
    BY <1>1
  <1>5. target[t] = t
    BY <1>3, <1>4, UsersAssumption DEF Core, Targets, TargetKnown
  <1>6. CASE status'[t] = status[t]
    <2>1. Overruled(a)
      BY <1>2, <1>3, <1>4, <1>6 DEF Suspended, Exists
    <2>2. PICK s \in Saved(t) \ {a} : Op(s) = "adminUpdate" \/ seen[s] # "BARRED"
      BY <1>3, <2>1 DEF Overruled
    <2>3. s \in Saved(t)' /\ seen'[s] = seen[s] /\ Op(s)' = Op(s)
      BY <1>4, <2>2, SavedStays
    <2>4. QED
      BY <1>4, <2>2, <2>3 DEF Overruled
  <1>7. CASE status'[t] # status[t]
    <2>1. Resaves(r, t)
      BY <1>4, <1>5, <1>7, StatusCause, UsersAssumption DEF Inserts, Removes
    <2>2. r # a
      BY <1>2, <2>1 DEF Resaves, Early
    <2>3. r \in Saved(t)' /\ (Op(r) = "adminUpdate" \/ seen'[r] # "BARRED")
      BY <1>4, <2>1 DEF Resaves
    <2>4. QED
      BY <1>4, <2>2, <2>3 DEF Overruled, RowFrame, Op
  <1>8. QED
    BY <1>6, <1>7

LEMMA DeletedStep ==
  ASSUME Core, Core', NEW r \in Requests, RequestStep(r), RowFrame(r), WasPending(r),
         NEW d \in Requests, Deleted(d)
  PROVE  Deleted(d)'
  <1> SUFFICES ASSUME Op(d) = "deleteUser", pc'[d] \in {"del_profile", "del_user", "ok"}
               PROVE  Deleted(d)'
    BY DEF Deleted, RowFrame, Op
  <1>1. PICK t \in Requests : target'[d] = t
    <2>1. target'[d] \in Requests \cup {NONE}
      BY DEF Core, TypeOK
    <2>2. target'[d] # NONE
      BY AdminDone DEF RowFrame, Deleted, Core, Targets, TargetKnown, Knowing, UserLabels
    <2>3. QED
      BY <2>1, <2>2
  <1>2. pc[d] \in {"del_profile", "del_user", "ok"} => target[d] = t
    BY <1>1 DEF RowFrame, Core, Targets, TargetKnown, Knowing, UserLabels
  <1>3. d # r => pc[d] = pc'[d]
    BY DEF RowFrame
  <1>4. ASSUME pc'[d] = "ok", Exists(t)'  PROVE Saved(t)' # {}
    <2>1. pc[d] = "ok" /\ target[d] = t
      BY <1>1, <1>2, <1>3, <1>4, AdminDone DEF Exists
    <2>2. CASE Exists(t)
      <3>1. PICK s \in Saved(t) : TRUE
        BY <2>1, <2>2 DEF Deleted
      <3>2. QED
        BY <1>1, <3>1, SavedStays
    <2>3. CASE ~Exists(t)
      <3>1. status'[t] # status[t] /\ status'[t] # NONE
        BY <1>1, <1>4, <2>3 DEF Exists
      <3>2. target[t] = t
        BY <1>1, <2>1, UsersAssumption DEF Core, Targets, TargetKnown
      <3>3. Resaves(r, t)
        BY <1>1, <3>1, <3>2, StatusCause, UsersAssumption DEF Inserts, Removes
      <3>4. QED
        BY <3>3 DEF Resaves
    <2>4. QED
      BY <2>2, <2>3
  <1>5. ASSUME password'[t] # NONE  PROVE NewPassword(t)'
    <2>1. pc[d] \in {"del_profile", "del_user", "ok"} /\ target[d] = t
      BY <1>1, <1>2, <1>3, <1>5, AdminDone
    <2>2. CASE password[t] # NONE
      <3>1. CASE Op(t) = "verify"
        BY <3>1 DEF NewPassword, RowFrame, Op
      <3>2. CASE \E s \in Requests : Op(s) = "changePassword" /\ target[s] = t /\ pc[s] = "ok"
        BY <3>2 DEF NewPassword, RowFrame, Op
      <3>3. QED
        BY <2>1, <2>2, <3>1, <3>2 DEF Deleted, NewPassword
    <2>3. QED
      BY <1>1, <1>5, <2>2, CredentialCause
  <1>6. ASSUME pc'[d] \in {"del_user", "ok"}, t \in profiles'  PROVE NewProfile(t)'
    <2>1. pc[d] \in {"del_user", "ok"} /\ target[d] = t
      BY <1>1, <1>2, <1>3, <1>6, AdminDone
    <2>2. CASE t \in profiles
      <3>1. CASE Op(t) = "verify"
        BY <3>1 DEF NewProfile, RowFrame, Op
      <3>2. CASE \E s \in Saved(t) : Op(s) = "updateProfile"
        BY <1>1, <3>2, SavedStays DEF NewProfile
      <3>3. QED
        BY <2>1, <2>2, <3>1, <3>2 DEF Deleted, NewProfile
    <2>3. QED
      BY <1>1, <1>6, <2>2, CredentialCause
  <1>7. QED
    BY <1>1, <1>4, <1>5, <1>6, UsersAssumption DEF Deleted

LEMMA OneAccountStep ==
  ASSUME Core, Core', NEW r \in Requests, RequestStep(r), RowFrame(r), RowInv
  PROVE  OneAccountPerCode'
  <1> SUFFICES ASSUME NEW u \in Requests, NEW v \in Requests,
                      target'[u] = u, target'[v] = v, u # v,
                      given'[u] = given'[v], given'[u] # NONE
               PROVE  Gone(u)' \/ Gone(v)'
    BY DEF OneAccountPerCode, Gone
  <1>1. WasPending(r)
    BY DEF RowInv
  <1>2. given'[u] = given[u] /\ given'[v] = given[v]
    BY <1>1, NewTarget
  <1>3. ASSUME NEW x \in Requests, NEW y \in Requests, target[x] # x, target'[x] = x,
               target'[y] = y, x # y, given[x] = given[y], given[x] # NONE
        PROVE  Gone(y)'
    <2>1. x = r /\ target[y] = y
      BY <1>3 DEF RowFrame
    <2>2. EmailFree(x) /\ Op(x) = "verify"
      BY <1>1, <1>3, <2>1, NewTarget
    <2>3. Op(y) = "verify"
      BY <1>3, <2>1 DEF RowInv, CodeMatches, Core, Targets, TargetKnown
    <2>4. Email(y) = Email(x)
      BY <1>3, <2>2, <2>3 DEF RowInv, CodeMatches
    <2>5. ~Exists(y)
      BY <1>3, <2>2, <2>4 DEF EmailFree, UserWith
    <2>6. Gone(y)
      BY <2>1, <2>5 DEF RowInv, Present
    <2>7. QED
      BY <2>6, GoneStays
  <1>4. CASE target[u] = u /\ target[v] = v
    <2>1. Gone(u) \/ Gone(v)
      <3>1. OneAccountPerCode
        BY DEF RowInv
      <3>2. given[u] = given[v] /\ given[u] # NONE
        BY <1>2
      <3>3. QED
        BY <1>4, <3>1, <3>2 DEF OneAccountPerCode, Gone
    <2>2. QED
      BY <2>1, GoneStays
  <1>5. QED
    BY <1>2, <1>3, <1>4

LEMMA RowStepInv ==
  ASSUME Core, Core', RowInv, NEW r \in Requests, RequestStep(r)
  PROVE  RowInv'
  <1>1. RowFrame(r)
    BY StepRowFrame
  <1>2. WasPending(r)
    BY DEF RowInv
  <1>3. ASSUME NEW q \in Requests
        PROVE  CodeMatches(q)' /\ WasPending(q)'
    <2>1. CASE q = r
      BY <1>1, <1>2, <2>1, NewTarget DEF RowInv
    <2>2. CASE q # r
      <3>1. given'[q] = given[q]
        BY <1>1, <1>2, <2>2, NewTarget
      <3>2. call' = call /\ pc'[q] = pc[q] /\ seen'[q] = seen[q]
        BY <1>1, <2>2 DEF RowFrame
      <3>3. CodeMatches(q) /\ WasPending(q)
        BY DEF RowInv
      <3>4. QED
        BY <3>1, <3>2, <3>3 DEF CodeMatches, WasPending, Op, Email
    <2>3. QED
      BY <2>1, <2>2
  <1>4. ASSUME NEW q \in Requests
        PROVE  Present(q)' /\ Suspended(q)' /\ Deleted(q)'
    BY <1>1, <1>2, PresentStep, SuspendedStep, DeletedStep DEF RowInv
  <1>5. OneAccountPerCode'
    BY <1>1, OneAccountStep
  <1>6. QED
    BY <1>3, <1>4, <1>5 DEF RowInv

LEMMA StepRows == Core /\ Core' /\ RowInv /\ [Next]_vars => RowInv'
  <1> SUFFICES ASSUME Core, Core', RowInv, [Next]_vars
               PROVE  RowInv'
    OBVIOUS
  <1>1. ASSUME NEW r \in Requests, RequestStep(r)
        PROVE  RowInv'
    BY <1>1, RowStepInv
  <1>2. CASE CacheLoses \/ UNCHANGED vars
    <2>1. UNCHANGED <<call, pc, userVars, localVars>>
      BY <1>2 DEF CacheLoses, vars
    <2>2. QED
      BY <2>1 DEF RowInv, CodeMatches, Present, WasPending, Suspended, Deleted, Overruled,
                  OneAccountPerCode, Gone, Exists, Saved, NewPassword, NewProfile, Op, Email,
                  userVars, localVars
  <1>3. QED
    BY <1>1, <1>2 DEF Next, RequestStep

\* An acknowledged suspension stays in the user's row (adminUpdate), unless a
\* request that had read the row before saves it, or another administrator's.
THEOREM SuspensionsStay == Spec => []SuspensionsKept
  <1>1. RowInv => SuspensionsKept
    BY DEF RowInv, Suspended, Overruled, SuspensionsKept
  <1>2. QED
    BY <1>1, InitCore, StepCore, InitRows, StepRows, PTL DEF Spec

\* After an acknowledged deleteUser, what is found of the user again was saved
\* by a request that had read it before.
THEOREM DeletionsStay == Spec => []DeletionsAreFinal
  <1>1. RowInv => DeletionsAreFinal
    BY DEF RowInv, Deleted, NewPassword, NewProfile, DeletionsAreFinal
  <1>2. QED
    BY <1>1, InitCore, StepCore, InitRows, StepRows, PTL DEF Spec

\* verifyOtp: one code makes one account, unless an administrator deletes it.
THEOREM CodesMakeOneAccount == Spec => []OneAccountPerCode
  <1>1. RowInv => OneAccountPerCode
    BY DEF RowInv
  <1>2. QED
    BY <1>1, InitCore, StepCore, InitRows, StepRows, PTL DEF Spec
=============================================================================
