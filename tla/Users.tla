-------------------------------- MODULE Users --------------------------------
(***************************************************************************)
(* UserService: the rows of a user (User and UserCredential in PostgreSQL, *)
(* UserProfile in MongoDB), each read, changed and saved whole, without a  *)
(* transaction or a lock.                                                  *)
(*                                                                         *)
(* A user is named after the request that inserted the row, a password     *)
(* after the request that chose it.  A status stands for the columns       *)
(* status and is_locked: BARRED is SUSPENDED, DELETED or is_locked, which  *)
(* login refuses, INACTIVE is INACTIVE or LOCKED, which it does not.       *)
(***************************************************************************)
EXTENDS FiniteSets

CONSTANTS
  Requests,
  Emails,
  Plans,  \* the calls the requests may make
  NONE

Statuses == {"ACTIVE", "INACTIVE", "PENDING", "BARRED"}
Types == {"REGISTER", "LOGIN"}
UserOps == {"adminUpdate", "updateProfile", "changePassword", "deleteUser"}
AuthOps == {"register", "verify", "login", "resend", "cancel",
            "refresh", "logout", "logoutAll"}
\* "account" is a user who has registered and logged in before; "none" is no
\* call either.
Calls == [op : UserOps \cup AuthOps \cup {"account", "none"},
          email : Emails, type : Types, status : Statuses]

ASSUME UsersAssumption ==
  /\ Plans \subseteq [Requests -> Calls]
  /\ NONE \notin Requests \cup Statuses

VARIABLES
  call,     \* what each request calls
  pc,       \* where it is
  status,   \* the User rows: status of each user, NONE when there is no row
  password, \* the active local UserCredential of each user
  profiles, \* the users with a UserProfile document
  target,   \* the user a request is about
  seen      \* the status in the row it has read

userVars == <<status, password, profiles>>

----------------------------------------------------------------------------
Op(r) == call[r].op
Email(r) == call[r].email
Accounts == {r \in Requests : Op(r) = "account"}

UserLabels == {"admin_save", "rename", "profile", "reread", "password",
               "del_credential", "del_profile", "del_user"}

UserInit ==
  /\ call \in Plans
  /\ pc = [r \in Requests |-> IF r \in Accounts THEN "ok" ELSE "idle"]
  /\ status = [r \in Requests |-> IF r \in Accounts THEN "ACTIVE" ELSE NONE]
  /\ password = [r \in Requests |-> IF r \in Accounts THEN r ELSE NONE]
  /\ profiles = Accounts
  /\ target = [r \in Requests |-> IF r \in Accounts THEN r ELSE NONE]
  /\ seen = [r \in Requests |-> NONE]

Goto(r, label) == pc' = [pc EXCEPT ![r] = label]
Exists(u) == u \in Requests /\ status[u] # NONE

\* The row of a user whose e-mail address is this one.
UserWith(e) == {u \in Requests : Exists(u) /\ Email(u) = e}

\* Mutation: no unique index on email.
NoIndex(u) == TRUE

\* The unique index on email.
EmailFree(u) == UserWith(Email(u)) \subseteq {u}

\* save(user) writes the columns of the entity in memory: it changes the row,
\* or inserts it again when it has been removed since it was read.
SaveUser(u, s) ==
  /\ EmailFree(u)
  /\ status' = [status EXCEPT ![u] = s]

----------------------------------------------------------------------------
FirstStep(r) ==
  CASE Op(r) = "adminUpdate" -> "admin_save"
    [] Op(r) = "updateProfile" -> "rename"
    [] OTHER -> "del_credential"

\* A request that is refused ('User not found') does not begin.
FindUser(r) ==
  /\ pc[r] = "idle"
  /\ Op(r) \in UserOps \ {"changePassword"}
  /\ \E u \in Requests :
       /\ Exists(u)
       /\ target' = [target EXCEPT ![r] = u]
       /\ seen' = [seen EXCEPT ![r] = status[u]]
  /\ Goto(r, FirstStep(r))
  /\ UNCHANGED userVars

AdminSave(r) ==
  /\ pc[r] = "admin_save"
  /\ SaveUser(target[r], call[r].status)
  /\ Goto(r, "reread")
  /\ UNCHANGED <<password, profiles, target, seen>>

\* With a display_name the user is saved with the status that was read.
Rename(r) ==
  /\ pc[r] = "rename"
  /\ SaveUser(target[r], seen[r]) \/ UNCHANGED status
  /\ Goto(r, "profile")
  /\ UNCHANGED <<password, profiles, target, seen>>

\* With other fields the profile is found or created, and saved.
SaveProfile(r) ==
  /\ pc[r] = "profile"
  /\ profiles' = profiles \cup {target[r]} \/ UNCHANGED profiles
  /\ Goto(r, "reread")
  /\ UNCHANGED <<status, password, target, seen>>

\* getProfile, for the answer
Reread(r) ==
  /\ pc[r] = "reread"
  /\ Goto(r, IF Exists(target[r]) THEN "ok" ELSE "failed")
  /\ UNCHANGED <<userVars, target, seen>>

FindCredential(r) ==
  /\ pc[r] = "idle" /\ Op(r) = "changePassword"
  /\ \E u \in Requests :
       /\ password[u] # NONE
       /\ target' = [target EXCEPT ![r] = u]
  /\ Goto(r, "password")
  /\ UNCHANGED <<userVars, seen>>

SavePassword(r) ==
  /\ pc[r] = "password"
  /\ password' = [password EXCEPT ![target[r]] = r]
  /\ Goto(r, "ok")
  /\ UNCHANGED <<status, profiles, target, seen>>

DeleteCredential(r) ==
  /\ pc[r] = "del_credential"
  /\ password' = [password EXCEPT ![target[r]] = NONE]
  /\ Goto(r, "del_profile")
  /\ UNCHANGED <<status, profiles, target, seen>>

DeleteProfile(r) ==
  /\ pc[r] = "del_profile"
  /\ profiles' = profiles \ {target[r]}
  /\ Goto(r, "del_user")
  /\ UNCHANGED <<status, password, target, seen>>

\* Mutation: the row is barred and stays.
BarInstead(r) ==
  /\ pc[r] = "del_user"
  /\ status' = [status EXCEPT ![target[r]] = "BARRED"]
  /\ Goto(r, "ok")
  /\ UNCHANGED <<password, profiles, target, seen>>

DeleteUser(r) ==
  /\ pc[r] = "del_user"
  /\ status' = [status EXCEPT ![target[r]] = NONE]
  /\ Goto(r, "ok")
  /\ UNCHANGED <<password, profiles, target, seen>>

UserStep(r) ==
  \/ FindUser(r) \/ AdminSave(r) \/ Rename(r) \/ SaveProfile(r) \/ Reread(r)
  \/ FindCredential(r) \/ SavePassword(r)
  \/ DeleteCredential(r) \/ DeleteProfile(r) \/ DeleteUser(r)
=============================================================================
