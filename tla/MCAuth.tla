------------------------------- MODULE MCAuth --------------------------------
(***************************************************************************)
(* One e-mail address.  Each plan brings up to four calls together; where  *)
(* acct is an account, its user is registered and has one session.         *)
(***************************************************************************)
EXTENDS Auth, TLC

CONSTANTS acct, r1, r2, r3, r4, mail

MCRequests == {acct, r1, r2, r3, r4}
MCEmails == {mail}

Make(op, type, st) == [op |-> op, email |-> mail, type |-> type, status |-> st]
Do(op) == Make(op, "LOGIN", "ACTIVE")
Enter(op) == Make(op, "REGISTER", "ACTIVE")
Set(st) == Make("adminUpdate", "LOGIN", st)
Plan(a, b, c, d, e) == acct :> a @@ r1 :> b @@ r2 :> c @@ r3 :> d @@ r4 :> e

None == Do("none")

MCPlans == {
  \* registrations of one address
  Plan(None, Enter("register"), Enter("register"), Enter("verify"), None),
  Plan(None, Enter("register"), Enter("verify"), Enter("verify"), Do("deleteUser")),
  Plan(None, Enter("register"), Enter("resend"), Enter("cancel"), Enter("verify")),
  \* the ends of sessions
  Plan(Do("account"), Do("refresh"), Do("logoutAll"), Do("logoutAll"), None),
  Plan(Do("account"), Do("refresh"), Do("refresh"), Do("logout"), None),
  Plan(Do("account"), Do("login"), Do("verify"), Do("logoutAll"), Do("logout")),
  \* administration
  Plan(Do("account"), Set("PENDING"), Enter("resend"), Enter("verify"), Set("BARRED")),
  Plan(Do("account"), Set("BARRED"), Do("updateProfile"), Do("refresh"), Set("INACTIVE")),
  Plan(Do("account"), Do("changePassword"), Do("updateProfile"), Do("deleteUser"), Do("login"))}
=============================================================================
