------------------------------ MODULE Accounts ------------------------------
(***************************************************************************)
(* Users, their passwords and their refresh tokens.  A request of the      *)
(* accounts services runs in autocommit: it reads the row of a user or of  *)
(* a token without a lock, decides, and writes one column later.           *)
(***************************************************************************)
EXTENDS Nullable

CONSTANTS
  Visitor,   \* threads that serve requests about accounts
  Email,
  Password,
  Token      \* refresh tokens; a bound of the model

ASSUME AccountsAssumption ==
  /\ None \notin Password
  /\ None \notin [email : Email, blacklisted : BOOLEAN]

VARIABLES
  user,      \* the password of a user, None if the address is not registered
  token,     \* per refresh token: its user and whether it is blacklisted
  visit,     \* per visitor: the request it serves
  chosen     \* history: the password that the user has set last

accountVars == <<user, token, visit, chosen>>

\* copy is the password that the visitor has read, or gives.
Visit ==
  [step : {"insert", "save_login", "save_password"}, email : Email,
   copy : Password, given : Password]
  \cup [step : {"issue"}, email : Email]
  \cup [step : {"blacklist"}, token : Token]

AccInit ==
  /\ user = [e \in Email |-> None]
  /\ token = [k \in Token |-> None]
  /\ visit = [v \in Visitor |-> None]
  /\ chosen = [e \in Email |-> None]

-----------------------------------------------------------------------------
Registered(e) == user[e] # None

Asks(v, request) ==
  /\ visit[v] = None
  /\ visit' = [visit EXCEPT ![v] = request]

InStep(v, step) == visit[v] # None /\ visit[v].step = step

Leaves(v) == visit' = [visit EXCEPT ![v] = None]

\* A slip of AfterLogin, for a mutant: save() without update_fields.
WholeRow(request) == request.copy

\* save(update_fields=['last_login_at']) leaves the password column alone.
AfterLogin(request) == user[request.email]

\* RefreshToken(...) looks for the token in the blacklist.
Usable(k) == token[k] # None /\ ~token[k].blacklisted

-----------------------------------------------------------------------------
StartRegister(v, e, p) ==
  /\ ~Registered(e)
  /\ Asks(v, [step |-> "insert", email |-> e, copy |-> p, given |-> p])
  /\ UNCHANGED <<user, token, chosen>>

\* create_user; the address is unique.
InsertUser(v) ==
  LET e == visit[v].email IN
  /\ InStep(v, "insert")
  /\ ~Registered(e)
  /\ user' = [user EXCEPT ![e] = visit[v].given]
  /\ chosen' = [chosen EXCEPT ![e] = visit[v].given]
  /\ visit' = [visit EXCEPT ![v] = [step |-> "issue", email |-> e]]
  /\ UNCHANGED token

\* authenticate() reads the row and checks the password.
StartLogin(v, e, p) ==
  /\ Registered(e) /\ user[e] = p
  /\ Asks(v, [step |-> "save_login", email |-> e, copy |-> p, given |-> p])
  /\ UNCHANGED <<user, token, chosen>>

SaveLogin(v) ==
  /\ InStep(v, "save_login")
  /\ user' = [user EXCEPT ![visit[v].email] = AfterLogin(visit[v])]
  /\ visit' = [visit EXCEPT ![v] =
                 [step |-> "issue", email |-> visit[v].email]]
  /\ UNCHANGED <<token, chosen>>

\* RefreshToken.for_user records a token that is not blacklisted.
IssueToken(v, k) ==
  /\ InStep(v, "issue")
  /\ token[k] = None
  /\ token' = [token EXCEPT ![k] =
                 [email |-> visit[v].email, blacklisted |-> FALSE]]
  /\ Leaves(v)
  /\ UNCHANGED <<user, chosen>>

\* The user of the request was read before, with the password as it was.
StartChange(v, e, old, new) ==
  /\ Registered(e) /\ user[e] = old
  /\ Asks(v, [step |-> "save_password", email |-> e, copy |-> old,
              given |-> new])
  /\ UNCHANGED <<user, token, chosen>>

SavePassword(v) ==
  LET e == visit[v].email IN
  /\ InStep(v, "save_password")
  /\ user' = [user EXCEPT ![e] = visit[v].given]
  /\ chosen' = [chosen EXCEPT ![e] = visit[v].given]
  /\ Leaves(v)
  /\ UNCHANGED token

\* logout_user verifies the token.
StartLogout(v, k) ==
  /\ Usable(k)
  /\ Asks(v, [step |-> "blacklist", token |-> k])
  /\ UNCHANGED <<user, token, chosen>>

\* token.blacklist() does nothing if another logout was faster.
Blacklist(v) ==
  /\ InStep(v, "blacklist")
  /\ token' = [token EXCEPT ![visit[v].token].blacklisted = TRUE]
  /\ Leaves(v)
  /\ UNCHANGED <<user, chosen>>

\* An error, or the request dies.
QuitVisit(v) ==
  /\ visit[v] # None
  /\ Leaves(v)
  /\ UNCHANGED <<user, token, chosen>>

AccNext ==
  \E v \in Visitor :
    \/ \E e \in Email, p \in Password :
         \/ StartRegister(v, e, p) \/ StartLogin(v, e, p)
         \/ \E new \in Password : StartChange(v, e, p, new)
    \/ \E k \in Token : IssueToken(v, k) \/ StartLogout(v, k)
    \/ InsertUser(v) \/ SaveLogin(v) \/ SavePassword(v)
    \/ Blacklist(v) \/ QuitVisit(v)

AccSpec == AccInit /\ [][AccNext]_accountVars

-----------------------------------------------------------------------------
(***************************************************************************)
(* Every variable has its type; tokens belong to registered users, and no  *)
(* request forgets which user or token it is about.                        *)
(***************************************************************************)
AccTypeOK ==
  /\ user \in [Email -> Optional(Password)]
  /\ token \in [Token -> Optional([email : Email, blacklisted : BOOLEAN])]
  /\ visit \in [Visitor -> Optional(Visit)]
  /\ chosen \in [Email -> Optional(Password)]
  /\ \A k \in Token : token[k] # None => Registered(token[k].email)
  /\ \A v \in Visitor :
       /\ InStep(v, "save_login") \/ InStep(v, "issue")
            => Registered(visit[v].email)
       /\ InStep(v, "blacklist") => token[visit[v].token] # None

(***************************************************************************)
(* Logins write to the row of a user whose password is changed meanwhile.  *)
(* The password is the one set last: no login that has read the row before *)
(* brings the old password back.                                           *)
(***************************************************************************)
PasswordIsTheLastSet == user = chosen

=============================================================================
