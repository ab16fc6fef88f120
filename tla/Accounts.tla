------------------------------ MODULE Accounts ------------------------------
(* Accounts, children and their sessions: registration, login, the          *)
(* middleware in front of a parent's requests, the children of a parent,    *)
(* login by PIN and the report of a finished puzzle. One action is one      *)
(* statement, as no two of them share a transaction. A user is named by the *)
(* e-mail its row holds, which is unique and never changes; ids of children *)
(* and tokens are random, so none is given out twice.                       *)
EXTENDS Naturals, FiniteSets

CONSTANTS
    Request,        \* requests in flight at the same time
    Email,          \* e-mails as they are typed or configured
    Secret,         \* passwords and PINs
    Long,           \* those of at least 8 characters
    Child,          \* ids of children
    Token,          \* tokens of either kind of session
    SeedEmail,      \* SEED_ADMIN_EMAIL
    SeedPassword,   \* SEED_ADMIN_PASSWORD
    Lower,          \* what ToLower(TrimSpace(email)) gives
    Blockable,      \* users an operator may block
    HasBlocked,     \* does the table users have the column blocked
    None            \* no row, no value

ASSUME AccountsAssumption ==
    /\ SeedEmail \in Email /\ SeedPassword \in Secret
    /\ Long \subseteq Secret /\ Blockable \subseteq Email
    /\ Lower \in [Email -> Email]
    /\ \A e \in Email : Lower[Lower[e]] = Lower[e]
    /\ Email \cap Child = {}
    /\ HasBlocked \in BOOLEAN
    /\ None \notin Email \cup Secret \cup Child \cup Token

VARIABLES
    password,       \* users: the password of each row, None without a row
    admins,         \* users: rows with role 'admin'
    blocked,        \* users: rows with blocked set
    holder,         \* who each token was given to
    live,           \* tokens with an unexpired row in sessions or child_sessions
    parent,         \* children: user_id of each row, None without a row
    pin,            \* children: what pin_hash was made of, None for ''
    born,           \* ids of children given out so far
    results,        \* children with a row in play_results
    req,            \* each request: its next statement and its variables
    proof           \* history: the password each user's token was given for

accounts == <<password, admins, blocked>>
sessions == <<holder, live, proof>>
children == <<parent, pin, born, results>>
vars == <<accounts, sessions, children, req>>

\* The kinds of a parent's request on children, and the statements a request
\* of any kind may be about to issue.
ParentOp == {"create", "update", "delete"}
Step == ParentOp \cup
    {"idle", "openSession", "getUser", "refused", "seedInsert", "getSession",
     "getUserByID", "getChild", "verify", "openChild", "childByToken", "record"}

\* The last four fields are history: did it begin with a token already dead, or
\* as a login with the user's own password; did the database fail that login; the
\* PINs of its child since.
RequestState == [pc: Step, op: ParentOp, token: Token \cup {None},
                 email: Email \cup {None}, child: Child \cup {None},
                 secret: Secret \cup {None},
                 late: {"no", "yes"}, knew: {"no", "yes"},
                 failed: {"no", "yes"}, had: SUBSET (Secret \cup {None})]

Idle == [pc |-> "idle", op |-> "create", token |-> None, email |-> None,
         child |-> None, secret |-> None,
         late |-> "no", knew |-> "no", failed |-> "no", had |-> {}]

Init ==
    /\ password = [e \in Email |-> None]
    /\ admins = {} /\ blocked = {}
    /\ holder = [t \in Token |-> None]
    /\ proof = [t \in Token |-> None]
    /\ live = {}
    /\ parent = [c \in Child |-> None]
    /\ pin = [c \in Child |-> None]
    /\ born = {} /\ results = {}
    /\ req = [r \in Request |-> Idle]

YesIf(b) == IF b THEN "yes" ELSE "no"

At(r, step) == req[r].pc = step
Goto(r, step) == req' = [req EXCEPT ![r].pc = step]
Done(r) == req' = [req EXCEPT ![r] = Idle]
Begin(r, state) ==
    /\ At(r, "idle")
    /\ req' = [req EXCEPT ![r] = state]
    /\ UNCHANGED <<accounts, sessions, children>>

\* A row in sessions or child_sessions with a new token for who.
OpenSession(who, with) ==
    \E t \in Token :
        /\ holder[t] = None
        /\ holder' = [holder EXCEPT ![t] = who]
        /\ proof' = [proof EXCEPT ![t] = with]
        /\ live' = live \cup {t}

-----------------------------------------------------------------------------
\* POST /api/auth/register: INSERT INTO users; a taken e-mail is answered 409.
\* Only a registration looks at the length of a password.
HandleRegister(r, e, s) ==
    /\ At(r, "idle") /\ s \in Long
    /\ password[Lower[e]] = None
    /\ password' = [password EXCEPT ![Lower[e]] = s]
    /\ req' = [req EXCEPT ![r] = [Idle EXCEPT !.pc = "openSession",
                                             !.email = Lower[e], !.secret = s]]
    /\ UNCHANGED <<admins, blocked, sessions, children>>

\* The last statement of a registration and of a login.
CreateSession(r) ==
    /\ At(r, "openSession")
    /\ OpenSession(req[r].email, req[r].secret)
    /\ Done(r)
    /\ UNCHANGED <<accounts, children>>

\* s is the password of a user with this e-mail, taken as it is or in lower case.
Knows(e, s) == \E row \in {e, Lower[e]} : password[row] = s

\* Mutant of HandleLogin: the e-mail is looked up as it was typed.
HandleLoginAsTyped(r, e, s) ==
    Begin(r, [Idle EXCEPT !.pc = "getUser", !.email = e, !.secret = s,
                          !.knew = YesIf(Knows(e, s))])

\* POST /api/auth/login: the handler up to GetUserByEmail.
HandleLogin(r, e, s) ==
    Begin(r, [Idle EXCEPT !.pc = "getUser", !.email = Lower[e], !.secret = s,
                          !.knew = YesIf(Knows(e, s))])

\* The statement selects the column blocked. When it fails, for a lost connection
\* or for want of a row or of the column, the answer is 401; a blocked user is
\* answered 403.
GetUserByEmail(r) ==
    /\ At(r, "getUser")
    /\ LET e == req[r].email
           found == HasBlocked /\ password[e] # None
       IN  \/ req' = [req EXCEPT ![r].pc = "refused", ![r].failed = "yes"]
           \/ ~found /\ Goto(r, "refused")
           \/ found /\ e \in blocked /\ Done(r)
           \/ /\ found /\ e \notin blocked
              /\ Goto(r, IF password[e] = req[r].secret THEN "openSession" ELSE "refused")
    /\ UNCHANGED <<accounts, sessions, children>>

\* The client takes note of the 401.
Refused(r) ==
    /\ At(r, "refused")
    /\ Done(r)
    /\ UNCHANGED <<accounts, sessions, children>>

\* DELETE FROM sessions by the cookie's token; expiry has the same effect.
\* A child's token is in another table and never expires.
HandleLogout(t) ==
    /\ t \in live /\ holder[t] \in Email
    /\ live' = live \ {t}
    /\ UNCHANGED <<accounts, holder, proof, children, req>>

\* The start of each server process: SELECT EXISTS, by the e-mail as configured.
SeedAdmin(r) ==
    /\ password[SeedEmail] = None
    /\ Begin(r, [Idle EXCEPT !.pc = "seedInsert"])

\* Mutant of SeedInsert: ON CONFLICT (email) DO UPDATE.
SeedInsertUpdates(r) ==
    /\ At(r, "seedInsert")
    /\ password' = [password EXCEPT ![SeedEmail] = SeedPassword]
    /\ admins' = admins \cup {SeedEmail}
    /\ Done(r)
    /\ UNCHANGED <<blocked, sessions, children>>

\* INSERT ... ON CONFLICT (email) DO NOTHING.
SeedInsert(r) ==
    /\ At(r, "seedInsert")
    /\ IF password[SeedEmail] # None
       THEN UNCHANGED <<password, admins>>
       ELSE /\ password' = [password EXCEPT ![SeedEmail] = SeedPassword]
            /\ admins' = admins \cup {SeedEmail}
    /\ Done(r)
    /\ UNCHANGED <<blocked, sessions, children>>

-----------------------------------------------------------------------------
\* A request on the parent's children, with a token that was once given out.
\* The middleware reads the session, then the user.
HandleParent(r, t, op, c, s) ==
    /\ holder[t] # None
    /\ Begin(r, [Idle EXCEPT !.pc = "getSession", !.op = op, !.token = t,
                             !.child = c, !.secret = s,
                             !.late = YesIf(t \notin live \/ holder[t] \in blocked)])

\* Mutant of GetSessionByToken: both kinds of token are in one table.
GetSessionOfAnyone(r) ==
    /\ At(r, "getSession")
    /\ IF req[r].token \in live
       THEN req' = [req EXCEPT ![r].pc = "getUserByID", ![r].token = None,
                               ![r].email = holder[req[r].token]]
       ELSE Done(r)
    /\ UNCHANGED <<accounts, sessions, children>>

GetSessionByToken(r) ==
    /\ At(r, "getSession")
    /\ LET t == req[r].token IN
       IF t \in live /\ holder[t] \in Email
       THEN req' = [req EXCEPT ![r].pc = "getUserByID", ![r].token = None,
                               ![r].email = holder[t]]
       ELSE Done(r)
    /\ UNCHANGED <<accounts, sessions, children>>

\* Mutant of GetUserByID: a blocked user is let through.
GetUserByIDBlocked(r) ==
    /\ At(r, "getUserByID")
    /\ IF HasBlocked
       THEN Goto(r, IF req[r].op = "create" THEN "create" ELSE "getChild")
       ELSE Done(r)
    /\ UNCHANGED <<accounts, sessions, children>>

GetUserByID(r) ==
    /\ At(r, "getUserByID")
    /\ IF HasBlocked /\ req[r].email \notin blocked
       THEN Goto(r, IF req[r].op = "create" THEN "create" ELSE "getChild")
       ELSE Done(r)
    /\ UNCHANGED <<accounts, sessions, children>>

\* The child c has the PIN s from now on; r is answered, and the logins of
\* the child take note.
SetPin(r, c, s) ==
    /\ pin' = [pin EXCEPT ![c] = s]
    /\ req' = [q \in Request |->
                 IF q = r THEN Idle
                 ELSE IF req[q].child = c /\ req[q].pc \in {"verify", "openChild"}
                      THEN [req[q] EXCEPT !.had = req[q].had \cup {s}]
                      ELSE req[q]]

CreateChild(r) ==
    /\ At(r, "create")
    /\ \E c \in Child \ born :
        /\ born' = born \cup {c}
        /\ parent' = [parent EXCEPT ![c] = req[r].email]
        /\ SetPin(r, c, req[r].secret)
    /\ UNCHANGED <<accounts, sessions, results>>

\* Mutant of GetChild: an existing child is enough.
GetChildOfAnyone(r) ==
    /\ At(r, "getChild")
    /\ IF parent[req[r].child] # None THEN Goto(r, req[r].op) ELSE Done(r)
    /\ UNCHANGED <<accounts, sessions, children>>

\* GetChild of any owner, then the comparison with the user.
GetChild(r) ==
    /\ At(r, "getChild")
    /\ IF parent[req[r].child] = req[r].email THEN Goto(r, req[r].op) ELSE Done(r)
    /\ UNCHANGED <<accounts, sessions, children>>

\* UPDATE by id; without a PIN in the request the old one stays.
UpdateChild(r) ==
    /\ At(r, "update")
    /\ LET c == req[r].child IN
       IF parent[c] = None \/ req[r].secret = None
       THEN Done(r) /\ UNCHANGED pin
       ELSE SetPin(r, c, req[r].secret)
    /\ UNCHANGED <<accounts, sessions, parent, born, results>>

\* DELETE by id; sessions and results of the child go with it.
DeleteChild(r) ==
    /\ At(r, "delete")
    /\ LET c == req[r].child IN
       /\ parent' = [parent EXCEPT ![c] = None]
       /\ pin' = [pin EXCEPT ![c] = None]
       /\ live' = {t \in live : holder[t] # c}
       /\ results' = results \ {c}
    /\ Done(r)
    /\ UNCHANGED <<accounts, holder, proof, born>>

-----------------------------------------------------------------------------
\* POST /api/children/auth: GetChild; an unknown child is answered 401.
HandleChildAuth(r, c, s) ==
    /\ parent[c] # None
    /\ Begin(r, [Idle EXCEPT !.pc = "verify", !.child = c, !.secret = s,
                             !.had = {pin[c]}])

\* Mutant of VerifyChildPIN: a child without a PIN needs none.
VerifyChildPINOrNone(r) ==
    /\ At(r, "verify")
    /\ LET c == req[r].child IN
       IF parent[c] # None /\ pin[c] \in {None, req[r].secret}
       THEN Goto(r, "openChild") ELSE Done(r)
    /\ UNCHANGED <<accounts, sessions, children>>

\* A child without a PIN, or gone by now, cannot log in.
VerifyChildPIN(r) ==
    /\ At(r, "verify")
    /\ LET c == req[r].child IN
       IF parent[c] # None /\ pin[c] # None /\ pin[c] = req[r].secret
       THEN Goto(r, "openChild") ELSE Done(r)
    /\ UNCHANGED <<accounts, sessions, children>>

\* The foreign key refuses a session for a child that is gone.
CreateChildSession(r) ==
    /\ At(r, "openChild")
    /\ IF parent[req[r].child] = None
       THEN UNCHANGED sessions
       ELSE OpenSession(req[r].child, None)
    /\ Done(r)
    /\ UNCHANGED <<accounts, children>>

\* POST /api/play/{id}/complete, with a token that was once given out.
HandlePlayComplete(r, t) ==
    /\ holder[t] # None
    /\ Begin(r, [Idle EXCEPT !.pc = "childByToken", !.token = t,
                             !.late = YesIf(t \notin live)])

GetChildByToken(r) ==
    /\ At(r, "childByToken")
    /\ LET t == req[r].token IN
       IF t \in live /\ holder[t] \in Child
       THEN req' = [req EXCEPT ![r].pc = "record", ![r].token = None,
                               ![r].child = holder[t]]
       ELSE Done(r)
    /\ UNCHANGED <<accounts, sessions, children>>

\* Mutant of RecordPlayResult: play_results without the foreign key.
RecordPlayResultAnyway(r) ==
    /\ At(r, "record")
    /\ results' = results \cup {req[r].child}
    /\ Done(r)
    /\ UNCHANGED <<accounts, sessions, parent, pin, born>>

\* The foreign key refuses a result of a child that is gone.
RecordPlayResult(r) ==
    /\ At(r, "record")
    /\ results' = IF parent[req[r].child] = None THEN results
                  ELSE results \cup {req[r].child}
    /\ Done(r)
    /\ UNCHANGED <<accounts, sessions, parent, pin, born>>

-----------------------------------------------------------------------------
\* A statement fails, the client goes away, or an answer is lost: the handler
\* returns and what it has done so far stays. Only the lookup of a login takes a
\* failure for an answer (GetUserByEmail).
Abort(r) ==
    /\ req[r].pc \notin {"idle", "refused"}
    /\ Done(r)
    /\ UNCHANGED <<accounts, sessions, children>>

\* Nothing in the code writes the column: an operator sets it by hand.
Block(e) ==
    /\ HasBlocked /\ e \in Blockable /\ password[e] # None
    /\ blocked' = blocked \cup {e}
    /\ UNCHANGED <<password, admins, sessions, children, req>>

StartOf(r) ==
    \/ \E e \in Email, s \in Secret : HandleRegister(r, e, s) \/ HandleLogin(r, e, s)
    \/ SeedAdmin(r)
    \/ \E t \in Token :
        \/ HandlePlayComplete(r, t)
        \/ \E s \in Secret \cup {None} : HandleParent(r, t, "create", None, s)
        \/ \E c \in Child, s \in Secret \cup {None} : HandleParent(r, t, "update", c, s)
        \/ \E c \in Child : HandleParent(r, t, "delete", c, None)
    \/ \E c \in Child, s \in Secret : HandleChildAuth(r, c, s)

StepOf(r) ==
    \/ CreateSession(r) \/ GetUserByEmail(r) \/ Refused(r) \/ SeedInsert(r)
    \/ GetSessionByToken(r) \/ GetUserByID(r) \/ CreateChild(r) \/ GetChild(r)
    \/ UpdateChild(r) \/ DeleteChild(r)
    \/ VerifyChildPIN(r) \/ CreateChildSession(r)
    \/ GetChildByToken(r) \/ RecordPlayResult(r)
    \/ Abort(r)

Next ==
    \/ \E r \in Request : StartOf(r) \/ StepOf(r)
    \/ \E t \in Token : HandleLogout(t)
    \/ \E e \in Email : Block(e)

Spec == Init /\ [][Next]_vars

-----------------------------------------------------------------------------
\* The variables have their types.
TypeOK ==
    /\ password \in [Email -> Secret \cup {None}]
    /\ admins \subseteq Email /\ blocked \subseteq Email
    /\ holder \in [Token -> Email \cup Child \cup {None}]
    /\ proof \in [Token -> Secret \cup {None}]
    /\ live \subseteq Token
    /\ parent \in [Child -> Email \cup {None}]
    /\ pin \in [Child -> Secret \cup {None}]
    /\ born \subseteq Child /\ results \subseteq Child
    /\ req \in [Request -> RequestState]

\* A user's token was given for that user's password, although user, password
\* and session are read and written by statements of their own, and a
\* registration may be left half done (HandleRegister, HandleLogin).
SessionsNeedPassword ==
    \A t \in Token : holder[t] \in Email =>
        proof[t] # None /\ proof[t] = password[holder[t]]

\* A request that begins with a token already logged out, expired, of a deleted
\* child or of a blocked user reaches no handler (Auth, GetChildByToken), even
\* if users, children and sessions change while it is on its way.
DeadTokensOpenNothing ==
    \A r \in Request : req[r].late = "yes" => req[r].pc \in
        {"getSession", "getUserByID", "childByToken"}

\* Who is about to write a child by its id is still its owner: the check and
\* the statement are apart, but a child never changes hands and its id is never
\* used again (HandleParentUpdateChild, HandleParentDeleteChild).
OnlyOwnersWrite ==
    \A r \in Request : req[r].pc \in {"update", "delete"} =>
        parent[req[r].child] \in {req[r].email, None}

\* Nothing of a deleted child stays or comes back: no session of it works and
\* no result is kept, whatever logins and reports were under way.
NothingOfADeletedChild ==
    \A c \in Child : parent[c] = None =>
        c \notin results /\ \A t \in live : holder[t] # c

\* A child's session is opened for a PIN the child has had since the login
\* began: a PIN replaced before that opens nothing (HandleChildAuth).
PinLoginsAreCurrent ==
    \A r \in Request : At(r, "openChild") => req[r].secret \in req[r].had

\* A login with the user's own e-mail and password is answered "invalid email or
\* password" only when the database failed it (HandleLogin), also when the
\* registration that created the user ended in an error.
RefusalIsJust ==
    \A r \in Request : At(r, "refused") /\ req[r].knew = "yes" => req[r].failed = "yes"

\* A row of users keeps its password and its role: neither a registration nor
\* the seeding of another server process, begun before the row was there,
\* overwrites it.
AccountsStay ==
    [][\A e \in Email : password[e] # None =>
          password'[e] = password[e] /\ (e \in admins' <=> e \in admins)]_vars
=============================================================================
