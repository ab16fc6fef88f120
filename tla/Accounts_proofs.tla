-------------------------- MODULE Accounts_proofs ---------------------------
(***************************************************************************)
(* What holds of users, children and their sessions, for any number of     *)
(* requests, users, children and tokens.                                   *)
(***************************************************************************)
EXTENDS Accounts, TLAPS

USE AccountsAssumption

(***************************************************************************)
(* Layer 1: types, and which of its variables a request has set.           *)
(***************************************************************************)
FillsIn(q) ==
    /\ q.pc \in {"openSession", "getUser"} => q.email \in Email /\ q.secret \in Secret
    /\ q.pc \in {"getUserByID", "create", "getChild", "update", "delete"} => q.email \in Email
    /\ q.pc \in {"getSession", "getUserByID"} => q.op = "create" \/ q.child \in Child
    /\ q.pc = "getChild" => q.op # "create"
    /\ q.pc \in {"getChild", "update", "delete", "verify", "openChild", "record"} =>
         q.child \in Child
    /\ q.pc \in {"getSession", "childByToken"} =>
         q.token \in Token /\ holder[q.token] # None
    /\ q.pc \in {"verify", "openChild"} => q.secret \in Secret

Filled == \A r \in Request : FillsIn(req[r])

Tables ==
    /\ password \in [Email -> Secret \cup {None}]
    /\ admins \subseteq Email /\ blocked \subseteq Email
    /\ holder \in [Token -> Email \cup Child \cup {None}]
    /\ proof \in [Token -> Secret \cup {None}]
    /\ live \subseteq Token
    /\ parent \in [Child -> Email \cup {None}]
    /\ pin \in [Child -> Secret \cup {None}]
    /\ born \subseteq Child /\ results \subseteq Child

Requests == req \in [Request -> RequestState] /\ Filled

TypeInv == Tables /\ Requests

LEMMA TypeInit == Init => TypeInv
BY DEF Init, TypeInv, Tables, Requests, Filled, FillsIn, Idle, RequestState, Step, ParentOp

USE DEF At, Goto, Done, Begin, accounts, sessions, children

\* A request that is given the state q, the other requests and tokens as before.
LEMMA Given ==
    ASSUME Requests, NEW r \in Request, NEW q, q \in RequestState, FillsIn(q),
           req' = [req EXCEPT ![r] = q], UNCHANGED holder
    PROVE  Requests'
BY DEF Requests, Filled, FillsIn

LEMMA IdleState == Idle \in RequestState /\ FillsIn(Idle)
BY DEF Idle, RequestState, Step, ParentOp, FillsIn

\* The other requests only take note of the PIN.
LEMMA PinSet ==
    ASSUME Requests, NEW r \in Request, NEW c \in Child, NEW s \in Secret \cup {None},
           SetPin(r, c, s), UNCHANGED holder
    PROVE  Requests'
<1>1. ASSUME NEW q \in Request, q # r, req[q].child = c, req[q].pc \in {"verify", "openChild"}
      PROVE  /\ req'[q] = [req[q] EXCEPT !.had = req[q].had \cup {s}]
             /\ req'[q] \in RequestState
             /\ FillsIn(req'[q])
    <2>1. req[q] \in RequestState /\ FillsIn(req[q])
        BY DEF Requests, Filled
    <2>2. req'[q] = [req[q] EXCEPT !.had = req[q].had \cup {s}]
        BY <1>1 DEF SetPin
    <2>3. QED
        BY <1>1, <2>1, <2>2 DEF RequestState, FillsIn
<1>2. \A q \in Request : req'[q] \in RequestState /\ FillsIn(req'[q])
    BY <1>1, IdleState DEF SetPin, Requests, Filled
<1>3. req' \in [Request -> RequestState]
    BY <1>2 DEF SetPin
<1>4. QED
    BY <1>2, <1>3 DEF Requests, Filled, FillsIn

\* What the statements that branch make of a request, field by field.
Reads(r) ==
    /\ UNCHANGED <<accounts, sessions, children>>
    /\ req' = [req EXCEPT ![r] = req'[r]]
    /\ \A x \in Request \ {r} : req'[x] = req[x]
    /\ req'[r] \in RequestState

\* The fields that only the beginning of a request fills in.
SameStart(q, p) ==
    q.op = p.op /\ q.secret = p.secret /\ q.late = p.late /\ q.knew = p.knew /\ q.had = p.had

LEMMA UserRead ==
    ASSUME Requests, NEW r \in Request, GetUserByEmail(r)
    PROVE  /\ Reads(r)
           /\ \/ req'[r] = Idle
              \/ /\ req'[r].pc = "refused"
                 /\ \/ req'[r].failed = "yes"
                    \/ HasBlocked => password[req[r].email] # req[r].secret
                                      \/ password[req[r].email] = None
                 /\ SameStart(req'[r], req[r])
              \/ /\ req'[r].pc = "openSession"
                 /\ password[req[r].email] = req[r].secret
                 /\ SameStart(req'[r], req[r])
                 /\ req'[r].email = req[r].email
<1> DEFINE failed == [req[r] EXCEPT !.pc = "refused", !.failed = "yes"]
           refused == [req[r] EXCEPT !.pc = "refused"]
           open == [req[r] EXCEPT !.pc = "openSession"]
<1>1. req \in [Request -> RequestState] /\ req[r] \in RequestState
    BY DEF Requests
<1>2. /\ failed \in RequestState /\ failed.pc = "refused" /\ failed.failed = "yes"
      /\ SameStart(failed, req[r])
    BY <1>1 DEF RequestState, SameStart, Step
<1>3. refused \in RequestState /\ refused.pc = "refused" /\ SameStart(refused, req[r])
    BY <1>1 DEF RequestState, SameStart, Step
<1>4. /\ open \in RequestState /\ open.pc = "openSession" /\ open.email = req[r].email
      /\ SameStart(open, req[r])
    BY <1>1 DEF RequestState, SameStart, Step
<1> HIDE DEF failed, refused, open
<1>5. /\ UNCHANGED <<accounts, sessions, children>>
      /\ \/ req' = [req EXCEPT ![r] = failed]
         \/ /\ req' = [req EXCEPT ![r] = refused]
            /\ HasBlocked => password[req[r].email] # req[r].secret
                               \/ password[req[r].email] = None
         \/ req' = [req EXCEPT ![r] = Idle]
         \/ /\ req' = [req EXCEPT ![r] = open]
            /\ password[req[r].email] = req[r].secret
    BY DEF GetUserByEmail, failed, refused, open
<1>6. QED
    BY <1>1, <1>2, <1>3, <1>4, <1>5, IdleState DEF Reads

LEMMA SessionRead ==
    ASSUME Requests, Tables, NEW r \in Request, GetSessionByToken(r)
    PROVE  /\ Reads(r)
           /\ \/ req'[r] = Idle
              \/ /\ req[r].token \in live /\ holder[req[r].token] \in Email
                 /\ req'[r].pc = "getUserByID" /\ req'[r].email = holder[req[r].token]
                 /\ req'[r].child = req[r].child
                 /\ SameStart(req'[r], req[r])
<1> DEFINE t == req[r].token
           found == [req[r] EXCEPT !.pc = "getUserByID", !.token = None, !.email = holder[t]]
<1>1. req \in [Request -> RequestState] /\ req[r] \in RequestState
    BY DEF Requests
<1>2. CASE t \in live /\ holder[t] \in Email
    <2>1. /\ found \in RequestState /\ found.pc = "getUserByID" /\ found.email = holder[t]
          /\ found.child = req[r].child
          /\ SameStart(found, req[r])
        BY <1>1, <1>2 DEF RequestState, SameStart, Step
    <2>2. req' = [req EXCEPT ![r] = found] /\ UNCHANGED <<accounts, sessions, children>>
        BY <1>2 DEF GetSessionByToken
    <2> HIDE DEF found
    <2>3. QED
        BY <1>1, <1>2, <2>1, <2>2 DEF Reads
<1>3. CASE ~(t \in live /\ holder[t] \in Email)
    <2>1. req' = [req EXCEPT ![r] = Idle] /\ UNCHANGED <<accounts, sessions, children>>
        BY <1>3 DEF GetSessionByToken
    <2>2. QED
        BY <1>1, <2>1, IdleState DEF Reads
<1>4. QED
    BY <1>2, <1>3

LEMMA ChildRead ==
    ASSUME Requests, NEW r \in Request, GetChild(r)
    PROVE  /\ Reads(r)
           /\ \/ req'[r] = Idle
              \/ /\ parent[req[r].child] = req[r].email
                 /\ req'[r].pc = req[r].op /\ req[r].op \in {"update", "delete"}
                 /\ req'[r].email = req[r].email /\ req'[r].child = req[r].child
                 /\ SameStart(req'[r], req[r])
<1> DEFINE found == [req[r] EXCEPT !.pc = req[r].op]
<1>1. /\ req \in [Request -> RequestState] /\ req[r] \in RequestState
      /\ req[r].op \in {"update", "delete"}
    BY DEF Requests, Filled, FillsIn, GetChild, RequestState, ParentOp
<1>2. /\ found \in RequestState /\ found.pc = req[r].op /\ found.email = req[r].email
      /\ found.child = req[r].child
      /\ SameStart(found, req[r])
    BY <1>1 DEF RequestState, SameStart, Step, ParentOp
<1> HIDE DEF found
<1>3. /\ UNCHANGED <<accounts, sessions, children>>
      /\ \/ /\ req' = [req EXCEPT ![r] = found]
            /\ parent[req[r].child] = req[r].email
         \/ req' = [req EXCEPT ![r] = Idle]
    BY DEF GetChild, found
<1>4. QED
    BY <1>1, <1>2, <1>3, IdleState DEF Reads

LEMMA ChildTokenRead ==
    ASSUME Requests, Tables, NEW r \in Request, GetChildByToken(r)
    PROVE  /\ Reads(r)
           /\ \/ req'[r] = Idle
              \/ /\ req[r].token \in live /\ holder[req[r].token] \in Child
                 /\ req'[r].pc = "record" /\ req'[r].child = holder[req[r].token]
                 /\ SameStart(req'[r], req[r])
<1> DEFINE t == req[r].token
           found == [req[r] EXCEPT !.pc = "record", !.token = None, !.child = holder[t]]
<1>1. req \in [Request -> RequestState] /\ req[r] \in RequestState
    BY DEF Requests
<1>2. CASE t \in live /\ holder[t] \in Child
    <2>1. /\ found \in RequestState /\ found.pc = "record" /\ found.child = holder[t]
          /\ SameStart(found, req[r])
        BY <1>1, <1>2 DEF RequestState, SameStart, Step
    <2>2. req' = [req EXCEPT ![r] = found] /\ UNCHANGED <<accounts, sessions, children>>
        BY <1>2 DEF GetChildByToken
    <2> HIDE DEF found
    <2>3. QED
        BY <1>1, <1>2, <2>1, <2>2 DEF Reads
<1>3. CASE ~(t \in live /\ holder[t] \in Child)
    <2>1. req' = [req EXCEPT ![r] = Idle] /\ UNCHANGED <<accounts, sessions, children>>
        BY <1>3 DEF GetChildByToken
    <2>2. QED
        BY <1>1, <2>1, IdleState DEF Reads
<1>4. QED
    BY <1>2, <1>3

LEMMA TypeStep ==
    ASSUME TypeInv, [Next]_vars
    PROVE  TypeInv'
<1> USE DEF TypeInv
<1>1. ASSUME NEW r \in Request, NEW e \in Email, NEW s \in Secret,
             HandleRegister(r, e, s)
      PROVE  TypeInv'
    <2> DEFINE q == [Idle EXCEPT !.pc = "openSession", !.email = Lower[e], !.secret = s]
    <2>1. Lower[e] \in Email
        OBVIOUS
    <2>2. q \in RequestState
        BY <2>1 DEF Idle, RequestState, Step, ParentOp
    <2>3. FillsIn(q)
        BY <2>1 DEF Idle, FillsIn
    <2>4. req' = [req EXCEPT ![r] = q] /\ UNCHANGED holder
        BY <1>1 DEF HandleRegister
    <2> HIDE DEF q
    <2>5. Requests'
        BY <2>2, <2>3, <2>4, Given
    <2>6. Tables'
        BY <1>1 DEF HandleRegister, Tables
    <2>7. QED
        BY <2>5, <2>6
<1>2. ASSUME NEW r \in Request, NEW e \in Email, NEW s \in Secret,
             HandleLogin(r, e, s)
      PROVE  TypeInv'
    <2> DEFINE q == [Idle EXCEPT !.pc = "getUser", !.email = Lower[e], !.secret = s,
                                  !.knew = YesIf(Knows(e, s))]
    <2>1. Lower[e] \in Email /\ YesIf(Knows(e, s)) \in {"no", "yes"}
        BY DEF YesIf
    <2>2. q \in RequestState
        BY <2>1 DEF Idle, RequestState, Step, ParentOp
    <2>3. FillsIn(q)
        BY <2>1 DEF Idle, FillsIn
    <2>4. req' = [req EXCEPT ![r] = q] /\ UNCHANGED holder
        BY <1>2 DEF HandleLogin
    <2> HIDE DEF q
    <2>5. Requests'
        BY <2>2, <2>3, <2>4, Given
    <2>6. Tables'
        BY <1>2 DEF HandleLogin, Tables
    <2>7. QED
        BY <2>5, <2>6
<1>3. ASSUME NEW r \in Request,
             SeedAdmin(r)
      PROVE  TypeInv'
    BY <1>3 DEF SeedAdmin, Tables, Requests, Filled, FillsIn,
                Idle, RequestState, Step, ParentOp
<1>4. ASSUME NEW r \in Request, NEW t \in Token, NEW op \in ParentOp, NEW c \in Child \cup {None},
             NEW s \in Secret \cup {None}, op = "create" \/ c \in Child,
             HandleParent(r, t, op, c, s)
      PROVE  TypeInv'
    <2> DEFINE q == [Idle EXCEPT !.pc = "getSession", !.op = op, !.token = t,
                         !.child = c, !.secret = s,
                         !.late = YesIf(t \notin live \/ holder[t] \in blocked)]
    <2>1. YesIf(t \notin live \/ holder[t] \in blocked) \in {"no", "yes"} /\ holder[t] # None
        BY <1>4 DEF YesIf, HandleParent
    <2>2. q \in RequestState
        BY <2>1, <1>4 DEF Idle, RequestState, Step, ParentOp
    <2>3. FillsIn(q)
        BY <2>1, <1>4 DEF Idle, FillsIn
    <2>4. req' = [req EXCEPT ![r] = q] /\ UNCHANGED holder
        BY <1>4 DEF HandleParent
    <2> HIDE DEF q
    <2>5. Requests'
        BY <2>2, <2>3, <2>4, Given
    <2>6. Tables'
        BY <1>4 DEF HandleParent, Tables
    <2>7. QED
        BY <2>5, <2>6
<1>5. ASSUME NEW r \in Request, NEW c \in Child, NEW s \in Secret,
             HandleChildAuth(r, c, s)
      PROVE  TypeInv'
    <2> DEFINE q == [Idle EXCEPT !.pc = "verify", !.child = c, !.secret = s,
                                  !.had = {pin[c]}]
    <2>1. pin[c] \in Secret \cup {None}
        BY DEF Tables
    <2>2. q \in RequestState
        BY <2>1 DEF Idle, RequestState, Step, ParentOp
    <2>3. FillsIn(q)
        BY <2>1 DEF Idle, FillsIn
    <2>4. req' = [req EXCEPT ![r] = q] /\ UNCHANGED holder
        BY <1>5 DEF HandleChildAuth
    <2> HIDE DEF q
    <2>5. Requests'
        BY <2>2, <2>3, <2>4, Given
    <2>6. Tables'
        BY <1>5 DEF HandleChildAuth, Tables
    <2>7. QED
        BY <2>5, <2>6
<1>6. ASSUME NEW r \in Request, NEW t \in Token,
             HandlePlayComplete(r, t)
      PROVE  TypeInv'
    <2> DEFINE q == [Idle EXCEPT !.pc = "childByToken", !.token = t,
                                  !.late = YesIf(t \notin live)]
    <2>1. YesIf(t \notin live) \in {"no", "yes"} /\ holder[t] # None
        BY <1>6 DEF YesIf, HandlePlayComplete
    <2>2. q \in RequestState
        BY <2>1 DEF Idle, RequestState, Step, ParentOp
    <2>3. FillsIn(q)
        BY <2>1 DEF Idle, FillsIn
    <2>4. req' = [req EXCEPT ![r] = q] /\ UNCHANGED holder
        BY <1>6 DEF HandlePlayComplete
    <2> HIDE DEF q
    <2>5. Requests'
        BY <2>2, <2>3, <2>4, Given
    <2>6. Tables'
        BY <1>6 DEF HandlePlayComplete, Tables
    <2>7. QED
        BY <2>5, <2>6
<1>7. ASSUME NEW r \in Request, CreateSession(r) PROVE TypeInv'
    BY <1>7 DEF CreateSession, Tables, Requests, Filled, FillsIn,
                Idle, RequestState, Step, ParentOp, OpenSession
<1>8. ASSUME NEW r \in Request, GetUserByEmail(r) PROVE TypeInv'
    <2>1. req[r] \in RequestState /\ FillsIn(req[r]) /\ req[r].pc = "getUser"
        BY <1>8 DEF GetUserByEmail, Requests, Filled
    <2>2. req'[r] \in RequestState
        BY <1>8, UserRead DEF Reads
    <2>3. FillsIn(req'[r])
        BY <1>8, <2>1, UserRead DEF Idle, FillsIn, SameStart
    <2>4. req' = [req EXCEPT ![r] = req'[r]] /\ UNCHANGED holder
        BY <1>8, UserRead DEF Reads
    <2>5. Tables'
        BY <1>8, UserRead DEF Tables, Reads
    <2>6. QED
        BY <2>2, <2>3, <2>4, <2>5, Given
<1>9. ASSUME NEW r \in Request, Refused(r) PROVE TypeInv'
    BY <1>9 DEF Refused, Tables, Requests, Filled, FillsIn,
                Idle, RequestState, Step, ParentOp
<1>10. ASSUME NEW r \in Request, SeedInsert(r) PROVE TypeInv'
    BY <1>10 DEF SeedInsert, Tables, Requests, Filled, FillsIn,
                Idle, RequestState, Step, ParentOp
<1>11. ASSUME NEW r \in Request, GetSessionByToken(r) PROVE TypeInv'
    BY <1>11 DEF GetSessionByToken, Tables, Requests, Filled, FillsIn,
                Idle, RequestState, Step, ParentOp
<1>12. ASSUME NEW r \in Request, GetUserByID(r) PROVE TypeInv'
    BY <1>12 DEF GetUserByID, Tables, Requests, Filled, FillsIn,
                Idle, RequestState, Step, ParentOp
<1>13. ASSUME NEW r \in Request, CreateChild(r) PROVE TypeInv'
    <2>1. req[r] \in RequestState /\ FillsIn(req[r])
        BY DEF Requests, Filled
    <2>2. Tables'
        BY <1>13, <2>1 DEF CreateChild, SetPin, Tables, RequestState, FillsIn
    <2>3. Requests'
        BY <1>13, <2>1, PinSet, Given, IdleState DEF CreateChild, RequestState, FillsIn
    <2>4. QED
        BY <2>2, <2>3
<1>14. ASSUME NEW r \in Request, GetChild(r) PROVE TypeInv'
    <2>1. /\ req[r] \in RequestState /\ FillsIn(req[r]) /\ req[r].pc = "getChild"
          /\ req[r].op \in ParentOp
        BY <1>14 DEF GetChild, Requests, Filled, RequestState
    <2>2. req'[r] \in RequestState
        BY <1>14, ChildRead DEF Reads
    <2>3. FillsIn(req'[r])
        BY <1>14, <2>1, ChildRead DEF Idle, FillsIn, SameStart
    <2>4. req' = [req EXCEPT ![r] = req'[r]] /\ UNCHANGED holder
        BY <1>14, ChildRead DEF Reads
    <2>5. Tables'
        BY <1>14, ChildRead DEF Tables, Reads
    <2>6. QED
        BY <2>2, <2>3, <2>4, <2>5, Given
<1>15. ASSUME NEW r \in Request, UpdateChild(r) PROVE TypeInv'
    <2>1. req[r] \in RequestState /\ FillsIn(req[r])
        BY DEF Requests, Filled
    <2>2. Tables'
        BY <1>15, <2>1 DEF UpdateChild, SetPin, Tables, RequestState, FillsIn
    <2>3. Requests'
        BY <1>15, <2>1, PinSet, Given, IdleState DEF UpdateChild, RequestState, FillsIn
    <2>4. QED
        BY <2>2, <2>3
<1>16. ASSUME NEW r \in Request, DeleteChild(r) PROVE TypeInv'
    BY <1>16 DEF DeleteChild, Tables, Requests, Filled, FillsIn,
                Idle, RequestState, Step, ParentOp
<1>17. ASSUME NEW r \in Request, VerifyChildPIN(r) PROVE TypeInv'
    BY <1>17 DEF VerifyChildPIN, Tables, Requests, Filled, FillsIn,
                Idle, RequestState, Step, ParentOp
<1>18. ASSUME NEW r \in Request, CreateChildSession(r) PROVE TypeInv'
    BY <1>18 DEF CreateChildSession, Tables, Requests, Filled, FillsIn,
                Idle, RequestState, Step, ParentOp, OpenSession
<1>19. ASSUME NEW r \in Request, GetChildByToken(r) PROVE TypeInv'
    BY <1>19 DEF GetChildByToken, Tables, Requests, Filled, FillsIn,
                Idle, RequestState, Step, ParentOp
<1>20. ASSUME NEW r \in Request, RecordPlayResult(r) PROVE TypeInv'
    BY <1>20 DEF RecordPlayResult, Tables, Requests, Filled, FillsIn,
                Idle, RequestState, Step, ParentOp
<1>21. ASSUME NEW r \in Request, Abort(r) PROVE TypeInv'
    BY <1>21 DEF Abort, Tables, Requests, Filled, FillsIn,
                Idle, RequestState, Step, ParentOp
<1>22. ASSUME NEW t \in Token, HandleLogout(t) PROVE TypeInv'
    BY <1>22 DEF HandleLogout, Tables, Requests, Filled, FillsIn,
                Idle, RequestState, Step, ParentOp
<1>23. ASSUME NEW e \in Email, Block(e) PROVE TypeInv'
    BY <1>23 DEF Block, Tables, Requests, Filled, FillsIn,
                Idle, RequestState, Step, ParentOp
<1>24. CASE UNCHANGED vars
    BY <1>24 DEF vars, Tables, Requests, Filled, FillsIn,
                Idle, RequestState, Step, ParentOp
<1>25. QED
    BY <1>1, <1>2, <1>3, <1>4, <1>5, <1>6, <1>7, <1>8, <1>9, <1>10, <1>11, <1>12, <1>13, <1>14, <1>15, <1>16, <1>17, <1>18, <1>19, <1>20, <1>21, <1>22, <1>23, <1>24
    DEF Next, StartOf, StepOf, ParentOp

LEMMA Typed == TypeInv => TypeOK
BY DEF TypeInv, Tables, Requests, TypeOK

LEMMA TypeIsInvariant == Spec => []TypeInv
BY TypeInit, TypeStep, PTL DEF Spec

(* The variables of Accounts have their types, for any number of requests. *)
THEOREM TypeCorrect == Spec => []TypeOK
BY TypeIsInvariant, Typed, PTL

(***************************************************************************)
(* Layer 2: a token not given out has no row, and whose password a session *)
(* about to be opened was compared with.                                   *)
(***************************************************************************)
Unissued == \A t \in Token : holder[t] = None => t \notin live

Compared ==
    \A r \in Request : req[r].pc = "openSession" => password[req[r].email] = req[r].secret

PasswordInv == Unissued /\ Compared /\ SessionsNeedPassword

LEMMA PasswordInit == Init => PasswordInv
BY DEF Init, PasswordInv, Unissued, Compared, SessionsNeedPassword, Idle

LEMMA PasswordStep ==
    ASSUME TypeInv, PasswordInv, [Next]_vars
    PROVE  PasswordInv'
<1> USE DEF TypeInv, Tables, Requests, Filled, FillsIn, RequestState,
           PasswordInv, Unissued, Compared, SessionsNeedPassword, Idle, OpenSession, SetPin
<1>1. ASSUME NEW r \in Request, NEW e \in Email, NEW s \in Secret,
             HandleRegister(r, e, s)
      PROVE  PasswordInv'
    BY <1>1 DEF HandleRegister
<1>2. ASSUME NEW r \in Request, NEW e \in Email, NEW s \in Secret,
             HandleLogin(r, e, s)
      PROVE  PasswordInv'
    BY <1>2 DEF HandleLogin
<1>3. ASSUME NEW r \in Request,
             SeedAdmin(r)
      PROVE  PasswordInv'
    BY <1>3 DEF SeedAdmin
<1>4. ASSUME NEW r \in Request, NEW t \in Token, NEW op \in ParentOp, NEW c \in Child \cup {None},
             NEW s \in Secret \cup {None}, op = "create" \/ c \in Child,
             HandleParent(r, t, op, c, s)
      PROVE  PasswordInv'
    BY <1>4 DEF HandleParent
<1>5. ASSUME NEW r \in Request, NEW c \in Child, NEW s \in Secret,
             HandleChildAuth(r, c, s)
      PROVE  PasswordInv'
    BY <1>5 DEF HandleChildAuth
<1>6. ASSUME NEW r \in Request, NEW t \in Token,
             HandlePlayComplete(r, t)
      PROVE  PasswordInv'
    BY <1>6 DEF HandlePlayComplete
<1>7. ASSUME NEW r \in Request, CreateSession(r) PROVE PasswordInv'
    BY <1>7 DEF CreateSession
<1>8. ASSUME NEW r \in Request, GetUserByEmail(r) PROVE PasswordInv'
    <2>1. /\ UNCHANGED <<accounts, sessions, children>>
          /\ \A x \in Request \ {r} : req'[x] = req[x]
        BY <1>8, UserRead DEF Reads
    <2>2. req'[r].pc = "openSession" => password[req'[r].email] = req'[r].secret
        BY <1>8, UserRead DEF SameStart, Idle
    <2>3. QED
        BY <2>1, <2>2
<1>9. ASSUME NEW r \in Request, Refused(r) PROVE PasswordInv'
    BY <1>9 DEF Refused
<1>10. ASSUME NEW r \in Request, SeedInsert(r) PROVE PasswordInv'
    BY <1>10 DEF SeedInsert
<1>11. ASSUME NEW r \in Request, GetSessionByToken(r) PROVE PasswordInv'
    BY <1>11 DEF GetSessionByToken
<1>12. ASSUME NEW r \in Request, GetUserByID(r) PROVE PasswordInv'
    BY <1>12 DEF GetUserByID
<1>13. ASSUME NEW r \in Request, CreateChild(r) PROVE PasswordInv'
    BY <1>13 DEF CreateChild
<1>14. ASSUME NEW r \in Request, GetChild(r) PROVE PasswordInv'
    <2>1. /\ UNCHANGED <<accounts, sessions, children>>
          /\ \A x \in Request \ {r} : req'[x] = req[x]
        BY <1>14, ChildRead DEF Reads
    <2>2. req'[r].pc \in ParentOp \cup {"idle"}
        BY <1>14, ChildRead DEF SameStart, Idle
    <2>3. QED
        BY <2>1, <2>2 DEF ParentOp
<1>15. ASSUME NEW r \in Request, UpdateChild(r) PROVE PasswordInv'
    BY <1>15 DEF UpdateChild
<1>16. ASSUME NEW r \in Request, DeleteChild(r) PROVE PasswordInv'
    BY <1>16 DEF DeleteChild
<1>17. ASSUME NEW r \in Request, VerifyChildPIN(r) PROVE PasswordInv'
    BY <1>17 DEF VerifyChildPIN
<1>18. ASSUME NEW r \in Request, CreateChildSession(r) PROVE PasswordInv'
    BY <1>18 DEF CreateChildSession
<1>19. ASSUME NEW r \in Request, GetChildByToken(r) PROVE PasswordInv'
    <2>1. /\ UNCHANGED <<accounts, sessions, children>>
          /\ \A x \in Request \ {r} : req'[x] = req[x]
        BY <1>19, ChildTokenRead DEF Reads
    <2>2. req'[r].pc \in {"idle", "record"}
        BY <1>19, ChildTokenRead DEF SameStart, Idle
    <2>3. QED
        BY <2>1, <2>2
<1>20. ASSUME NEW r \in Request, RecordPlayResult(r) PROVE PasswordInv'
    BY <1>20 DEF RecordPlayResult
<1>21. ASSUME NEW r \in Request, Abort(r) PROVE PasswordInv'
    BY <1>21 DEF Abort
<1>22. ASSUME NEW t \in Token, HandleLogout(t) PROVE PasswordInv'
    BY <1>22 DEF HandleLogout
<1>23. ASSUME NEW e \in Email, Block(e) PROVE PasswordInv'
    BY <1>23 DEF Block
<1>24. CASE UNCHANGED vars
    BY <1>24 DEF vars
<1>25. QED
    BY <1>1, <1>2, <1>3, <1>4, <1>5, <1>6, <1>7, <1>8, <1>9, <1>10, <1>11, <1>12, <1>13, <1>14, <1>15, <1>16, <1>17, <1>18, <1>19, <1>20, <1>21, <1>22, <1>23, <1>24
    DEF Next, StartOf, StepOf, ParentOp

LEMMA PasswordIsInvariant == Spec => []PasswordInv
BY TypeIsInvariant, PasswordInit, PasswordStep, PTL DEF Spec

(* A user's session was opened with that user's password.                  *)
THEOREM SessionsHavePasswords == Spec => []SessionsNeedPassword
BY PasswordIsInvariant, PTL DEF PasswordInv

(***************************************************************************)
(* Layer 3: how far a request gets whose token was dead from the start.    *)
(***************************************************************************)
Dead ==
    \A r \in Request : req[r].late = "yes" =>
        /\ req[r].pc \in {"getSession", "getUserByID", "childByToken"}
        /\ req[r].pc = "getSession" =>
             req[r].token \notin live \/ holder[req[r].token] \in blocked
        /\ req[r].pc = "getUserByID" => req[r].email \in blocked
        /\ req[r].pc = "childByToken" => req[r].token \notin live

LEMMA DeadInit == Init => Dead
BY DEF Init, Dead, Idle

LEMMA DeadStep ==
    ASSUME TypeInv, PasswordInv, Dead, [Next]_vars
    PROVE  Dead'
<1> USE DEF TypeInv, Tables, Requests, Filled, FillsIn, RequestState,
           PasswordInv, Unissued, Dead, Idle, OpenSession, SetPin, YesIf
<1>1. ASSUME NEW r \in Request, NEW e \in Email, NEW s \in Secret,
             HandleRegister(r, e, s)
      PROVE  Dead'
    BY <1>1 DEF HandleRegister
<1>2. ASSUME NEW r \in Request, NEW e \in Email, NEW s \in Secret,
             HandleLogin(r, e, s)
      PROVE  Dead'
    BY <1>2 DEF HandleLogin
<1>3. ASSUME NEW r \in Request,
             SeedAdmin(r)
      PROVE  Dead'
    BY <1>3 DEF SeedAdmin
<1>4. ASSUME NEW r \in Request, NEW t \in Token, NEW op \in ParentOp, NEW c \in Child \cup {None},
             NEW s \in Secret \cup {None}, op = "create" \/ c \in Child,
             HandleParent(r, t, op, c, s)
      PROVE  Dead'
    BY <1>4 DEF HandleParent
<1>5. ASSUME NEW r \in Request, NEW c \in Child, NEW s \in Secret,
             HandleChildAuth(r, c, s)
      PROVE  Dead'
    BY <1>5 DEF HandleChildAuth
<1>6. ASSUME NEW r \in Request, NEW t \in Token,
             HandlePlayComplete(r, t)
      PROVE  Dead'
    BY <1>6 DEF HandlePlayComplete
<1>7. ASSUME NEW r \in Request, CreateSession(r) PROVE Dead'
    BY <1>7 DEF CreateSession
<1>8. ASSUME NEW r \in Request, GetUserByEmail(r) PROVE Dead'
    BY <1>8 DEF GetUserByEmail
<1>9. ASSUME NEW r \in Request, Refused(r) PROVE Dead'
    BY <1>9 DEF Refused
<1>10. ASSUME NEW r \in Request, SeedInsert(r) PROVE Dead'
    BY <1>10 DEF SeedInsert
<1>11. ASSUME NEW r \in Request, GetSessionByToken(r) PROVE Dead'
    <2>1. /\ UNCHANGED <<accounts, sessions, children>>
          /\ \A x \in Request \ {r} : req'[x] = req[x]
        BY <1>11, SessionRead DEF Reads
    <2>2. req[r].pc = "getSession"
        BY <1>11 DEF GetSessionByToken
    <2>3. req'[r].late = "yes" => req'[r].pc = "getUserByID" /\ req'[r].email \in blocked
        BY <1>11, <2>2, SessionRead DEF SameStart, Idle
    <2>4. QED
        BY <2>1, <2>3
<1>12. ASSUME NEW r \in Request, GetUserByID(r) PROVE Dead'
    BY <1>12 DEF GetUserByID
<1>13. ASSUME NEW r \in Request, CreateChild(r) PROVE Dead'
    BY <1>13 DEF CreateChild
<1>14. ASSUME NEW r \in Request, GetChild(r) PROVE Dead'
    <2>1. /\ UNCHANGED <<accounts, sessions, children>>
          /\ \A x \in Request \ {r} : req'[x] = req[x]
        BY <1>14, ChildRead DEF Reads
    <2>2. req[r].late # "yes"
        BY <1>14 DEF GetChild
    <2>3. req'[r].late # "yes"
        BY <1>14, <2>2, ChildRead DEF SameStart, Idle
    <2>4. QED
        BY <2>1, <2>3
<1>15. ASSUME NEW r \in Request, UpdateChild(r) PROVE Dead'
    BY <1>15 DEF UpdateChild
<1>16. ASSUME NEW r \in Request, DeleteChild(r) PROVE Dead'
    BY <1>16 DEF DeleteChild
<1>17. ASSUME NEW r \in Request, VerifyChildPIN(r) PROVE Dead'
    BY <1>17 DEF VerifyChildPIN
<1>18. ASSUME NEW r \in Request, CreateChildSession(r) PROVE Dead'
    BY <1>18 DEF CreateChildSession
<1>19. ASSUME NEW r \in Request, GetChildByToken(r) PROVE Dead'
    <2>1. /\ UNCHANGED <<accounts, sessions, children>>
          /\ \A x \in Request \ {r} : req'[x] = req[x]
        BY <1>19, ChildTokenRead DEF Reads
    <2>2. req[r].pc = "childByToken"
        BY <1>19 DEF GetChildByToken
    <2>3. req'[r].late # "yes"
        BY <1>19, <2>2, ChildTokenRead DEF SameStart, Idle
    <2>4. QED
        BY <2>1, <2>3
<1>20. ASSUME NEW r \in Request, RecordPlayResult(r) PROVE Dead'
    BY <1>20 DEF RecordPlayResult
<1>21. ASSUME NEW r \in Request, Abort(r) PROVE Dead'
    BY <1>21 DEF Abort
<1>22. ASSUME NEW t \in Token, HandleLogout(t) PROVE Dead'
    BY <1>22 DEF HandleLogout
<1>23. ASSUME NEW e \in Email, Block(e) PROVE Dead'
    BY <1>23 DEF Block
<1>24. CASE UNCHANGED vars
    BY <1>24 DEF vars
<1>25. QED
    BY <1>1, <1>2, <1>3, <1>4, <1>5, <1>6, <1>7, <1>8, <1>9, <1>10, <1>11, <1>12, <1>13, <1>14, <1>15, <1>16, <1>17, <1>18, <1>19, <1>20, <1>21, <1>22, <1>23, <1>24
    DEF Next, StartOf, StepOf, ParentOp

LEMMA DeadIsInvariant == Spec => []Dead
BY TypeIsInvariant, PasswordIsInvariant, DeadInit, DeadStep, PTL DEF Spec

(* A token that is dead when a request begins opens no handler.            *)
THEOREM DeadTokensStayDead == Spec => []DeadTokensOpenNothing
<1>1. Dead => DeadTokensOpenNothing
    BY DEF Dead, DeadTokensOpenNothing
<1>2. QED
    BY <1>1, DeadIsInvariant, PTL

(***************************************************************************)
(* Layer 4: children.  An id is given out once, so whoever was found to    *)
(* own a child still owns it or it is gone; what hangs on a child is gone  *)
(* with it; a PIN login has seen every PIN of its child since it began.    *)
(***************************************************************************)
BornOnce == \A c \in Child : parent[c] # None => c \in born

Owned ==
    \A r \in Request : req[r].pc \in {"update", "delete"} =>
        req[r].child \in born /\ parent[req[r].child] \in {req[r].email, None}

PinsSeen ==
    \A r \in Request : req[r].pc \in {"verify", "openChild"} =>
        /\ req[r].child \in born
        /\ parent[req[r].child] # None => pin[req[r].child] \in req[r].had
        /\ req[r].pc = "openChild" => req[r].secret \in req[r].had

ChildInv == BornOnce /\ Owned /\ NothingOfADeletedChild /\ PinsSeen

LEMMA ChildInit == Init => ChildInv
BY DEF Init, ChildInv, BornOnce, Owned, NothingOfADeletedChild, PinsSeen, Idle

LEMMA ChildStep ==
    ASSUME TypeInv, PasswordInv, ChildInv, [Next]_vars
    PROVE  ChildInv'
<1> USE DEF TypeInv, Tables, Requests, Filled, FillsIn, RequestState, PasswordInv, Unissued,
           ChildInv, BornOnce, Owned, NothingOfADeletedChild, PinsSeen, Idle, OpenSession, SetPin
<1>1. ASSUME NEW r \in Request, NEW e \in Email, NEW s \in Secret,
             HandleRegister(r, e, s)
      PROVE  ChildInv'
    BY <1>1 DEF HandleRegister
<1>2. ASSUME NEW r \in Request, NEW e \in Email, NEW s \in Secret,
             HandleLogin(r, e, s)
      PROVE  ChildInv'
    BY <1>2 DEF HandleLogin
<1>3. ASSUME NEW r \in Request,
             SeedAdmin(r)
      PROVE  ChildInv'
    BY <1>3 DEF SeedAdmin
<1>4. ASSUME NEW r \in Request, NEW t \in Token, NEW op \in ParentOp, NEW c \in Child \cup {None},
             NEW s \in Secret \cup {None}, op = "create" \/ c \in Child,
             HandleParent(r, t, op, c, s)
      PROVE  ChildInv'
    BY <1>4 DEF HandleParent
<1>5. ASSUME NEW r \in Request, NEW c \in Child, NEW s \in Secret,
             HandleChildAuth(r, c, s)
      PROVE  ChildInv'
    BY <1>5 DEF HandleChildAuth
<1>6. ASSUME NEW r \in Request, NEW t \in Token,
             HandlePlayComplete(r, t)
      PROVE  ChildInv'
    BY <1>6 DEF HandlePlayComplete
<1>7. ASSUME NEW r \in Request, CreateSession(r) PROVE ChildInv'
    BY <1>7 DEF CreateSession
<1>8. ASSUME NEW r \in Request, GetUserByEmail(r) PROVE ChildInv'
    <2>1. /\ UNCHANGED <<accounts, sessions, children>>
          /\ \A x \in Request \ {r} : req'[x] = req[x]
        BY <1>8, UserRead DEF Reads
    <2>2. req'[r].pc \in {"idle", "refused", "openSession"}
        BY <1>8, UserRead DEF SameStart, Idle
    <2>3. QED
        BY <2>1, <2>2
<1>9. ASSUME NEW r \in Request, Refused(r) PROVE ChildInv'
    BY <1>9 DEF Refused
<1>10. ASSUME NEW r \in Request, SeedInsert(r) PROVE ChildInv'
    BY <1>10 DEF SeedInsert
<1>11. ASSUME NEW r \in Request, GetSessionByToken(r) PROVE ChildInv'
    <2>1. /\ UNCHANGED <<accounts, sessions, children>>
          /\ \A x \in Request \ {r} : req'[x] = req[x]
        BY <1>11, SessionRead DEF Reads
    <2>2. req'[r].pc \in {"idle", "getUserByID"}
        BY <1>11, SessionRead DEF SameStart, Idle
    <2>3. QED
        BY <2>1, <2>2
<1>12. ASSUME NEW r \in Request, GetUserByID(r) PROVE ChildInv'
    BY <1>12 DEF GetUserByID
<1>13. ASSUME NEW r \in Request, CreateChild(r) PROVE ChildInv'
    BY <1>13 DEF CreateChild
<1>14. ASSUME NEW r \in Request, GetChild(r) PROVE ChildInv'
    <2>1. /\ UNCHANGED <<accounts, sessions, children>>
          /\ \A x \in Request \ {r} : req'[x] = req[x]
        BY <1>14, ChildRead DEF Reads
    <2>2. req[r].pc = "getChild" /\ req[r].child \in Child /\ req[r].email # None
        BY <1>14 DEF GetChild
    <2>3. /\ req'[r].pc \in {"idle", "update", "delete"}
          /\ req'[r].pc # "idle" => /\ req'[r].email = req[r].email
                                   /\ req'[r].child = req[r].child
                                   /\ parent[req[r].child] = req[r].email
        BY <1>14, ChildRead
    <2>4. Owned'
        BY <2>1, <2>2, <2>3
    <2>5. BornOnce' /\ NothingOfADeletedChild'
        BY <2>1
    <2>6. PinsSeen'
        BY <2>1, <2>3
    <2>7. QED
        BY <2>4, <2>5, <2>6
<1>15. ASSUME NEW r \in Request, UpdateChild(r) PROVE ChildInv'
    BY <1>15 DEF UpdateChild
<1>16. ASSUME NEW r \in Request, DeleteChild(r) PROVE ChildInv'
    BY <1>16 DEF DeleteChild
<1>17. ASSUME NEW r \in Request, VerifyChildPIN(r) PROVE ChildInv'
    BY <1>17 DEF VerifyChildPIN
<1>18. ASSUME NEW r \in Request, CreateChildSession(r) PROVE ChildInv'
    BY <1>18 DEF CreateChildSession
<1>19. ASSUME NEW r \in Request, GetChildByToken(r) PROVE ChildInv'
    BY <1>19 DEF GetChildByToken
<1>20. ASSUME NEW r \in Request, RecordPlayResult(r) PROVE ChildInv'
    BY <1>20 DEF RecordPlayResult
<1>21. ASSUME NEW r \in Request, Abort(r) PROVE ChildInv'
    BY <1>21 DEF Abort
<1>22. ASSUME NEW t \in Token, HandleLogout(t) PROVE ChildInv'
    BY <1>22 DEF HandleLogout
<1>23. ASSUME NEW e \in Email, Block(e) PROVE ChildInv'
    BY <1>23 DEF Block
<1>24. CASE UNCHANGED vars
    BY <1>24 DEF vars
<1>25. QED
    BY <1>1, <1>2, <1>3, <1>4, <1>5, <1>6, <1>7, <1>8, <1>9, <1>10, <1>11, <1>12, <1>13, <1>14, <1>15, <1>16, <1>17, <1>18, <1>19, <1>20, <1>21, <1>22, <1>23, <1>24
    DEF Next, StartOf, StepOf, ParentOp

LEMMA ChildIsInvariant == Spec => []ChildInv
BY TypeIsInvariant, PasswordIsInvariant, ChildInit, ChildStep, PTL DEF Spec

(* Whoever is about to write a child still owns it, or it is gone.         *)
THEOREM OwnersWrite == Spec => []OnlyOwnersWrite
<1>1. ChildInv => OnlyOwnersWrite
    BY DEF ChildInv, Owned, OnlyOwnersWrite
<1>2. QED
    BY <1>1, ChildIsInvariant, PTL

(* No session and no result of a child outlives it or is added later.      *)
THEOREM DeletedChildrenAreGone == Spec => []NothingOfADeletedChild
BY ChildIsInvariant, PTL DEF ChildInv

(* A child's session is opened for a PIN it has had since the login began. *)
THEOREM PinsAreCurrent == Spec => []PinLoginsAreCurrent
<1>1. ChildInv => PinLoginsAreCurrent
    BY DEF ChildInv, PinsSeen, PinLoginsAreCurrent, At
<1>2. QED
    BY <1>1, ChildIsInvariant, PTL

(***************************************************************************)
(* Layer 5: a login that began with the user's own password, in a database *)
(* that has the column blocked; and rows of users, which no statement      *)
(* writes a second time.                                                   *)
(***************************************************************************)
InLowerCase == \A e \in Email : password[e] # None => Lower[e] = e

Knowing ==
    /\ InLowerCase
    /\ \A r \in Request : req[r].knew = "yes" =>
        /\ req[r].pc = "refused" => req[r].failed = "yes"
        /\ req[r].pc = "getUser" => password[req[r].email] = req[r].secret

LEMMA KnowingInit == Init => Knowing
BY DEF Init, Knowing, InLowerCase, Idle

LEMMA KnowingStep ==
    ASSUME HasBlocked, Lower[SeedEmail] = SeedEmail, TypeInv, Knowing, [Next]_vars
    PROVE  Knowing'
<1> USE DEF TypeInv, Tables, Requests, Filled, FillsIn, RequestState,
           Knowing, InLowerCase, Idle, OpenSession, SetPin, YesIf
<1>1. ASSUME NEW r \in Request, NEW e \in Email, NEW s \in Secret,
             HandleRegister(r, e, s)
      PROVE  Knowing'
    BY <1>1 DEF HandleRegister
<1>2. ASSUME NEW r \in Request, NEW e \in Email, NEW s \in Secret,
             HandleLogin(r, e, s)
      PROVE  Knowing'
    BY <1>2 DEF HandleLogin, Knows
<1>3. ASSUME NEW r \in Request,
             SeedAdmin(r)
      PROVE  Knowing'
    BY <1>3 DEF SeedAdmin
<1>4. ASSUME NEW r \in Request, NEW t \in Token, NEW op \in ParentOp, NEW c \in Child \cup {None},
             NEW s \in Secret \cup {None}, op = "create" \/ c \in Child,
             HandleParent(r, t, op, c, s)
      PROVE  Knowing'
    BY <1>4 DEF HandleParent
<1>5. ASSUME NEW r \in Request, NEW c \in Child, NEW s \in Secret,
             HandleChildAuth(r, c, s)
      PROVE  Knowing'
    BY <1>5 DEF HandleChildAuth
<1>6. ASSUME NEW r \in Request, NEW t \in Token,
             HandlePlayComplete(r, t)
      PROVE  Knowing'
    BY <1>6 DEF HandlePlayComplete
<1>7. ASSUME NEW r \in Request, CreateSession(r) PROVE Knowing'
    BY <1>7 DEF CreateSession
<1>8. ASSUME NEW r \in Request, GetUserByEmail(r) PROVE Knowing'
    <2>1. /\ UNCHANGED <<accounts, sessions, children>>
          /\ \A x \in Request \ {r} : req'[x] = req[x]
        BY <1>8, UserRead DEF Reads
    <2>2. req[r].pc = "getUser" /\ req[r].secret # None
        BY <1>8 DEF GetUserByEmail
    <2>3. req'[r].pc # "getUser"
        BY <1>8, UserRead DEF SameStart, Idle
    <2>4. req'[r].knew = "yes" /\ req'[r].pc = "refused" => req'[r].failed = "yes"
        BY <1>8, <2>2, UserRead DEF SameStart, Idle
    <2>5. QED
        BY <2>1, <2>3, <2>4
<1>9. ASSUME NEW r \in Request, Refused(r) PROVE Knowing'
    BY <1>9 DEF Refused
<1>10. ASSUME NEW r \in Request, SeedInsert(r) PROVE Knowing'
    BY <1>10 DEF SeedInsert
<1>11. ASSUME NEW r \in Request, GetSessionByToken(r) PROVE Knowing'
    <2>1. \A q \in Request \ {r} : req'[q] = req[q]
        BY <1>11 DEF GetSessionByToken
    <2>2. req'[r].pc \in {"idle", "getUserByID"}
        BY <1>11 DEF GetSessionByToken
    <2>3. req'[r].knew = "yes" => req[r].knew = "yes"
        BY <1>11 DEF GetSessionByToken
    <2>4. QED
        BY <1>11, <2>1, <2>2, <2>3 DEF GetSessionByToken
<1>12. ASSUME NEW r \in Request, GetUserByID(r) PROVE Knowing'
    BY <1>12 DEF GetUserByID
<1>13. ASSUME NEW r \in Request, CreateChild(r) PROVE Knowing'
    BY <1>13 DEF CreateChild
<1>14. ASSUME NEW r \in Request, GetChild(r) PROVE Knowing'
    BY <1>14 DEF GetChild, ParentOp
<1>15. ASSUME NEW r \in Request, UpdateChild(r) PROVE Knowing'
    BY <1>15 DEF UpdateChild
<1>16. ASSUME NEW r \in Request, DeleteChild(r) PROVE Knowing'
    BY <1>16 DEF DeleteChild
<1>17. ASSUME NEW r \in Request, VerifyChildPIN(r) PROVE Knowing'
    BY <1>17 DEF VerifyChildPIN
<1>18. ASSUME NEW r \in Request, CreateChildSession(r) PROVE Knowing'
    BY <1>18 DEF CreateChildSession
<1>19. ASSUME NEW r \in Request, GetChildByToken(r) PROVE Knowing'
    <2>1. \A q \in Request \ {r} : req'[q] = req[q]
        BY <1>19 DEF GetChildByToken
    <2>2. req'[r].pc \in {"idle", "record"}
        BY <1>19 DEF GetChildByToken
    <2>3. req'[r].knew = "yes" => req[r].knew = "yes"
        BY <1>19 DEF GetChildByToken
    <2>4. QED
        BY <1>19, <2>1, <2>2, <2>3 DEF GetChildByToken
<1>20. ASSUME NEW r \in Request, RecordPlayResult(r) PROVE Knowing'
    BY <1>20 DEF RecordPlayResult
<1>21. ASSUME NEW r \in Request, Abort(r) PROVE Knowing'
    BY <1>21 DEF Abort
<1>22. ASSUME NEW t \in Token, HandleLogout(t) PROVE Knowing'
    BY <1>22 DEF HandleLogout
<1>23. ASSUME NEW e \in Email, Block(e) PROVE Knowing'
    BY <1>23 DEF Block
<1>24. CASE UNCHANGED vars
    BY <1>24 DEF vars
<1>25. QED
    BY <1>1, <1>2, <1>3, <1>4, <1>5, <1>6, <1>7, <1>8, <1>9, <1>10, <1>11, <1>12, <1>13, <1>14, <1>15, <1>16, <1>17, <1>18, <1>19, <1>20, <1>21, <1>22, <1>23, <1>24
    DEF Next, StartOf, StepOf, ParentOp

(* With the column blocked in the table, and an administrator seeded with a *)
(* lower-case e-mail, a login with the right password is answered "invalid  *)
(* email or password" only when the database failed it.                     *)
THEOREM RefusalsAreJust ==
    ASSUME HasBlocked, Lower[SeedEmail] = SeedEmail
    PROVE  Spec => []RefusalIsJust
<1>1. Knowing => RefusalIsJust
    BY DEF Knowing, RefusalIsJust, At
<1>2. QED
    BY <1>1, TypeIsInvariant, KnowingInit, KnowingStep, PTL DEF Spec

RowsKept ==
    \A e \in Email : password[e] # None =>
        password'[e] = password[e] /\ (e \in admins' <=> e \in admins)

LEMMA AccountsStep ==
    ASSUME TypeInv, [Next]_vars
    PROVE  RowsKept
<1> USE DEF TypeInv, Tables, RowsKept, OpenSession, SetPin
<1>1. ASSUME NEW r \in Request, NEW e \in Email, NEW s \in Secret,
             HandleRegister(r, e, s)
      PROVE  RowsKept
    BY <1>1 DEF HandleRegister
<1>2. ASSUME NEW r \in Request, NEW e \in Email, NEW s \in Secret,
             HandleLogin(r, e, s)
      PROVE  RowsKept
    BY <1>2 DEF HandleLogin
<1>3. ASSUME NEW r \in Request,
             SeedAdmin(r)
      PROVE  RowsKept
    BY <1>3 DEF SeedAdmin
<1>4. ASSUME NEW r \in Request, NEW t \in Token, NEW op \in ParentOp, NEW c \in Child \cup {None},
             NEW s \in Secret \cup {None}, op = "create" \/ c \in Child,
             HandleParent(r, t, op, c, s)
      PROVE  RowsKept
    BY <1>4 DEF HandleParent
<1>5. ASSUME NEW r \in Request, NEW c \in Child, NEW s \in Secret,
             HandleChildAuth(r, c, s)
      PROVE  RowsKept
    BY <1>5 DEF HandleChildAuth
<1>6. ASSUME NEW r \in Request, NEW t \in Token,
             HandlePlayComplete(r, t)
      PROVE  RowsKept
    BY <1>6 DEF HandlePlayComplete
<1>7. ASSUME NEW r \in Request, CreateSession(r) PROVE RowsKept
    BY <1>7 DEF CreateSession
<1>8. ASSUME NEW r \in Request, GetUserByEmail(r) PROVE RowsKept
    BY <1>8 DEF GetUserByEmail
<1>9. ASSUME NEW r \in Request, Refused(r) PROVE RowsKept
    BY <1>9 DEF Refused
<1>10. ASSUME NEW r \in Request, SeedInsert(r) PROVE RowsKept
    BY <1>10 DEF SeedInsert
<1>11. ASSUME NEW r \in Request, GetSessionByToken(r) PROVE RowsKept
    BY <1>11 DEF GetSessionByToken
<1>12. ASSUME NEW r \in Request, GetUserByID(r) PROVE RowsKept
    BY <1>12 DEF GetUserByID
<1>13. ASSUME NEW r \in Request, CreateChild(r) PROVE RowsKept
    BY <1>13 DEF CreateChild
<1>14. ASSUME NEW r \in Request, GetChild(r) PROVE RowsKept
    BY <1>14 DEF GetChild
<1>15. ASSUME NEW r \in Request, UpdateChild(r) PROVE RowsKept
    BY <1>15 DEF UpdateChild
<1>16. ASSUME NEW r \in Request, DeleteChild(r) PROVE RowsKept
    BY <1>16 DEF DeleteChild
<1>17. ASSUME NEW r \in Request, VerifyChildPIN(r) PROVE RowsKept
    BY <1>17 DEF VerifyChildPIN
<1>18. ASSUME NEW r \in Request, CreateChildSession(r) PROVE RowsKept
    BY <1>18 DEF CreateChildSession
<1>19. ASSUME NEW r \in Request, GetChildByToken(r) PROVE RowsKept
    BY <1>19 DEF GetChildByToken
<1>20. ASSUME NEW r \in Request, RecordPlayResult(r) PROVE RowsKept
    BY <1>20 DEF RecordPlayResult
<1>21. ASSUME NEW r \in Request, Abort(r) PROVE RowsKept
    BY <1>21 DEF Abort
<1>22. ASSUME NEW t \in Token, HandleLogout(t) PROVE RowsKept
    BY <1>22 DEF HandleLogout
<1>23. ASSUME NEW e \in Email, Block(e) PROVE RowsKept
    BY <1>23 DEF Block
<1>24. CASE UNCHANGED vars
    BY <1>24 DEF vars
<1>25. QED
    BY <1>1, <1>2, <1>3, <1>4, <1>5, <1>6, <1>7, <1>8, <1>9, <1>10, <1>11, <1>12, <1>13, <1>14, <1>15, <1>16, <1>17, <1>18, <1>19, <1>20, <1>21, <1>22, <1>23, <1>24
    DEF Next, StartOf, StepOf, ParentOp

(* A row of users keeps its password and its role.                         *)
THEOREM AccountsKept == Spec => AccountsStay
<1>1. TypeInv /\ [Next]_vars => [RowsKept]_vars
    BY AccountsStep
<1>2. Spec => [][RowsKept]_vars
    BY <1>1, TypeIsInvariant, PTL DEF Spec
<1>3. QED
    BY <1>2, PTL DEF RowsKept, AccountsStay
=============================================================================
