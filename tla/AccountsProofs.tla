--------------------------- MODULE AccountsProofs ---------------------------
(***************************************************************************)
(* Proofs about Accounts for any set of calls, emails, usernames and       *)
(* passwords, any reading of passwords by bcrypt, any number of faults and *)
(* either DSN.                                                             *)
(***************************************************************************)
EXTENDS Accounts, TLAPS

(***************************************************************************)
(* What a step does to the calls                                           *)
(***************************************************************************)

(* A call does not change once its handler has begun. *)
LEMMA CallsStay ==
  ASSUME TypeOK, [Next]_vars, NEW r \in Requests, pc[r] # "idle"
  PROVE  call'[r] = call[r] /\ pc'[r] # "idle"
PROOF
  <1> USE DEF TypeOK, Goto, Return, reqVars
  <1>1. ASSUME NEW s \in Requests, Handler(s) PROVE call'[r] = call[r] /\ pc'[r] # "idle"
    <2>1. CASE StartRegister(s) \/ StartGetToken(s) \/ StartValidate(s)
      BY <2>1 DEF StartRegister, StartGetToken, StartValidate, Start
    <2> QED
      BY <1>1, <2>1 DEF Handler, HashPassword, HashFails, Put, PutDuplicate, PutFails,
         PutUnacknowledged, Select, SelectFails, Compare, Validate
  <1>2. ASSUME NEW s \in Requests, PutLate(s) PROVE call'[r] = call[r] /\ pc'[r] # "idle"
    BY <1>2 DEF PutLate
  <1>3. ASSUME NEW t, Expire(t) PROVE call'[r] = call[r] /\ pc'[r] # "idle"
    BY <1>3 DEF Expire
  <1>4. CASE Crash
    BY <1>4 DEF Crash
  <1> QED
    BY <1>1, <1>2, <1>3, <1>4 DEF Next, AllAnswered, vars

(* The DSN does not change while the service lives, nor when it restarts.  *)
LEMMA DSNStays ==
  ASSUME [Next]_vars
  PROVE  parsesTime' = parsesTime
BY DEF Next, Handler, StartRegister, StartGetToken, StartValidate, Start, HashPassword, HashFails,
       Put, PutDuplicate, PutFails, PutUnacknowledged, PutLate, Select, SelectFails, Compare, Validate,
       Expire, Crash, AllAnswered, Disturb, envVars, vars

(* Hence a registration stays what it is, and so does what it has put. *)
LEMMA RegistersStay ==
  ASSUME IInv, [Next]_vars, NEW q \in Requests, call[q] \in Registers
  PROVE  call'[q] = call[q]
PROOF
  <1>1. pc[q] # "idle"
    BY DEF IInv, HandlersFit, NoCall, Registers
  <1> QED
    BY <1>1, CallsStay DEF IInv

LEMMA PutsStay ==
  ASSUME IInv, [Next]_vars, NEW q \in Requests, NEW u, Puts(q, u)
  PROVE  Puts(q, u)'
BY RegistersStay DEF Puts, Hash

LEMMA DeservedStays ==
  ASSUME IInv, [Next]_vars, NEW t, Deserved(t)
  PROVE  Deserved(t)'
PROOF
  <1>1. PICK q \in Requests : /\ call[q] \in Registers
                              /\ call[q].email = call[t.issued].email
                              /\ BcryptKey[call[q].password] = BcryptKey[call[t.issued].password]
                              /\ call[q].username = t.username
    BY DEF Deserved
  <1>2. t.issued \in Requests /\ call[t.issued] \in Logins /\ parsesTime'
    BY DSNStays DEF Deserved, Tokens
  <1>3. pc[t.issued] # "idle"
    BY <1>2 DEF IInv, HandlersFit, NoCall, Logins
  <1>4. call'[q] = call[q] /\ call'[t.issued] = call[t.issued]
    BY <1>1, <1>2, <1>3, RegistersStay, CallsStay DEF IInv
  <1> QED
    BY <1>1, <1>2, <1>4 DEF Deserved

(***************************************************************************)
(* Type correctness                                                        *)
(***************************************************************************)
LEMMA UserTyped ==
  ASSUME NEW r \in Requests, call[r] \in Registers
  PROVE  User(r) \in Rows
BY BcryptKeyAssumption DEF User, Hash, Rows, Hashes, Registers

LEMMA UpsertedTyped ==
  ASSUME users \subseteq Rows, NEW row \in Rows
  PROVE  Upserted(row) \subseteq Rows
BY DEF Upserted, Conflicts, Rows

LEMMA AnswersTyped ==
  /\ {Told("none", NoValue), OK(NoValue), Refused, Internal, Unavailable} \subseteq Answers
  /\ \A v \in Tokens \cup Usernames : OK(v) \in Answers
BY DEF Told, OK, Refused, Internal, Unavailable, Answers

LEMMA IssuedTyped ==
  ASSUME IInv
  PROVE  Issued \subseteq Tokens
PROOF
  <1> SUFFICES ASSUME NEW r \in Requests, LoggedIn(r) PROVE answer[r].val \in Tokens
    BY DEF Issued
  <1> QED
    BY DEF LoggedIn, IInv, TokensAreDeserved, Deserved

LEMMA DisturbTyped ==
  ASSUME TypeOK, NEW R \in SUBSET Requests, Disturb(R)
  PROVE  /\ faults' \in 0 .. MaxFaults /\ disturbed' \in SUBSET Requests
         /\ expired' = expired /\ parsesTime' = parsesTime
BY MaxFaultsAssumption DEF TypeOK, Disturb

LEMMA ReturnTyped ==
  ASSUME TypeOK, NEW r \in Requests, NEW a \in Answers, Return(r, a)
  PROVE  /\ pc' \in [Requests -> {"idle", "done", "parse"} \cup RegisterPcs \cup LoginPcs]
         /\ call' \in [Requests -> Calls]
         /\ found' \in [Requests -> Rows \cup {NoValue}]
         /\ answer' \in [Requests -> Answers]
BY DEF TypeOK, Return, Goto

(* A granted login has a token, a checked token a username. *)
LEMMA VerdictTyped ==
  ASSUME IInv, NEW r \in Requests, pc[r] = "compare"
  PROVE  Verdict(r) = Refused \/ (found[r] # NoValue /\ Token(r, found[r]) \in Tokens)
BY DEF Verdict, Token, Tokens, IInv, FoundAreWhole, Rows

LEMMA CheckTyped ==
  ASSUME IInv, NEW r \in Requests, pc[r] = "parse", call[r].token # NoValue
  PROVE  call[r].op = "validate" /\ call[r].token \in Tokens /\ call[r].token.username \in Usernames
BY DEF IInv, HandlersFit, Checks, Tokens

LEMMA TypeStep ==
  ASSUME IInv, [Next]_vars
  PROVE  TypeOK'
PROOF
  <1> USE DEF TypeOK, Goto, RegisterPcs, LoginPcs, dbVars, envVars
  <1>0. TypeOK /\ HandlersFit
    BY DEF IInv
  <1>1. ASSUME NEW r \in Requests, Handler(r) PROVE TypeOK'
    <2>1. CASE StartRegister(r)
      BY <1>0, <2>1 DEF StartRegister, Start, Calls
    <2>2. CASE StartGetToken(r)
      BY <1>0, <2>2 DEF StartGetToken, Start, Calls
    <2>3. CASE StartValidate(r)
      BY <1>0, <2>3, IssuedTyped DEF StartValidate, Start, Calls, Checks
    <2>4. CASE HashPassword(r)
      BY <1>0, <2>4 DEF HashPassword
    <2>5. CASE HashFails(r) \/ PutDuplicate(r)
      BY <1>0, <2>5, ReturnTyped, AnswersTyped DEF HashFails, PutDuplicate
    <2>6. CASE Put(r)
      <3>1. users' \subseteq Rows
        BY <1>0, <2>6, UserTyped, UpsertedTyped DEF Put, HandlersFit
      <3> QED
        BY <1>0, <2>6, <3>1, ReturnTyped, AnswersTyped DEF Put
    <2>7. CASE PutFails(r) \/ PutUnacknowledged(r)
      BY <1>0, <2>7, ReturnTyped, AnswersTyped, DisturbTyped DEF PutFails, PutUnacknowledged
    <2>8. CASE Select(r)
      BY <1>0, <2>8 DEF Select, Scanned
    <2>9. CASE SelectFails(r)
      BY <1>0, <2>9, DisturbTyped DEF SelectFails
    <2>10. CASE Compare(r)
      <3>1. Verdict(r) \in Answers
        BY <2>10, VerdictTyped, AnswersTyped DEF Compare, Verdict
      <3> QED
        BY <1>0, <2>10, <3>1, ReturnTyped DEF Compare
    <2>11. CASE Validate(r)
      BY <1>0, <2>11, ReturnTyped, AnswersTyped, CheckTyped DEF Validate
    <2> QED
      BY <1>1, <2>1, <2>2, <2>3, <2>4, <2>5, <2>6, <2>7, <2>8, <2>9, <2>10, <2>11 DEF Handler
  <1>2. ASSUME NEW r \in Requests, PutLate(r) PROVE TypeOK'
    <2>1. users' \subseteq Rows
      BY <1>0, <1>2, UserTyped, UpsertedTyped DEF PutLate, HandlersFit
    <2> QED
      BY <1>0, <1>2, <2>1 DEF PutLate, reqVars
  <1>3. ASSUME NEW t \in Issued, Expire(t) PROVE TypeOK'
    BY <1>0, <1>3, IssuedTyped DEF Expire, reqVars
  <1>4. CASE Crash
    <2> DEFINE open == {r \in Requests : Active(r)}
    <2>1. Disturb(open) /\ open \in SUBSET Requests
      BY <1>4 DEF Crash
    <2>2. /\ faults' \in 0 .. MaxFaults /\ disturbed' \in SUBSET Requests
          /\ expired' = expired /\ parsesTime' = parsesTime
      BY <1>0, <2>1, DisturbTyped
    <2>3. answer' \in [Requests -> Answers]
      BY <1>0, <1>4, AnswersTyped DEF Crash
    <2> QED
      BY <1>0, <1>4, <2>2, <2>3 DEF Crash
  <1>5. CASE UNCHANGED vars
    BY <1>0, <1>5 DEF vars, reqVars
  <1> QED
    BY <1>1, <1>2, <1>3, <1>4, <1>5 DEF Next, AllAnswered

(***************************************************************************)
(* The inductive invariant                                                 *)
(***************************************************************************)

(* Where a step leaves another handler. *)
LEMMA OthersStay ==
  ASSUME TypeOK, NEW r \in Requests, Handler(r), NEW s \in Requests \ {r}
  PROVE  pc'[s] = pc[s] /\ call'[s] = call[s] /\ found'[s] = found[s] /\ answer'[s] = answer[s]
BY DEF TypeOK, Goto, Return, Handler, StartRegister, StartGetToken, StartValidate, Start,
       HashPassword, HashFails, Put, PutDuplicate, PutFails, PutUnacknowledged, Select,
       SelectFails, Compare, Validate

LEMMA HandlersFitStep ==
  ASSUME IInv, [Next]_vars
  PROVE  HandlersFit'
PROOF
  <1> USE DEF HandlersFit, Goto, RegisterPcs, LoginPcs, dbVars
  <1>0. TypeOK /\ HandlersFit
    BY DEF IInv
  <1>1. ASSUME NEW r \in Requests, Handler(r) PROVE HandlersFit'
    <2> USE DEF TypeOK
    <2>1. CASE StartRegister(r)
      BY <1>0, <2>1 DEF StartRegister, Start
    <2>2. CASE StartGetToken(r)
      BY <1>0, <2>2 DEF StartGetToken, Start
    <2>3. CASE StartValidate(r)
      <3>1. PICK c \in Checks(Issued \cup {NoValue}) : call' = [call EXCEPT ![r] = c]
        BY <2>3 DEF StartValidate, Start
      <3>2. c \in Checks(Tokens \cup {NoValue})
        BY <3>1, IssuedTyped DEF Checks
      <3> QED
        BY <1>0, <2>3, <3>1, <3>2 DEF StartValidate, Start
    <2>4. CASE HashPassword(r)
      BY <1>0, <2>4 DEF HashPassword
    <2>5. CASE PutUnacknowledged(r)
      BY <1>0, <2>5 DEF PutUnacknowledged, Return
    <2>6. CASE Select(r) \/ SelectFails(r)
      BY <1>0, <2>6 DEF Select, SelectFails
    <2>7. CASE HashFails(r) \/ Put(r) \/ PutDuplicate(r) \/ PutFails(r) \/ Compare(r) \/ Validate(r)
      <3>1. /\ pc' = [pc EXCEPT ![r] = "done"] /\ call' = call /\ detached' = detached
            /\ found'[r] = NoValue
            /\ \A s \in Requests \ {r} : found'[s] = found[s] /\ answer'[s] = answer[s]
        BY <1>0, <2>7 DEF HashFails, Put, PutDuplicate, PutFails, Compare, Validate, Return
      <3> QED
        BY <1>0, <2>7, <3>1
    <2> QED
      BY <1>1, <2>1, <2>2, <2>3, <2>4, <2>5, <2>6, <2>7 DEF Handler
  <1>2. ASSUME NEW r \in Requests, PutLate(r) PROVE HandlersFit'
    BY <1>0, <1>2 DEF PutLate, reqVars
  <1>3. ASSUME NEW t \in Issued, Expire(t) PROVE HandlersFit'
    BY <1>0, <1>3 DEF Expire, reqVars
  <1>4. CASE Crash
    BY <1>0, <1>4 DEF Crash, Active, TypeOK
  <1> QED
    BY <1>0, <1>1, <1>2, <1>3, <1>4 DEF Next, AllAnswered, vars, reqVars

(* A statement that MySQL runs: whose, and with what effect. *)
Runs(r) == /\ pc[r] = "put" \/ r \in detached
           /\ pc'[r] = "done" /\ r \notin detached'
           /\ ~ Duplicate(User(r))
           /\ users' = Upserted(User(r))

(* A step leaves the table alone or runs the statement of one registration. *)
LEMMA TableMoves ==
  ASSUME IInv, [Next]_vars
  PROVE  users' = users \/ \E r \in Requests : Runs(r)
PROOF
  <1> USE DEF dbVars
  <1>0. TypeOK /\ HandlersFit
    BY DEF IInv
  <1>1. ASSUME NEW r \in Requests, Put(r) PROVE Runs(r)
    BY <1>0, <1>1 DEF Put, Runs, Return, Goto, TypeOK, HandlersFit
  <1>2. ASSUME NEW r \in Requests, Handler(r), ~ Put(r) PROVE users' = users
    BY <1>2 DEF Handler, StartRegister, StartGetToken, StartValidate, Start,
       HashPassword, HashFails, PutDuplicate, PutFails, PutUnacknowledged, Select,
       SelectFails, Compare, Validate
  <1>3. ASSUME NEW r \in Requests, PutLate(r) PROVE users' = users \/ Runs(r)
    BY <1>0, <1>3 DEF PutLate, Runs, HandlersFit, reqVars
  <1> QED
    BY <1>1, <1>2, <1>3 DEF Next, AllAnswered, Expire, Crash, vars

(* The rows after a statement: old ones it does not conflict with, and one *)
(* with its columns, under the id of the row it conflicts with or its own. *)
LEMMA RowsAfter ==
  ASSUME IInv, NEW r \in Requests, Runs(r), NEW u \in users'
  PROVE  \/ u \in users /\ u.username # call[r].username /\ u.email # call[r].email
         \/ /\ u.username = call[r].username /\ u.email = call[r].email
            /\ u.hash = Hash(r, call[r].password)
            /\ \/ u.id = r /\ Conflicts(User(r)) = {}
               \/ \E v \in Conflicts(User(r)) : u.id = v.id
PROOF
  <1>1. User(r).username = call[r].username /\ User(r).email = call[r].email
        /\ User(r).hash = Hash(r, call[r].password) /\ User(r).id = r
    BY DEF User
  <1>2. u \in Upserted(User(r))
    BY DEF Runs
  <1>3. CASE Conflicts(User(r)) = {}
    BY <1>1, <1>2, <1>3 DEF Upserted, Conflicts
  <1>4. CASE u \in users \ Conflicts(User(r))
    BY <1>1, <1>4 DEF Conflicts
  <1>5. ASSUME NEW v \in Conflicts(User(r)), u = [User(r) EXCEPT !.id = v.id]
        PROVE  u.username = call[r].username /\ u.email = call[r].email
               /\ u.hash = Hash(r, call[r].password) /\ u.id = v.id
    BY <1>5 DEF User
  <1> QED
    BY <1>2, <1>3, <1>4, <1>5 DEF Upserted

LEMMA KeysUniqueStep ==
  ASSUME IInv, [Next]_vars
  PROVE  KeysUnique'
PROOF
  <1>0. TypeOK /\ KeysUnique /\ IdsAreNew
    BY DEF IInv
  <1>1. ASSUME NEW r \in Requests, Runs(r), NEW u \in users', NEW v \in users',
               u.id = v.id \/ u.username = v.username \/ u.email = v.email
        PROVE  u = v
    <2>0. \A w \in users : w.id # r
      BY <1>0, <1>1 DEF IdsAreNew, Runs
    <2>1. CASE u \in users /\ v \in users
      BY <1>0, <1>1, <2>1 DEF KeysUnique
    <2>2. \A a, b \in Conflicts(User(r)) : a = b
      BY <1>1 DEF Runs, Duplicate
    <2>3. \A w \in users' : w \in Rows
      BY TypeStep DEF TypeOK
    <2>4. \A w \in Conflicts(User(r)) :
            w \in users /\ (w.username = call[r].username \/ w.email = call[r].email)
      BY DEF Conflicts, User
    <2>5. ASSUME NEW a \in users', NEW b \in users',
                 a.id = b.id \/ a.username = b.username \/ a.email = b.email,
                 a.username = call[r].username, a.email = call[r].email
          PROVE  b.username = call[r].username /\ b.email = call[r].email
      <3>1. SUFFICES ASSUME b \in users, b.username # call[r].username, b.email # call[r].email PROVE FALSE
        BY <1>1, RowsAfter
      <3>2. a.id = b.id
        BY <2>5, <3>1
      <3>3. PICK w \in Conflicts(User(r)) : a.id = w.id
        BY <1>1, <2>0, <2>5, <3>1, <3>2, RowsAfter
      <3>4. w = b
        BY <1>0, <2>4, <3>1, <3>2, <3>3 DEF KeysUnique
      <3> QED
        BY <2>4, <3>1, <3>4
    <2>6. CASE \/ u.username = call[r].username /\ u.email = call[r].email
               \/ v.username = call[r].username /\ v.email = call[r].email
      <3>1. /\ u.username = call[r].username /\ u.email = call[r].email
            /\ v.username = call[r].username /\ v.email = call[r].email
        BY <1>1, <2>5, <2>6
      <3>2. u.hash = v.hash /\ u.id = v.id
        BY <1>1, <2>2, <3>1, RowsAfter
      <3> QED
        BY <2>3, <3>1, <3>2 DEF Rows
    <2> QED
      BY <1>1, <2>1, <2>6, RowsAfter
  <1> QED
    BY <1>0, <1>1, TableMoves DEF KeysUnique

LEMMA IdsAreNewStep ==
  ASSUME IInv, [Next]_vars
  PROVE  IdsAreNew'
PROOF
  <1> DEFINE New(s) == pc[s] \in {"idle", "hash", "put"} \/ s \in detached
  <1>0. TypeOK /\ HandlersFit /\ IdsAreNew
    BY DEF IInv
  <1>1. ASSUME NEW s \in Requests, New(s)' PROVE New(s)
    <2> USE DEF TypeOK, Goto, Return, dbVars, reqVars
    <2>1. ASSUME NEW r \in Requests, Handler(r) PROVE New(s)
      <3>1. CASE StartRegister(r) \/ StartGetToken(r) \/ StartValidate(r) \/ HashPassword(r)
        BY <1>0, <1>1, <3>1 DEF StartRegister, StartGetToken, StartValidate, Start, HashPassword
      <3> QED
        BY <1>0, <1>1, <2>1, <3>1 DEF Handler, HashFails, Put, PutDuplicate, PutFails,
           PutUnacknowledged, Select, SelectFails, Compare, Validate
    <2>2. ASSUME NEW r \in Requests, PutLate(r) PROVE New(s)
      BY <1>1, <2>2 DEF PutLate
    <2>3. CASE Crash
      BY <1>0, <1>1, <2>3 DEF Crash
    <2> QED
      BY <1>1, <2>1, <2>2, <2>3 DEF Next, Expire, AllAnswered, vars
  <1>2. ASSUME NEW r \in Requests, Runs(r), NEW s \in Requests, New(s)', NEW u \in users'
        PROVE  u.id # s
    <2>1. s # r /\ New(s)
      BY <1>0, <1>1, <1>2 DEF Runs
    <2>2. \A w \in users : w.id # s
      BY <1>0, <2>1 DEF IdsAreNew
    <2>3. \A w \in Conflicts(User(r)) : w \in users
      BY DEF Conflicts
    <2> QED
      BY <1>2, <2>1, <2>2, <2>3, RowsAfter
  <1> QED
    BY <1>0, <1>1, <1>2, TableMoves DEF IdsAreNew

LEMMA UsersAreWholeStep ==
  ASSUME IInv, [Next]_vars
  PROVE  UsersAreWhole'
PROOF
  <1>0. HandlersFit /\ UsersAreWhole
    BY DEF IInv
  <1>1. ASSUME NEW u \in users PROVE \E q \in Requests : Puts(q, u)'
    BY <1>0, PutsStay DEF UsersAreWhole
  <1>2. ASSUME NEW r \in Requests, Runs(r), NEW u \in users', u \notin users
        PROVE  \E q \in Requests : Puts(q, u)'
    <2>1. Puts(r, u)
      BY <1>0, <1>2, RowsAfter DEF Puts, Runs, HandlersFit, RegisterPcs
    <2> QED
      BY <2>1, PutsStay
  <1> QED
    BY <1>1, <1>2, TableMoves DEF UsersAreWhole

(* What a login has read does not change until it is compared. *)
LEMMA FoundAreWholeStep ==
  ASSUME IInv, [Next]_vars
  PROVE  FoundAreWhole'
PROOF
  <1> DEFINE Whole(u, r) == /\ parsesTime /\ u \in Rows /\ u.email = call[r].email
                            /\ \E q \in Requests : Puts(q, u)
             Fits(r) == pc[r] = "compare" /\ found[r] # NoValue => Whole(found[r], r)
  <1>0. TypeOK /\ HandlersFit /\ \A s \in Requests : Fits(s)
    BY DEF IInv, FoundAreWhole
  <1>1. ASSUME NEW s \in Requests, NEW u, pc[s] # "idle", Whole(u, s) PROVE Whole(u, s)'
    <2>1. call'[s] = call[s]
      BY <1>0, <1>1, CallsStay
    <2>2. \E q \in Requests : Puts(q, u)'
      BY <1>1, PutsStay
    <2> QED
      BY <1>1, <2>1, <2>2, DSNStays DEF Rows
  <1>2. ASSUME NEW s \in Requests, pc'[s] = pc[s], found'[s] = found[s] PROVE Fits(s)'
    BY <1>0, <1>1, <1>2
  <1>3. ASSUME NEW r \in Requests, Handler(r) PROVE Fits(r)'
    <2> USE DEF TypeOK, Goto, Return
    <2>1. CASE Select(r)
      <3>1. SUFFICES ASSUME found'[r] # NoValue PROVE Whole(found[r], r)'
        BY DEF Fits
      <3>2. parsesTime /\ found'[r] \in users /\ found'[r].email = call[r].email
        BY <1>0, <2>1, <3>1 DEF Select, Scanned
      <3>3. Whole(found'[r], r)
        BY <1>0, <3>2 DEF IInv, UsersAreWhole
      <3>4. pc[r] # "idle"
        BY <2>1 DEF Select
      <3> HIDE DEF Whole
      <3>5. \A u : Whole(u, r) => Whole(u, r)'
        BY <1>1, <3>4
      <3> QED
        BY <3>3, <3>5 DEF Whole
    <2> QED
      BY <1>0, <1>3, <2>1 DEF HandlersFit, Handler, StartRegister, StartGetToken, StartValidate, Start,
         HashPassword, HashFails, Put, PutDuplicate, PutFails, PutUnacknowledged,
         SelectFails, Compare, Validate
  <1>4. ASSUME NEW r \in Requests, PutLate(r), NEW s \in Requests PROVE Fits(s)'
    BY <1>2, <1>4 DEF PutLate, reqVars
  <1>5. ASSUME NEW t, Expire(t), NEW s \in Requests PROVE Fits(s)'
    BY <1>2, <1>5 DEF Expire, reqVars
  <1>6. ASSUME Crash, NEW s \in Requests PROVE Fits(s)'
    BY <1>0, <1>6 DEF Crash
  <1>7. ASSUME UNCHANGED vars, NEW s \in Requests PROVE Fits(s)'
    BY <1>2, <1>7 DEF vars, reqVars
  <1>8. \A s \in Requests : Fits(s)'
    BY <1>0, <1>2, <1>3, <1>4, <1>5, <1>6, <1>7, OthersStay DEF Next, AllAnswered
  <1> QED
    BY <1>8 DEF FoundAreWhole

LEMMA ChecksAreDeservedStep ==
  ASSUME IInv, [Next]_vars
  PROVE  ChecksAreDeserved'
PROOF
  <1> DEFINE Fits(s) == call[s].op = "validate" /\ call[s].token # NoValue => Deserved(call[s].token)
  <1>0. TypeOK /\ HandlersFit /\ \A s \in Requests : Fits(s)
    BY DEF IInv, ChecksAreDeserved
  <1>1. \A t : Deserved(t) => Deserved(t)'
    BY DeservedStays
  <1>2. ASSUME NEW s \in Requests, call'[s] = call[s] PROVE Fits(s)'
    BY <1>0, <1>1, <1>2
  <1>3. ASSUME NEW s \in Requests, pc[s] = "idle", call'[s] # call[s] PROVE Fits(s)'
    <2>1. Handler(s)
      BY <1>0, <1>3, OthersStay DEF Next, AllAnswered, vars, reqVars, PutLate, Expire, Crash
    <2>2. CASE StartValidate(s)
      <3>1. PICK c \in Checks(Issued \cup {NoValue}) : call' = [call EXCEPT ![s] = c]
        BY <2>2 DEF StartValidate, Start
      <3>2. call'[s].token \in Issued \cup {NoValue}
        BY <1>0, <3>1 DEF TypeOK, Checks
      <3>3. \A t \in Issued : Deserved(t)
        BY DEF Issued, LoggedIn, IInv, TokensAreDeserved
      <3> QED
        BY <1>1, <3>2, <3>3
    <2>3. CASE StartRegister(s) \/ StartGetToken(s)
      BY <1>0, <2>3 DEF StartRegister, StartGetToken, Start, Registers, Logins, TypeOK
    <2> QED
      BY <1>3, <2>1, <2>2, <2>3 DEF Handler, HashPassword, HashFails, Put, PutDuplicate, PutFails,
         PutUnacknowledged, Select, SelectFails, Compare, Validate
  <1>4. \A s \in Requests : Fits(s)'
    BY <1>0, <1>2, <1>3, CallsStay
  <1> QED
    BY <1>4 DEF ChecksAreDeserved

LEMMA TokensAreDeservedStep ==
  ASSUME IInv, [Next]_vars
  PROVE  TokensAreDeserved'
PROOF
  <1> DEFINE Granted(s) == answer[s].code = "OK" /\ call[s].op = "getToken"
             Valid(s) == answer[s].code = "OK" /\ call[s].op = "validate"
             Fits(s) == /\ Granted(s) => answer[s].val.issued = s /\ Deserved(answer[s].val)
                        /\ Valid(s) => Deserved(call[s].token) /\ answer[s].val = call[s].token.username
  <1>0. TypeOK /\ HandlersFit /\ \A s \in Requests : Fits(s)
    BY DEF IInv, TokensAreDeserved
  <1>1. \A t : Deserved(t) => Deserved(t)'
    BY DeservedStays
  <1>2. ASSUME NEW s \in Requests, call'[s] = call[s], answer'[s] = answer[s] PROVE Fits(s)'
    BY <1>0, <1>1, <1>2
  <1>3. ASSUME NEW r \in Requests, Handler(r) PROVE Fits(r)'
    <2> USE DEF TypeOK, Goto, Return
    <2>1. CASE Compare(r)
      <3>1. call[r] \in Logins /\ pc[r] = "compare" /\ call' = call /\ answer'[r] = Verdict(r)
        BY <1>0, <2>1 DEF Compare, HandlersFit, LoginPcs
      <3>2. ~ Valid(r)'
        BY <3>1 DEF Logins
      <3>3. SUFFICES ASSUME Granted(r)' PROVE answer'[r].val.issued = r /\ Deserved(answer'[r].val)
        BY <1>1, <3>2
      <3>4. /\ found[r] # NoValue /\ Matches(found[r].hash, call[r].password)
            /\ answer'[r].val = Token(r, found[r])
        BY <3>1, <3>3 DEF Verdict, OK, Refused, Told
      <3>5. PICK q \in Requests : Puts(q, found[r])
        BY <3>1, <3>4 DEF IInv, FoundAreWhole
      <3>6. parsesTime /\ found[r] \in Rows /\ found[r].email = call[r].email
        BY <3>1, <3>4 DEF IInv, FoundAreWhole
      <3>7. Token(r, found[r]) \in Tokens /\ Token(r, found[r]).issued = r
            /\ Token(r, found[r]).username = found[r].username
        BY <3>6 DEF Token, Tokens, Rows
      <3>8. BcryptKey[call[q].password] = BcryptKey[call[r].password]
        BY <3>4, <3>5 DEF Puts, Matches, Hash
      <3> QED
        BY <3>1, <3>4, <3>5, <3>6, <3>7, <3>8, DSNStays DEF Deserved, Puts
    <2>2. CASE Validate(r)
      <3>1. pc[r] = "parse" /\ call' = call /\ call[r] \in Checks(Tokens \cup {NoValue})
        BY <1>0, <2>2 DEF Validate, HandlersFit
      <3>2. ~ Granted(r)'
        BY <3>1 DEF Checks
      <3>3. SUFFICES ASSUME Valid(r)'
                     PROVE  Deserved(call[r].token) /\ answer'[r].val = call[r].token.username
        BY <1>1, <3>1, <3>2
      <3>4. call[r].token # NoValue /\ answer'[r] = OK(call[r].token.username)
        BY <1>0, <2>2, <3>3 DEF Validate, Refused, Told
      <3> QED
        BY <3>1, <3>4 DEF OK, Told, Checks, IInv, ChecksAreDeserved
    <2>3. CASE Put(r)
      BY <1>0, <2>3 DEF Put, HandlersFit, RegisterPcs, Registers
    <2>4. CASE ~ (Compare(r) \/ Validate(r) \/ Put(r))
      <3>1. answer'[r].code # "OK"
        BY <1>0, <1>3, <2>4 DEF HandlersFit, Handler, StartRegister, StartGetToken, StartValidate, Start,
           HashPassword, HashFails, PutDuplicate, PutFails, PutUnacknowledged, Select,
           SelectFails, Internal, Told
      <3> QED
        BY <3>1
    <2> QED
      BY <2>1, <2>2, <2>3, <2>4
  <1>4. ASSUME Crash, NEW s \in Requests PROVE Fits(s)'
    BY <1>0, <1>2, <1>4 DEF Crash, Unavailable, Told
  <1>5. ASSUME NEW s \in Requests, UNCHANGED reqVars PROVE Fits(s)'
    BY <1>2, <1>5 DEF reqVars
  <1>6. ASSUME NEW r \in Requests, Handler(r), NEW s \in Requests \ {r} PROVE Fits(s)'
    BY <1>0, <1>2, <1>6, OthersStay
  <1>7. \A s \in Requests : Fits(s)'
    BY <1>3, <1>4, <1>5, <1>6 DEF Next, PutLate, Expire, AllAnswered, vars
  <1> QED
    BY <1>7 DEF TokensAreDeserved

(* The invariant that all others follow from: it holds initially, and      *)
(* every step keeps it.                                                    *)
THEOREM InductiveInvariant == Spec => []IInv
PROOF
  <1>1. Init => IInv
    BY MaxFaultsAssumption, AnswersTyped DEF Init, IInv, TypeOK, HandlersFit, IdsAreNew, KeysUnique,
       UsersAreWhole, FoundAreWhole, ChecksAreDeserved, TokensAreDeserved, Calls, NoCall,
       RegisterPcs, LoginPcs, Told
  <1>2. IInv /\ [Next]_vars => IInv'
    BY TypeStep, HandlersFitStep, IdsAreNewStep, KeysUniqueStep, UsersAreWholeStep,
       FoundAreWholeStep, ChecksAreDeservedStep, TokensAreDeservedStep DEF IInv
  <1> QED
    BY <1>1, <1>2, PTL DEF Spec

(* Every variable keeps its type; no row stores a password as it came.     *)
THEOREM TypeCorrect == Spec => []TypeOK
PROOF
  <1>1. IInv => TypeOK
    BY DEF IInv
  <1> QED
    BY <1>1, InductiveInvariant, PTL

(* Ids, usernames and emails are each one user's, however registrations    *)
(* race and however late their statements run.                             *)
THEOREM UniqueKeys == Spec => []KeysUnique
PROOF
  <1>1. IInv => KeysUnique
    BY DEF IInv
  <1> QED
    BY <1>1, InductiveInvariant, PTL

(* No user mixes what two registrations sent.                              *)
THEOREM WholeUsers == Spec => []UsersAreWhole
PROOF
  <1>1. IInv => UsersAreWhole
    BY DEF IInv
  <1> QED
    BY <1>1, InductiveInvariant, PTL

(* Every token names the username of a registration with the email and, as *)
(* far as bcrypt reads it, the password of its login, and validates to it. *)
THEOREM DeservedTokens == Spec => []TokensAreDeserved
PROOF
  <1>1. IInv => TokensAreDeserved
    BY DEF IInv
  <1> QED
    BY <1>1, InductiveInvariant, PTL

(* As the program is wired, with a DSN without parseTime=true, no login is *)
(* ever granted: there is no token.                                        *)
THEOREM NoTokenAsWired ==
  ASSUME DSNs = {FALSE}
  PROVE  Spec => [](Issued = {})
PROOF
  <1>1. IInv => Issued = {}
    BY DEF IInv, TypeOK, TokensAreDeserved, Deserved, Issued, LoggedIn
  <1> QED
    BY <1>1, InductiveInvariant, PTL

(* No user disappears, and none changes its id.                            *)
THEOREM StableIds == Spec => IdsStay
PROOF
  <1>1. IInv /\ [Next]_vars => [{u.id : u \in users} \subseteq {u.id : u \in users'}]_vars
    <2> SUFFICES ASSUME IInv, [Next]_vars, NEW u \in users
                 PROVE  \E w \in users' : w.id = u.id
      OBVIOUS
    <2>1. ASSUME NEW r \in Requests, Runs(r) PROVE \E w \in users' : w.id = u.id
      <3>1. CASE u \notin Conflicts(User(r))
        BY <2>1, <3>1 DEF Runs, Upserted
      <3>2. CASE u \in Conflicts(User(r))
        <4>1. [User(r) EXCEPT !.id = u.id] \in users'
          BY <2>1, <3>2 DEF Runs, Upserted
        <4>2. [User(r) EXCEPT !.id = u.id].id = u.id
          BY DEF User
        <4> QED
          BY <4>1, <4>2
      <3> QED
        BY <3>1, <3>2
    <2> QED
      BY <2>1, TableMoves
  <1> QED
    BY <1>1, InductiveInvariant, PTL DEF Spec, IdsStay

(***************************************************************************)
(* Whoever has registered can log in                                       *)
(***************************************************************************)
Suits(q, u) == /\ u.username = call[q].username /\ u.email = call[q].email
               /\ u.hash.digestOf = BcryptKey[call[q].password]

HasUser(q) == \E u \in users : Suits(q, u)

(* What holds of a login r as soon as the registration q has succeeded, if *)
(* the driver parses times.                                                *)
Provided(q, r) ==
  parsesTime /\ call[q] \in Registers /\ (~ Rival(q) =>
    /\ HasUser(q)
    /\ Asks(r, q) /\ r \notin disturbed =>
         /\ pc[r] = "compare" => found[r] # NoValue /\ Suits(q, found[r])
         /\ pc[r] = "done" => answer[r].code = "OK")

LEMMA RivalsStay ==
  ASSUME IInv, [Next]_vars, NEW q \in Requests, call[q] \in Registers, Rival(q)
  PROVE  Rival(q)'
BY RegistersStay DEF Rival

(* The statement of a registration leaves it a user, and one that is no    *)
(* rival's leaves the user of another alone or replaces it by its like.    *)
LEMMA RunsProvides ==
  ASSUME IInv, NEW s \in Requests, Runs(s), call[s] \in Registers
  PROVE  \E u \in users' : Suits(s, u)
PROOF
  <1> DEFINE row == User(s)
  <1>1. Suits(s, row) /\ \A i : Suits(s, [row EXCEPT !.id = i])
    BY DEF Suits, User, Hash
  <1>2. users' = Upserted(row)
    BY DEF Runs
  <1>3. CASE Conflicts(row) = {}
    <2>1. row \in users'
      BY <1>2, <1>3 DEF Upserted
    <2> QED
      BY <1>1, <2>1
  <1>4. CASE Conflicts(row) # {}
    <2>1. PICK v \in Conflicts(row) : TRUE
      BY <1>4
    <2>2. [row EXCEPT !.id = v.id] \in users'
      BY <1>2, <1>4 DEF Upserted
    <2> QED
      BY <1>1, <2>2
  <1> QED
    BY <1>3, <1>4

LEMMA UserStays ==
  ASSUME IInv, [Next]_vars, NEW q \in Requests, call[q] \in Registers, ~ Rival(q), HasUser(q)
  PROVE  HasUser(q)'
PROOF
  <1>1. PICK u \in users : Suits(q, u)
    BY DEF HasUser
  <1>2. call'[q] = call[q]
    BY RegistersStay
  <1>3. ASSUME NEW s \in Requests, Runs(s), call[s] = call[q] PROVE \E v \in users' : Suits(q, v)
    BY <1>3, RunsProvides DEF Suits
  <1>4. ASSUME NEW s \in Requests, Runs(s), call[s] # call[q] PROVE u \in users'
    <2>1. call[s] \in Registers
      BY <1>4 DEF Runs, IInv, HandlersFit, RegisterPcs
    <2>2. call[s].email # u.email /\ call[s].username # u.username
      BY <1>1, <1>4, <2>1 DEF Rival, Suits
    <2>3. u \notin Conflicts(User(s))
      BY <2>2 DEF Conflicts, User
    <2> QED
      BY <1>4, <2>3 DEF Runs, Upserted
  <1>5. \E v \in users' : Suits(q, v)
    BY <1>1, <1>3, <1>4, TableMoves
  <1> QED
    BY <1>2, <1>5 DEF HasUser, Suits

(* A registration succeeds at the step that runs its statement.            *)
LEMMA Succeeds ==
  ASSUME IInv, [Next]_vars, NEW q \in Requests, ~ Registered(q), Registered(q)'
  PROVE  call[q] \in Registers /\ call'[q] = call[q] /\ Runs(q)
PROOF
  <1> USE DEF TypeOK, Goto, Return
  <1>0. TypeOK /\ HandlersFit
    BY DEF IInv
  <1>1. ASSUME NEW r \in Requests, Handler(r) PROVE r = q /\ Put(q)
    <2>1. r = q
      BY <1>0, <1>1, OthersStay DEF Registered
    <2>2. CASE StartRegister(r) \/ StartGetToken(r) \/ StartValidate(r)
      BY <1>0, <2>1, <2>2 DEF Registered, HandlersFit, StartRegister, StartGetToken, StartValidate, Start
    <2>3. CASE HashPassword(r) \/ HashFails(r) \/ PutDuplicate(r) \/ PutFails(r) \/ PutUnacknowledged(r)
                 \/ Select(r) \/ SelectFails(r)
      BY <1>0, <2>1, <2>3 DEF Registered, HandlersFit, HashPassword, HashFails, PutDuplicate, PutFails,
         PutUnacknowledged, Select, SelectFails, Internal, Told
    <2>4. CASE Compare(r) \/ Validate(r)
      BY <1>0, <2>1, <2>4 DEF Registered, HandlersFit, Compare, Validate, LoginPcs, Registers,
         Logins, Checks
    <2> QED
      BY <1>1, <2>1, <2>2, <2>3, <2>4 DEF Handler
  <1>2. ~ Crash
    BY <1>0 DEF Registered, Crash, Unavailable, Told
  <1>3. ~ UNCHANGED reqVars
    BY DEF Registered, reqVars
  <1>4. Put(q)
    BY <1>1, <1>2, <1>3 DEF Next, PutLate, Expire, AllAnswered, vars
  <1>5. call[q] \in Registers /\ call'[q] = call[q]
    BY <1>0, <1>4 DEF Put, HandlersFit, RegisterPcs
  <1> QED
    BY <1>0, <1>4, <1>5 DEF Put, Runs, HandlersFit

(* Registrations that have succeeded keep their user.                      *)
RegisteredHaveUsers ==
  \A q \in Requests : Registered(q) /\ ~ Rival(q) => HasUser(q)

LEMMA RegisteredHaveUsersStep ==
  ASSUME IInv, [Next]_vars, RegisteredHaveUsers
  PROVE  RegisteredHaveUsers'
PROOF
  <1> SUFFICES ASSUME NEW q \in Requests, Registered(q)', ~ Rival(q)'
               PROVE  HasUser(q)'
    BY DEF RegisteredHaveUsers
  <1>1. CASE Registered(q)
    <2>1. call[q] \in Registers /\ ~ Rival(q)
      BY <1>1, RivalsStay DEF Registered
    <2> QED
      BY <1>1, <2>1, UserStays DEF RegisteredHaveUsers
  <1>2. CASE ~ Registered(q)
    <2>1. call[q] \in Registers /\ call'[q] = call[q] /\ Runs(q)
      BY <1>2, Succeeds
    <2>2. \E u \in users' : Suits(q, u)
      BY <2>1, RunsProvides
    <2> QED
      BY <2>1, <2>2 DEF HasUser, Suits
  <1> QED
    BY <1>1, <1>2

(* The email is one user's: a login reads that user or none at all.        *)
LEMMA SelectProvides ==
  ASSUME IInv, parsesTime, NEW q \in Requests, NEW r \in Requests, HasUser(q), Asks(r, q), Select(r)
  PROVE  found'[r] # NoValue /\ Suits(q, found'[r])
PROOF
  <1>0. TypeOK /\ KeysUnique
    BY DEF IInv
  <1>1. PICK u \in users : Suits(q, u)
    BY DEF HasUser
  <1>2. u \in {v \in users : v.email = call[r].email}
    BY <1>1 DEF Asks, Suits
  <1>3. found'[r] \in {v \in users : v.email = call[r].email}
    BY <1>0, <1>2 DEF Select, Scanned, TypeOK
  <1>4. found'[r] = u
    BY <1>0, <1>2, <1>3 DEF KeysUnique
  <1> QED
    BY <1>0, <1>1, <1>4, NoValueAssumption DEF TypeOK

LEMMA ProvidedStep ==
  ASSUME IInv, [Next]_vars, NEW q \in Requests, NEW r \in Requests, Provided(q, r)
  PROVE  Provided(q, r)'
PROOF
  <1> DEFINE Good == /\ pc[r] = "compare" => found[r] # NoValue /\ Suits(q, found[r])
                     /\ pc[r] = "done" => answer[r].code = "OK"
  <1>0. TypeOK /\ HandlersFit
    BY DEF IInv
  <1>1. call'[q] = call[q] /\ call[q] \in Registers /\ parsesTime /\ parsesTime'
    BY RegistersStay, DSNStays DEF Provided
  <1> SUFFICES ASSUME ~ Rival(q)' PROVE HasUser(q)' /\ (Asks(r, q)' /\ r \notin disturbed' => Good')
    BY <1>1 DEF Provided
  <1>2. ~ Rival(q) /\ HasUser(q) /\ HasUser(q)' /\ (Asks(r, q) /\ r \notin disturbed => Good)
    BY <1>1, RivalsStay, UserStays DEF Provided
  <1> SUFFICES ASSUME Asks(r, q)', r \notin disturbed' PROVE Good'
    BY <1>2
  <1>3. r \notin disturbed
    BY DEF Next, Handler, StartRegister, StartGetToken, StartValidate, Start, HashPassword, HashFails,
       Put, PutDuplicate, PutFails, PutUnacknowledged, PutLate, Select, SelectFails, Compare, Validate,
       Expire, Crash, AllAnswered, Disturb, envVars, vars
  <1>4. \A u : Suits(q, u)' <=> Suits(q, u)
    BY <1>1 DEF Suits
  <1>5. ASSUME pc[r] # "idle" PROVE Asks(r, q) /\ Good
    <2>1. call'[r] = call[r]
      BY <1>0, <1>5, CallsStay
    <2> QED
      BY <1>1, <1>2, <1>3, <2>1 DEF Asks
  <1>6. ASSUME pc'[r] = pc[r], found'[r] = found[r], answer'[r] = answer[r] PROVE Good'
    <2>1. CASE pc[r] = "idle"
      BY <1>6, <2>1
    <2>2. CASE pc[r] # "idle"
      BY <1>4, <1>5, <1>6, <2>2
    <2> QED
      BY <2>1, <2>2
  <1>7. ASSUME Handler(r) PROVE Good'
    <2> USE DEF TypeOK, Goto, Return
    <2>1. CASE StartRegister(r) \/ StartGetToken(r) \/ StartValidate(r) \/ HashPassword(r)
      BY <1>0, <2>1 DEF StartRegister, StartGetToken, StartValidate, Start, HashPassword
    <2>2. CASE Select(r)
      <3>1. pc[r] # "idle" /\ pc'[r] = "compare"
        BY <1>0, <2>2 DEF Select
      <3>2. found'[r] # NoValue /\ Suits(q, found'[r])
        BY <1>1, <1>2, <1>5, <2>2, <3>1, SelectProvides
      <3> QED
        BY <1>4, <3>1, <3>2
    <2>3. CASE Compare(r)
      <3>1. pc[r] = "compare" /\ pc'[r] = "done" /\ answer'[r] = Verdict(r)
        BY <1>0, <2>3 DEF Compare
      <3>2. found[r] # NoValue /\ Suits(q, found[r]) /\ Asks(r, q)
        BY <1>5, <3>1
      <3>3. Verdict(r) = OK(Token(r, found[r]))
        BY <3>2 DEF Verdict, Matches, Suits, Asks
      <3> QED
        BY <3>1, <3>3 DEF OK, Told
    <2>4. CASE PutFails(r) \/ PutUnacknowledged(r) \/ SelectFails(r)
      BY <2>4 DEF PutFails, PutUnacknowledged, SelectFails, Disturb
    <2>5. CASE HashFails(r) \/ Put(r) \/ PutDuplicate(r) \/ Validate(r)
      <3>1. pc[r] \in {"hash", "put", "parse"}
        BY <2>5 DEF HashFails, Put, PutDuplicate, Validate
      <3>2. call[r] \in Logins
        BY <1>5, <3>1 DEF Asks
      <3> QED
        BY <1>0, <3>1, <3>2 DEF HandlersFit, RegisterPcs, Registers, Logins, Checks
    <2> QED
      BY <1>7, <2>1, <2>2, <2>3, <2>4, <2>5 DEF Handler
  <1>8. ASSUME NEW s \in Requests \ {r}, Handler(s) PROVE Good'
    BY <1>0, <1>6, <1>8, OthersStay
  <1>9. CASE Crash
    <2>1. ~ Active(r)
      BY <1>9 DEF Crash, Disturb
    <2>2. pc'[r] = pc[r] /\ answer'[r] = answer[r] /\ pc'[r] # "compare"
      BY <1>9, <2>1 DEF Crash, Active, LoginPcs
    <2>3. CASE pc[r] = "idle"
      BY <2>2, <2>3
    <2>4. CASE pc[r] # "idle"
      BY <1>5, <2>2, <2>4
    <2> QED
      BY <2>3, <2>4
  <1>10. CASE UNCHANGED reqVars
    BY <1>6, <1>10 DEF reqVars
  <1> QED
    BY <1>7, <1>8, <1>9, <1>10 DEF Next, PutLate, Expire, AllAnswered, vars

(* Without parseTime=true no login is granted at all; with it, from the    *)
(* moment a registration is told to have succeeded, every login with its   *)
(* email and password that no fault hits is granted, unless a different    *)
(* registration asks for its email or its username.                        *)
THEOREM LoginsFollowDSN == Spec => DSNDecides
PROOF
  <1> DEFINE Waits(q, r) == Asks(r, q) /\ pc[r] = "done" /\ r \notin disturbed /\ ~ Rival(q)
  <1> SUFFICES ASSUME NEW q \in Requests, NEW r \in Requests
               PROVE  Spec => [](Registered(q) /\ pc[r] = "idle"
                                  => [](Waits(q, r) => (answer[r].code = "OK" <=> parsesTime)))
    BY DEF DSNDecides
  <1>1. Init => RegisteredHaveUsers
    BY DEF Init, RegisteredHaveUsers, Registered, Told
  <1>2. IInv /\ [Next]_vars /\ RegisteredHaveUsers => RegisteredHaveUsers'
    BY RegisteredHaveUsersStep
  <1>3. IInv /\ RegisteredHaveUsers /\ Registered(q) /\ pc[r] = "idle" => Provided(q, r) \/ ~ parsesTime
    <2>1. IInv /\ pc[r] = "idle" => ~ Asks(r, q)
      BY DEF IInv, HandlersFit, Asks, NoCall, Logins
    <2> QED
      BY <2>1 DEF RegisteredHaveUsers, Provided, Registered
  <1>4. IInv /\ [Next]_vars /\ Provided(q, r) => Provided(q, r)'
    BY ProvidedStep
  <1>5. [Next]_vars /\ ~ parsesTime => ~ parsesTime'
    BY DSNStays
  <1>6. Provided(q, r) => (Waits(q, r) => (answer[r].code = "OK" <=> parsesTime))
    BY DEF Provided
  <1>7. IInv /\ ~ parsesTime => (Waits(q, r) => (answer[r].code = "OK" <=> parsesTime))
    BY DEF IInv, TokensAreDeserved, Deserved, Asks, Logins
  <1> HIDE DEF Waits
  <1> QED
    BY <1>1, <1>2, <1>3, <1>4, <1>5, <1>6, <1>7, InductiveInvariant, PTL DEF Spec

(***************************************************************************)
(* The service implements the book of accounts                             *)
(***************************************************************************)
Accts  == {Account(u) : u \in users}
Phases == [r \in Requests |-> Phase(r)]
Verdicts == [r \in Requests |-> IF pc[r] = "compare" THEN Verdict(r) ELSE NoValue]

(* The table's upsert, seen as accounts, is the book's entry: what         *)
(* conflicts with a row shares a key with its account.                     *)
LEMMA SharingIsConflict ==
  ASSUME IInv, NEW r \in Requests, call[r] \in Registers
  PROVE  /\ Book!Sharing(r) = {Account(u) : u \in Conflicts(User(r))}
         /\ Accts \ Book!Sharing(r) = {Account(u) : u \in users \ Conflicts(User(r))}
         /\ Book!Straddles(r) <=> Duplicate(User(r))
PROOF
  <1>0. \A u \in users : /\ Account(u).email = u.email /\ Account(u).username = u.username
                          /\ Account(u).id = u.id
    BY DEF Account
  <1>1. /\ User(r).username = call[r].username /\ User(r).email = call[r].email
    BY DEF User
  <1>2. Book!Sharing(r) = {Account(u) : u \in Conflicts(User(r))}
    BY <1>0, <1>1 DEF Book!Sharing, Conflicts
  <1>3. Accts \ Book!Sharing(r) = {Account(u) : u \in users \ Conflicts(User(r))}
    BY <1>0, <1>1, <1>2 DEF Accts, Conflicts
  <1>4. \A u, v \in Conflicts(User(r)) : u # v => Account(u) # Account(v)
    BY <1>0 DEF Conflicts, IInv, KeysUnique
  <1>5. Book!Straddles(r) <=> Duplicate(User(r))
    BY <1>2, <1>4 DEF Book!Straddles, Duplicate
  <1> QED
    BY <1>2, <1>3, <1>5

LEMMA EnteredIsUpserted ==
  ASSUME IInv, NEW r \in Requests, call[r] \in Registers
  PROVE  Book!Entered(r) = {Account(u) : u \in Upserted(User(r))}
PROOF
  <1> DEFINE C == Conflicts(User(r))
             New(i) == [id |-> i, email |-> call[r].email, username |-> call[r].username,
                        password |-> BcryptKey[call[r].password]]
             ids == IF Book!Sharing(r) = {} THEN {r} ELSE {a.id : a \in Book!Sharing(r)}
  <1>1. Book!Entered(r) = (Accts \ Book!Sharing(r)) \cup {New(i) : i \in ids}
    BY DEF Book!Entered, Accts
  <1>2. /\ \A i \in Requests : Account([User(r) EXCEPT !.id = i]) = New(i)
        /\ Account(User(r)) = New(r)
    BY DEF Account, User, Hash
  <1>3. Book!Sharing(r) = {Account(u) : u \in C} /\ Accts \ Book!Sharing(r) = {Account(u) : u \in users \ C}
    BY SharingIsConflict
  <1>4. CASE C = {}
    <2>1. ids = {r} /\ Upserted(User(r)) = users \cup {User(r)} /\ users \ C = users
      BY <1>3, <1>4 DEF Upserted
    <2>2. {New(i) : i \in ids} = {Account(User(r))}
      BY <1>2, <2>1
    <2>3. {Account(u) : u \in users \cup {User(r)}} = {Account(u) : u \in users} \cup {Account(User(r))}
      OBVIOUS
    <2> QED
      BY <1>1, <1>3, <2>1, <2>2, <2>3
  <1>5. CASE C # {}
    <2>1. Upserted(User(r)) = (users \ C) \cup {[User(r) EXCEPT !.id = u.id] : u \in C}
      BY <1>5 DEF Upserted
    <2>2. \A u \in C : u.id \in Requests /\ Account(u).id = u.id
      BY DEF Conflicts, IInv, TypeOK, Rows, Account
    <2>3. ids = {u.id : u \in C}
      BY <1>3, <1>5, <2>2
    <2>4. {New(i) : i \in ids} = {Account([User(r) EXCEPT !.id = u.id]) : u \in C}
      <3>1. \A u \in C : Account([User(r) EXCEPT !.id = u.id]) = New(u.id)
        BY <1>2, <2>2
      <3> HIDE DEF New, ids
      <3> QED
        BY <2>3, <3>1
    <2>5. {Account(u) : u \in Upserted(User(r))}
            = {Account(u) : u \in users \ C} \cup {Account([User(r) EXCEPT !.id = u.id]) : u \in C}
      BY <2>1
    <2> QED
      BY <1>1, <1>3, <2>4, <2>5
  <1> QED
    BY <1>4, <1>5

(* What Compare will answer is what the book finds when SELECT is run.     *)
LEMMA SelectDecides ==
  ASSUME IInv, NEW r \in Requests, Select(r)
  PROVE  Verdict(r)' \in Book!Deserves(r)
PROOF
  <1>0. TypeOK /\ KeysUnique
    BY DEF IInv
  <1> DEFINE key == BcryptKey[call[r].password]
             rows == {u \in users : u.email = call[r].email}
             mine == {a \in Accts : a.email = call[r].email /\ a.password = key}
             won(a) == Book!Told("OK", [issued |-> r, sub |-> a.id, username |-> a.username])
  <1>1. Book!Deserves(r) = IF mine = {} \/ ~ parsesTime THEN {Book!Refused} ELSE {won(a) : a \in mine}
    BY DEF Book!Deserves, Accts
  <1>2. Book!Refused = Refused
    BY DEF Book!Refused, Refused, Book!Told, Told
  <1>3. \A u \in users : /\ Account(u).email = u.email /\ Account(u).password = u.hash.digestOf
                          /\ won(Account(u)) = OK(Token(r, u))
    BY DEF Account, Token, OK, Book!Told, Told
  <1>4. call'[r] = call[r]
    BY DEF Select
  <1>7. \A a \in mine : \E u \in rows : u.hash.digestOf = key
    <2> HIDE DEF key, won
    <2> QED
      BY <1>3 DEF Accts
  <1>5. CASE rows = {} \/ ~ parsesTime
    <2>1. found'[r] = NoValue
      BY <1>0, <1>5 DEF Select, Scanned, TypeOK
    <2>2. mine = {} \/ ~ parsesTime
      BY <1>5, <1>7
    <2> QED
      BY <1>1, <1>2, <2>1, <2>2 DEF Verdict
  <1>6. CASE rows # {} /\ parsesTime
    <2>1. PICK u \in rows : found' = [found EXCEPT ![r] = u]
      BY <1>6 DEF Select, Scanned
    <2>2. found'[r] = u /\ u # NoValue
      BY <1>0, <2>1, NoValueAssumption DEF TypeOK
    <2>3. \A v \in users : v.email = call[r].email => v = u
      BY <1>0, <2>1 DEF KeysUnique
    <2>4. CASE u.hash.digestOf = key
      <3>1. Verdict(r)' = OK(Token(r, u))
        BY <1>4, <2>2, <2>4 DEF Verdict, Matches
      <3>2. Account(u) \in mine
        BY <1>3, <2>1, <2>4 DEF Accts
      <3> QED
        BY <1>1, <1>3, <1>6, <3>1, <3>2
    <2>5. CASE u.hash.digestOf # key
      <3>1. Verdict(r)' = Refused
        BY <1>4, <2>2, <2>5 DEF Verdict, Matches
      <3>2. mine = {}
        BY <1>7, <2>3, <2>5
      <3> QED
        BY <1>1, <1>2, <3>1, <3>2
    <2> QED
      BY <2>4, <2>5
  <1> QED
    BY <1>5, <1>6

(* A handler's step moves its own phase and verdict only. *)
Shown(r) == IF pc[r] = "compare" THEN Verdict(r) ELSE NoValue

LEMMA ShownMoves ==
  ASSUME IInv, NEW r \in Requests, Handler(r)
  PROVE  /\ Phases' = [Phases EXCEPT ![r] = Phase(r)']
         /\ Verdicts' = [Verdicts EXCEPT ![r] = Shown(r)']
PROOF
  <1>0. TypeOK
    BY DEF IInv
  <1>1. \A s \in Requests \ {r} : Phase(s)' = Phase(s) /\ Shown(s)' = Shown(s)
    BY <1>0, OthersStay DEF Phase, Shown, Verdict, Token
  <1> QED
    BY <1>1 DEF Phases, Verdicts, Shown

LEMMA SameRecords ==
  /\ Book!Registers = Registers /\ Book!Logins = Logins /\ Book!NoCall = NoCall
  /\ \A c, v : Book!Told(c, v) = Told(c, v)
  /\ Book!Refused = Refused /\ Book!Failed = Internal /\ Book!Lost = Unavailable
  /\ Book!Issued = Issued
BY DEF Book!Registers, Registers, Book!Logins, Logins, Book!NoCall, NoCall, Book!Told, Told,
       Book!Refused, Refused, Book!Failed, Internal, Book!Lost, Unavailable, Book!Issued, Issued,
       LoggedIn

LEMMA StartImplements ==
  ASSUME IInv, NEW r \in Requests, StartRegister(r) \/ StartGetToken(r) \/ StartValidate(r)
  PROVE  Book!Call(r)
PROOF
  <1>0. TypeOK /\ Handler(r)
    BY DEF IInv, Handler
  <1>1. /\ Phases' = [Phases EXCEPT ![r] = Phase(r)']
        /\ Verdicts' = [Verdicts EXCEPT ![r] = Shown(r)']
    BY <1>0, ShownMoves
  <1>2. /\ pc[r] = "idle" /\ pc'[r] \in {"hash", "select", "parse"}
        /\ UNCHANGED <<users, detached, answer, expired, disturbed>>
    BY <1>0 DEF StartRegister, StartGetToken, StartValidate, Start, Goto, TypeOK, dbVars, envVars
  <1>3. Phases[r] = "idle" /\ Phase(r)' = "called"
    BY <1>2 DEF Phases, Phase
  <1>4. Shown(r)' = NoValue /\ Verdicts[r] = NoValue
        /\ Verdicts \in [Requests -> {Verdicts[s] : s \in Requests}]
    BY <1>2 DEF Shown, Verdicts
  <1>5. Verdicts' = Verdicts
    BY <1>1, <1>4
  <1>6. \E c \in Book!Registers \cup Book!Logins
                  \cup [op : {"validate"}, token : Book!Issued \cup {NoValue}] :
          call' = [call EXCEPT ![r] = c]
    BY SameRecords DEF StartRegister, StartGetToken, StartValidate, Start, Checks
  <1> QED
    BY <1>1, <1>2, <1>3, <1>5, <1>6 DEF Book!Call, Book!Goto, Phases, Verdicts

(* A handler that is hit by a fault fails alone. *)
LEMMA FailureImplements ==
  ASSUME IInv, NEW r \in Requests, PutFails(r) \/ PutUnacknowledged(r)
  PROVE  Book!Fail({r})
PROOF
  <1>0. TypeOK /\ Handler(r) /\ HandlersFit
    BY DEF IInv, Handler
  <1>1. /\ Phases' = [Phases EXCEPT ![r] = Phase(r)']
        /\ Verdicts' = [Verdicts EXCEPT ![r] = Shown(r)']
    BY <1>0, ShownMoves
  <1>2. /\ pc[r] = "put" /\ pc'[r] = "done" /\ call' = call /\ users' = users
        /\ expired' = expired /\ disturbed' = disturbed \cup {r}
        /\ answer' = [answer EXCEPT ![r] = Internal]
        /\ detached' = detached \/ detached' = detached \cup {r}
    BY <1>0 DEF PutFails, PutUnacknowledged, Return, Goto, Disturb, TypeOK, dbVars
  <1>3. call[r].op = "register"
    BY <1>0, <1>2 DEF HandlersFit, RegisterPcs, Registers
  <1>4. Phases' = [s \in Requests |-> IF s \in {r} THEN "done" ELSE Phases[s]] /\ Phases[r] = "called"
    BY <1>1, <1>2 DEF Phases, Phase
  <1>5. Verdicts' = [s \in Requests |-> IF s \in {r} THEN NoValue ELSE Verdicts[s]]
    BY <1>1, <1>2 DEF Verdicts, Shown
  <1>6. answer' = [s \in Requests |-> IF s \in {r} THEN Book!Failed ELSE answer[s]]
    BY <1>0, <1>2, SameRecords DEF TypeOK
  <1>7. \E P \in SUBSET {s \in {r} : call[s].op = "register"} : detached' = detached \cup P
    <2>1. {s \in {r} : call[s].op = "register"} = {r} /\ detached \cup {} = detached
      BY <1>3
    <2>2. {} \in SUBSET {s \in {r} : call[s].op = "register"}
          /\ {r} \in SUBSET {s \in {r} : call[s].op = "register"}
      BY <2>1
    <2> QED
      BY <1>2, <2>1, <2>2
  <1> QED
    BY <1>2, <1>4, <1>5, <1>6, <1>7 DEF Book!Fail, Phases, Verdicts

(* A registration takes effect, or is refused, when its statement is run.  *)
LEMMA RegisterImplements ==
  ASSUME IInv, NEW r \in Requests, HashFails(r) \/ Put(r) \/ PutDuplicate(r)
  PROVE  Book!Register(r) \/ Book!RegisterRefused(r)
PROOF
  <1>0. TypeOK /\ Handler(r) /\ HandlersFit
    BY DEF IInv, Handler
  <1>1. /\ Phases' = [Phases EXCEPT ![r] = Phase(r)']
        /\ Verdicts' = [Verdicts EXCEPT ![r] = Shown(r)']
    BY <1>0, ShownMoves
  <1>2. /\ pc[r] \in {"hash", "put"} /\ pc'[r] = "done" /\ call' = call
        /\ UNCHANGED <<detached, expired, disturbed>>
    BY <1>0 DEF HashFails, Put, PutDuplicate, Return, Goto, TypeOK, dbVars, envVars
  <1>3. call[r] \in Registers /\ call[r].op = "register"
    BY <1>0, <1>2 DEF HandlersFit, RegisterPcs, Registers
  <1>4. Phases' = [Phases EXCEPT ![r] = "done"] /\ Phases[r] = "called"
    BY <1>1, <1>2 DEF Phases, Phase
  <1>5. Verdicts' = Verdicts
    BY <1>1, <1>2 DEF Verdicts, Shown
  <1>6. CASE Put(r)
    <2>1. Accts' = Book!Entered(r) /\ ~ Book!Straddles(r)
      BY <1>3, <1>6, EnteredIsUpserted, SharingIsConflict DEF Put, Accts, Account
    <2>2. answer' = [answer EXCEPT ![r] = Book!Told("OK", NoValue)]
      BY <1>6, SameRecords DEF Put, Return, OK
    <2>3. call[r].password \notin Unhashable
      BY <1>0, <1>6 DEF Put, HandlersFit
    <2> QED
      BY <1>2, <1>3, <1>4, <1>5, <2>1, <2>2, <2>3 DEF Book!Register, Book!Tell, Book!Goto, Phases,
         Verdicts, Accts
  <1>7. CASE HashFails(r) \/ PutDuplicate(r)
    <2>1. answer' = [answer EXCEPT ![r] = Book!Failed] /\ users' = users
      BY <1>7, SameRecords DEF HashFails, PutDuplicate, Return, dbVars
    <2>2. call[r].password \in Unhashable \/ Book!Straddles(r)
      BY <1>3, <1>7, SharingIsConflict DEF HashFails, PutDuplicate
    <2> QED
      BY <1>2, <1>3, <1>4, <1>5, <2>1, <2>2 DEF Book!RegisterRefused, Book!Tell, Book!Goto, Phases, Verdicts
  <1> QED
    BY <1>6, <1>7

(* A login is decided when its user is read, and told when it is compared. *)
LEMMA LoginImplements ==
  ASSUME IInv, NEW r \in Requests, Select(r) \/ SelectFails(r) \/ Compare(r)
  PROVE  Book!Decide(r) \/ Book!Misjudge(r) \/ Book!TellVerdict(r)
PROOF
  <1>0. TypeOK /\ Handler(r) /\ HandlersFit
    BY DEF IInv, Handler
  <1>1. /\ Phases' = [Phases EXCEPT ![r] = Phase(r)']
        /\ Verdicts' = [Verdicts EXCEPT ![r] = Shown(r)']
    BY <1>0, ShownMoves
  <1>2. call' = call /\ users' = users /\ detached' = detached /\ expired' = expired
    BY DEF Select, SelectFails, Compare, Return, Disturb, dbVars, envVars
  <1>3. ASSUME pc[r] = "select", pc'[r] = "compare"
        PROVE  /\ Phases[r] = "called" /\ Phases' = [Phases EXCEPT ![r] = "decided"]
               /\ call[r].op = "getToken" /\ Verdicts' = [Verdicts EXCEPT ![r] = Verdict(r)']
    BY <1>0, <1>1, <1>3 DEF Phases, Phase, HandlersFit, LoginPcs, Logins, Shown
  <1>4. CASE Select(r)
    <2>1. pc[r] = "select" /\ pc'[r] = "compare" /\ answer' = answer /\ disturbed' = disturbed
      BY <1>0, <1>4 DEF Select, Goto, TypeOK, envVars
    <2>2. Verdict(r)' \in Book!Deserves(r)
      BY <1>4, SelectDecides
    <2>3. Book!Decide(r)
      BY <1>2, <1>3, <2>1, <2>2 DEF Book!Decide, Book!Goto, Phases, Verdicts
    <2> QED
      BY <2>3
  <1>5. CASE SelectFails(r)
    <2>1. /\ pc[r] = "select" /\ pc'[r] = "compare" /\ answer' = answer
          /\ disturbed' = disturbed \cup {r}
      BY <1>0, <1>5 DEF SelectFails, Goto, TypeOK, Disturb
    <2>2. found'[r] = NoValue
      BY <1>0, <1>5 DEF SelectFails, HandlersFit
    <2>3. Verdict(r)' = Book!Refused
      BY <2>2, SameRecords DEF Verdict, Refused, Told
    <2>4. Book!Misjudge(r)
      BY <1>2, <1>3, <2>1, <2>3 DEF Book!Misjudge, Book!Goto, Phases, Verdicts
    <2> QED
      BY <2>4
  <1>6. CASE Compare(r)
    <2>1. /\ pc[r] = "compare" /\ pc'[r] = "done" /\ disturbed' = disturbed
          /\ answer' = [answer EXCEPT ![r] = Verdict(r)]
      BY <1>0, <1>6 DEF Compare, Return, Goto, TypeOK, envVars
    <2>2. Phases[r] = "decided" /\ Phases' = [Phases EXCEPT ![r] = "done"]
      BY <1>1, <2>1 DEF Phases, Phase
    <2>3. Verdicts[r] = Verdict(r) /\ Verdicts' = [Verdicts EXCEPT ![r] = NoValue]
      BY <1>1, <2>1 DEF Verdicts, Shown
    <2>4. Book!TellVerdict(r)
      BY <1>2, <2>1, <2>2, <2>3 DEF Book!TellVerdict, Book!Tell, Book!Goto, Phases, Verdicts
    <2> QED
      BY <2>4
  <1> QED
    BY <1>4, <1>5, <1>6

(* What the book sees but for the DSN. *)
BookVars == <<Accts, Phases, call, Verdicts, answer, disturbed, detached, expired>>

LEMMA HandlerImplements ==
  ASSUME IInv, NEW r \in Requests, Handler(r)
  PROVE  Book!Step \/ UNCHANGED BookVars
PROOF
  <1>0. TypeOK /\ HandlersFit
    BY DEF IInv
  <1>1. /\ Phases' = [Phases EXCEPT ![r] = Phase(r)']
        /\ Verdicts' = [Verdicts EXCEPT ![r] = Shown(r)']
    BY ShownMoves
  <1>2. CASE StartRegister(r) \/ StartGetToken(r) \/ StartValidate(r)
    BY <1>2, StartImplements DEF Book!Step
  <1>3. CASE HashPassword(r)
    <2>1. /\ UNCHANGED <<users, detached, call, answer, expired, disturbed>>
          /\ pc[r] = "hash" /\ pc'[r] = "put"
      BY <1>0, <1>3 DEF HashPassword, Goto, TypeOK, dbVars, envVars
    <2>2. Phases' = Phases /\ Verdicts' = Verdicts
      BY <1>1, <2>1 DEF Phases, Phase, Verdicts, Shown
    <2> QED
      BY <2>1, <2>2 DEF BookVars, Accts, Phases, Verdicts
  <1>4. CASE HashFails(r) \/ Put(r) \/ PutDuplicate(r)
    BY <1>4, RegisterImplements DEF Book!Step
  <1>5. CASE PutFails(r) \/ PutUnacknowledged(r)
    BY <1>5, FailureImplements DEF Book!Step
  <1>6. CASE Select(r) \/ SelectFails(r) \/ Compare(r)
    BY <1>6, LoginImplements DEF Book!Step
  <1>7. CASE Validate(r)
    <2>1. /\ pc[r] = "parse" /\ pc'[r] = "done" /\ call' = call
          /\ UNCHANGED <<users, detached, expired, disturbed>>
      BY <1>0, <1>7 DEF Validate, Return, Goto, TypeOK, dbVars, envVars
    <2>2. Phases[r] = "called" /\ Phases' = [Phases EXCEPT ![r] = "done"] /\ Verdicts' = Verdicts
      BY <1>1, <2>1 DEF Phases, Phase, Verdicts, Shown
    <2>3. call[r].op = "validate"
      BY <1>0, <2>1 DEF HandlersFit, Checks
    <2>4. LET t == call[r].token
          IN  answer' = [answer EXCEPT ![r] = IF t = NoValue \/ t \in expired
                                              THEN Book!Refused ELSE Book!Told("OK", t.username)]
      BY <1>7, SameRecords DEF Validate, Return, OK
    <2>5. Book!Validate(r)
      BY <2>1, <2>2, <2>3, <2>4 DEF Book!Validate, Book!Tell, Book!Goto, Phases, Verdicts
    <2> QED
      BY <2>5 DEF Book!Step
  <1> QED
    BY <1>2, <1>3, <1>4, <1>5, <1>6, <1>7 DEF Handler

LEMMA EnvironmentImplements ==
  ASSUME IInv,
         (\E r \in Requests : PutLate(r)) \/ (\E t \in Issued : Expire(t)) \/ Crash \/ UNCHANGED vars
  PROVE  Book!Step \/ UNCHANGED BookVars
PROOF
  <1>0. TypeOK /\ HandlersFit
    BY DEF IInv
  <1>1. ASSUME UNCHANGED reqVars PROVE Phases' = Phases /\ Verdicts' = Verdicts
    BY <1>1 DEF reqVars, Phases, Phase, Verdicts, Verdict, Token
  <1>2. ASSUME NEW r \in Requests, PutLate(r) PROVE Book!RegisterLate(r)
    <2>1. call[r] \in Registers
      BY <1>0, <1>2 DEF PutLate, HandlersFit
    <2>2. Accts' = IF Book!Straddles(r) THEN Accts ELSE Book!Entered(r)
      BY <1>2, <2>1, EnteredIsUpserted, SharingIsConflict DEF PutLate, Accts, Account
    <2> QED
      BY <1>1, <1>2, <2>2 DEF PutLate, Book!RegisterLate, Accts, Phases, Verdicts, reqVars, envVars
  <1>3. ASSUME NEW t \in Issued, Expire(t) PROVE Book!Expire(t)
    BY <1>1, <1>3 DEF Expire, Book!Expire, Phases, Verdicts, dbVars, reqVars, Accts
  <1>4. CASE Crash
    <2>0. PICK R \in SUBSET Requests : R = {r \in Requests : Active(r)}
      OBVIOUS
    <2>1. /\ pc' = [r \in Requests |-> IF r \in R THEN "done" ELSE pc[r]]
          /\ answer' = [r \in Requests |-> IF r \in R THEN Unavailable ELSE answer[r]]
          /\ disturbed' = disturbed \cup R /\ UNCHANGED <<users, call, expired>>
      BY <1>4, <2>0 DEF Crash, Disturb
    <2>2. \A r \in R : Phases[r] \in {"called", "decided"}
      BY <2>0 DEF Phases, Phase, Active, RegisterPcs, LoginPcs
    <2>3. \A r \in Requests \ R : pc[r] # "compare"
      BY <2>0 DEF Active, LoginPcs
    <2>4. Phases' = [r \in Requests |-> IF r \in R THEN "done" ELSE Phases[r]]
      BY <2>1, <2>3 DEF Phases, Phase
    <2>5. Verdicts' = [r \in Requests |-> IF r \in R THEN NoValue ELSE Verdicts[r]]
      BY <2>1, <2>3 DEF Verdicts
    <2>6. \E P \in SUBSET {r \in R : call[r].op = "register"} : detached' = detached \cup P
      <3>1. PICK D \in SUBSET {r \in Requests : pc[r] = "put"} : detached' = detached \cup D
        BY <1>4 DEF Crash
      <3>2. \A r \in D : r \in R /\ call[r].op = "register"
        BY <1>0, <2>0, <3>1 DEF Active, HandlersFit, RegisterPcs, Registers
      <3> QED
        BY <3>1, <3>2
    <2>7. \E a \in {Book!Failed, Book!Lost} :
            answer' = [r \in Requests |-> IF r \in R THEN a ELSE answer[r]]
      BY <2>1, SameRecords
    <2>8. Book!Fail(R)
      BY <2>1, <2>2, <2>4, <2>5, <2>6, <2>7 DEF Book!Fail, Phases, Verdicts
    <2> QED
      BY <2>8 DEF Book!Step
  <1>5. CASE UNCHANGED vars
    BY <1>1, <1>5 DEF vars, dbVars, envVars, reqVars, BookVars, Accts, Phases, Verdicts
  <1> QED
    BY <1>2, <1>3, <1>4, <1>5, SameRecords DEF Book!Step

(* The auth service is a book of accounts: each registration, login and    *)
(* validation takes effect at one instant between its call and its answer, *)
(* and is refused only for its content, because a fault has hit it or, if  *)
(* it is a login, because the DSN lets no user be read.                    *)
THEOREM Implementation == Spec => ImplementsBook
PROOF
  <1>1. Init => Book!Init
    BY SameRecords, DSNsAssumption DEF Init, Book!Init, Phase
  <1>2. IInv /\ [Next]_vars => [Book!Next]_(Book!vars)
    <2> SUFFICES ASSUME IInv, [Next]_vars PROVE Book!Next \/ UNCHANGED Book!vars
      OBVIOUS
    <2>1. Book!Step \/ UNCHANGED BookVars
      BY HandlerImplements, EnvironmentImplements DEF Next, AllAnswered
    <2> QED
      BY <2>1, DSNStays DEF Book!Next, Book!vars, BookVars, Accts, Phases, Verdicts
  <1> QED
    BY <1>1, <1>2, InductiveInvariant, PTL DEF Spec, ImplementsBook, Book!Spec
=============================================================================
