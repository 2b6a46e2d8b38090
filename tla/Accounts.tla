------------------------------ MODULE Accounts ------------------------------
(***************************************************************************)
(* The auth service (src/auth): gRPC handler, controller and the MySQL     *)
(* table `users`.                                                          *)
(*                                                                         *)
(* Every member of Requests is one gRPC call, served by a goroutine of its *)
(* own, which is interleaved with the others at each statement it sends to *)
(* MySQL.  It also stands for what the call draws at random: the id of a   *)
(* user, the salt of a hash, the time of a token.  A token is what its     *)
(* claims say: the signing key is a constant of the program, so that a     *)
(* service that starts again accepts the tokens of its predecessor.        *)
(*                                                                         *)
(* The environment may fail a statement, lose it or its reply on the way   *)
(* (a cancelled context does either), crash and restart the service, and   *)
(* let a token expire.  MySQL keeps what it has committed.                 *)
(*                                                                         *)
(* The repository is handed a DSN.  Only one that says parseTime=true lets *)
(* it read a user back; the program's (cmd/main.go:126) does not say so,   *)
(* DSNs = {FALSE}, and the module also says what the same code does with   *)
(* one that does.                                                          *)
(***************************************************************************)
EXTENDS Naturals

CONSTANTS Requests,    \* the calls clients make
          Emails, Usernames,
          Passwords,   \* what clients send as a password
          Unhashable,  \* the passwords of more than 72 bytes
          BcryptKey,   \* what bcrypt reads of a password: its first 72 bytes
          DSNs,        \* whether the DSN says parseTime=true: subset of BOOLEAN
          NoValue,     \* no user, no token, no answer
          MaxFaults    \* bound: faults the environment may inject

ASSUME UnhashableAssumption == Unhashable \subseteq Passwords
ASSUME BcryptKeyAssumption == BcryptKey \in [Passwords -> Passwords]
ASSUME DSNsAssumption == DSNs \subseteq BOOLEAN
ASSUME MaxFaultsAssumption == MaxFaults \in Nat

VARIABLES
  users,      \* MySQL: the rows of the table
  detached,   \* the registrations whose statement MySQL may still run
  pc,         \* where each handler is
  call,       \* the request each handler serves
  found,      \* the user that a login has read
  answer,     \* what the client is told
  expired,    \* the tokens whose day is over
  faults,     \* faults injected so far
  disturbed,  \* history: the requests a fault has hit
  parsesTime  \* the DSN says parseTime=true; set once, by main

dbVars   == <<users, detached>>
reqVars  == <<pc, call, found, answer>>
envVars  == <<expired, faults, disturbed, parsesTime>>
vars     == <<dbVars, reqVars, envVars>>

(***************************************************************************)
(* Requests, rows, tokens and answers                                      *)
(***************************************************************************)
Hashes    == [salt : Requests, digestOf : Passwords]
Rows      == [id : Requests, username : Usernames, email : Emails, hash : Hashes]
Tokens    == [issued : Requests, sub : Requests, username : Usernames]

ASSUME NoValueAssumption == NoValue \notin Rows

NoCall    == [op |-> "none"]
Registers == [op : {"register"}, email : Emails, username : Usernames, password : Passwords]
Logins    == [op : {"getToken"}, email : Emails, password : Passwords]
Checks(T) == [op : {"validate"}, token : T]

(* A handler is at                                                         *)
(*   hash     about to hash the password           (controller.go:45)      *)
(*   put      about to send INSERT                 (controller.go:59)      *)
(*   select   about to send SELECT                 (controller.go:69)      *)
(*   compare  about to compare and make the token  (controller.go:74)      *)
(*   parse    about to parse the token             (controller.go:97)      *)
RegisterPcs == {"hash", "put"}
LoginPcs    == {"select", "compare"}
Active(r)   == pc[r] \in RegisterPcs \cup LoginPcs \cup {"parse"}

(* Mutant: the password is stored as it came. *)
HashForgotten(r, password) == password

(* bcrypt: a salt and a digest of what it reads of the password.           *)
Hash(r, password) == [salt |-> r, digestOf |-> BcryptKey[password]]

(* The comparison refuses no password for its length: it reads as much of  *)
(* it as the hash was made of.                                             *)
Matches(hash, password) == hash.digestOf = BcryptKey[password]

(* model.User: what a registration puts. *)
User(r) == [id |-> r, username |-> call[r].username, email |-> call[r].email,
            hash |-> Hash(r, call[r].password)]

Token(r, u) == [issued |-> r, sub |-> u.id, username |-> u.username]

Told(c, v) == [code |-> c, val |-> v]
OK(v)        == Told("OK", v)
Refused      == Told("Unauthenticated", NoValue)
Internal     == Told("Internal", NoValue)
Unavailable  == Told("Unavailable", NoValue)

LoggedIn(r) == call[r].op = "getToken" /\ answer[r].code = "OK"
Issued == {answer[r].val : r \in {q \in Requests : LoggedIn(q)}}

(***************************************************************************)
(* The table: users.username and users.email are unique.                   *)
(***************************************************************************)

(* Mutant: the migration does not declare username unique. *)
ConflictsByEmail(row) == {u \in users : u.email = row.email}

Conflicts(row)  == {u \in users : u.username = row.username \/ u.email = row.email}

Duplicate(row)  == \E u, v \in Conflicts(row) : u # v

(* Mutant: REPLACE INTO. *)
ReplacedBy(row) == (users \ Conflicts(row)) \cup {row}

(* Mutant: ON DUPLICATE KEY UPDATE without username = VALUES(username). *)
UpsertedWithoutUsername(row) ==
  IF Conflicts(row) = {} THEN users \cup {row}
  ELSE (users \ Conflicts(row)) \cup
         {[row EXCEPT !.id = u.id, !.username = u.username] : u \in Conflicts(row)}

(* INSERT ... ON DUPLICATE KEY UPDATE, which sets every column but the id  *)
(* of the one row it conflicts with.                                       *)
Upserted(row) ==
  IF Conflicts(row) = {} THEN users \cup {row}
  ELSE (users \ Conflicts(row)) \cup {[row EXCEPT !.id = u.id] : u \in Conflicts(row)}

(***************************************************************************)
(* Steps                                                                   *)
(***************************************************************************)
Init ==
  /\ users = {}
  /\ detached = {}
  /\ pc = [r \in Requests |-> "idle"]
  /\ call = [r \in Requests |-> NoCall]
  /\ found = [r \in Requests |-> NoValue]
  /\ answer = [r \in Requests |-> Told("none", NoValue)]
  /\ expired = {}
  /\ faults = 0
  /\ disturbed = {}
  /\ parsesTime \in DSNs

Goto(r, to) == pc' = [pc EXCEPT ![r] = to]
Return(r, a) ==
  /\ Goto(r, "done")
  /\ answer' = [answer EXCEPT ![r] = a]
  /\ found' = [found EXCEPT ![r] = NoValue]
  /\ UNCHANGED call

Disturb(R) ==
  /\ faults < MaxFaults
  /\ faults' = faults + 1
  /\ disturbed' = disturbed \cup R
  /\ UNCHANGED <<expired, parsesTime>>

Start(r, calls, to) ==
  /\ pc[r] = "idle"
  /\ \E c \in calls : call' = [call EXCEPT ![r] = c]
  /\ Goto(r, to)
  /\ UNCHANGED <<dbVars, found, answer, envVars>>

StartRegister(r) == Start(r, Registers, "hash")
StartGetToken(r) == Start(r, Logins, "select")
(* A client presents a token it was given, or what is none. *)
StartValidate(r) == Start(r, Checks(Issued \cup {NoValue}), "parse")

HashPassword(r) ==
  /\ pc[r] = "hash"
  /\ call[r].password \notin Unhashable
  /\ Goto(r, "put")
  /\ UNCHANGED <<dbVars, call, found, answer, envVars>>

HashFails(r) ==
  /\ pc[r] = "hash"
  /\ call[r].password \in Unhashable
  /\ Return(r, Internal)
  /\ UNCHANGED <<dbVars, envVars>>

Put(r) ==
  /\ pc[r] = "put"
  /\ ~ Duplicate(User(r))
  /\ users' = Upserted(User(r))
  /\ Return(r, OK(NoValue))
  /\ UNCHANGED <<detached, envVars>>

(* The username is one user's, the email another's: to update either would *)
(* break the other key, and MySQL refuses.                                 *)
PutDuplicate(r) ==
  /\ pc[r] = "put"
  /\ Duplicate(User(r))
  /\ Return(r, Internal)
  /\ UNCHANGED <<dbVars, envVars>>

PutFails(r) ==
  /\ pc[r] = "put"
  /\ Disturb({r})
  /\ Return(r, Internal)
  /\ UNCHANGED dbVars

PutUnacknowledged(r) ==
  /\ pc[r] = "put"
  /\ Disturb({r})
  /\ detached' = detached \cup {r}
  /\ Return(r, Internal)
  /\ UNCHANGED users

(* MySQL reaches a statement whose sender has gone. *)
PutLate(r) ==
  /\ r \in detached
  /\ detached' = detached \ {r}
  /\ users' = IF Duplicate(User(r)) THEN users ELSE Upserted(User(r))
  /\ UNCHANGED <<reqVars, envVars>>

(* Mutant: Scan's error is dropped, and the user is what it had scanned.   *)
ScannedAnyway(rows) == IF rows = {} THEN {NoValue} ELSE rows

(* What QueryRow(...).Scan makes of the rows.  The last column, created_at,*)
(* is scanned into a time.Time: without parseTime=true the driver hands    *)
(* over bytes, and Scan returns an error for every row there is.           *)
Scanned(rows) == IF rows = {} \/ ~ parsesTime THEN {NoValue} ELSE rows

(* GetByEmail *)
Select(r) ==
  /\ pc[r] = "select"
  /\ \E u \in Scanned({v \in users : v.email = call[r].email}) :
       found' = [found EXCEPT ![r] = u]
  /\ Goto(r, "compare")
  /\ UNCHANGED <<dbVars, call, answer, envVars>>

(* Login has the same answer for a failed query as for an unknown user. *)
SelectFails(r) ==
  /\ pc[r] = "select"
  /\ Disturb({r})
  /\ Goto(r, "compare")
  /\ UNCHANGED <<dbVars, call, found, answer>>

(* Mutant: the result of the comparison is dropped. *)
VerdictWithoutPassword(r) == IF found[r] # NoValue THEN OK(Token(r, found[r])) ELSE Refused

Verdict(r) ==
  IF found[r] # NoValue /\ Matches(found[r].hash, call[r].password)
  THEN OK(Token(r, found[r]))
  ELSE Refused

Compare(r) ==
  /\ pc[r] = "compare"
  /\ Return(r, Verdict(r))
  /\ UNCHANGED <<dbVars, envVars>>

(* IsValid: the username is the token's, not the table's. *)
Validate(r) ==
  /\ pc[r] = "parse"
  /\ LET t == call[r].token
     IN  Return(r, IF t = NoValue \/ t \in expired THEN Refused ELSE OK(t.username))
  /\ UNCHANGED <<dbVars, envVars>>

(* 24 hours after the login. *)
Expire(t) ==
  /\ t \notin expired
  /\ expired' = expired \cup {t}
  /\ UNCHANGED <<dbVars, reqVars, faults, disturbed, parsesTime>>

(* Every open call fails; a statement that was sent may still be run. *)
Crash ==
  LET open == {r \in Requests : Active(r)}
  IN  /\ open # {}
      /\ Disturb(open)
      /\ \E D \in SUBSET {r \in Requests : pc[r] = "put"} : detached' = detached \cup D
      /\ pc' = [r \in Requests |-> IF r \in open THEN "done" ELSE pc[r]]
      /\ answer' = [r \in Requests |-> IF r \in open THEN Unavailable ELSE answer[r]]
      /\ found' = [r \in Requests |-> NoValue]
      /\ UNCHANGED <<users, call>>

AllAnswered == (\A r \in Requests : pc[r] = "done") /\ UNCHANGED vars

Handler(r) == \/ StartRegister(r) \/ StartGetToken(r) \/ StartValidate(r)
              \/ HashPassword(r) \/ HashFails(r)
              \/ Put(r) \/ PutDuplicate(r) \/ PutFails(r) \/ PutUnacknowledged(r)
              \/ Select(r) \/ SelectFails(r) \/ Compare(r)
              \/ Validate(r)

Next == \/ \E r \in Requests : Handler(r) \/ PutLate(r)
        \/ \E t \in Issued : Expire(t)
        \/ Crash
        \/ AllAnswered

Spec == Init /\ [][Next]_vars

(***************************************************************************)
(* Properties                                                              *)
(***************************************************************************)
Calls   == {NoCall} \cup Registers \cup Logins \cup Checks(Tokens \cup {NoValue})
Answers == [code : {"none", "OK", "Unauthenticated", "Internal", "Unavailable"},
            val : Tokens \cup Usernames \cup {NoValue}]

(* Every variable keeps its type; what is stored of a password is a hash.  *)
TypeOK ==
  /\ users \in SUBSET Rows
  /\ detached \in SUBSET Requests
  /\ pc \in [Requests -> {"idle", "done", "parse"} \cup RegisterPcs \cup LoginPcs]
  /\ call \in [Requests -> Calls]
  /\ found \in [Requests -> Rows \cup {NoValue}]
  /\ answer \in [Requests -> Answers]
  /\ expired \in SUBSET Tokens
  /\ faults \in 0 .. MaxFaults
  /\ disturbed \in SUBSET Requests
  /\ parsesTime \in DSNs

(* Whatever registrations raced, straddled two users or came late, an id,  *)
(* a username and an email each belong to one user.                        *)
KeysUnique ==
  \A u, v \in users :
    u.id = v.id \/ u.username = v.username \/ u.email = v.email => u = v

(* A user is the work of one registration: no race mixes the columns of    *)
(* two, so that the password that belongs to an email also belongs to the  *)
(* username next to it.                                                    *)
Puts(q, u) == /\ call[q] \in Registers
              /\ u.username = call[q].username
              /\ u.email = call[q].email
              /\ u.hash = Hash(q, call[q].password)

UsersAreWhole == \A u \in users : \E q \in Requests : Puts(q, u)

(* A login that is granted names the username, and a token that is         *)
(* validated returns the username, of a registration with the login's      *)
(* email and a password that bcrypt cannot tell from the login's, although *)
(* the user may have been rewritten in the meantime; and there is none at  *)
(* all where the driver does not parse times, as in the program.           *)
Deserved(t) ==
  /\ parsesTime
  /\ t \in Tokens /\ call[t.issued] \in Logins
  /\ \E q \in Requests :
       /\ call[q] \in Registers
       /\ call[q].email = call[t.issued].email
       /\ BcryptKey[call[q].password] = BcryptKey[call[t.issued].password]
       /\ call[q].username = t.username

TokensAreDeserved ==
  \A r \in Requests :
    answer[r].code = "OK" =>
      /\ call[r].op = "getToken" => answer[r].val.issued = r /\ Deserved(answer[r].val)
      /\ call[r].op = "validate" =>
           Deserved(call[r].token) /\ answer[r].val = call[r].token.username

(* No user ever disappears: a registration that meets an existing user     *)
(* rewrites it under its old id, which the tokens of earlier logins name.  *)
IdsStay == [][{u.id : u \in users} \subseteq {u.id : u \in users'}]_vars

(* The strengthening that makes these inductive: a handler serves a call   *)
(* that fits where it is and is answered once, a detached statement is one *)
(* whose handler has gone, an id is new until its user is put, and what a  *)
(* login has read and a client presents came from registrations.           *)
HandlersFit ==
  \A r \in Requests :
    /\ pc[r] = "idle" => call[r] = NoCall
    /\ pc[r] \in RegisterPcs \/ r \in detached => call[r] \in Registers
    /\ pc[r] \in LoginPcs => call[r] \in Logins
    /\ pc[r] = "parse" => call[r] \in Checks(Tokens \cup {NoValue})
    /\ pc[r] = "put" => call[r].password \notin Unhashable
    /\ pc[r] # "compare" => found[r] = NoValue
    /\ pc[r] # "done" => answer[r].code = "none"
    /\ r \in detached => pc[r] = "done"

IdsAreNew ==
  \A r \in Requests :
    pc[r] \in {"idle", "hash", "put"} \/ r \in detached => \A u \in users : u.id # r

FoundAreWhole ==
  \A r \in Requests :
    pc[r] = "compare" /\ found[r] # NoValue =>
      /\ parsesTime /\ found[r] \in Rows /\ found[r].email = call[r].email
      /\ \E q \in Requests : Puts(q, found[r])

ChecksAreDeserved ==
  \A r \in Requests :
    call[r].op = "validate" /\ call[r].token # NoValue => Deserved(call[r].token)

IInv == /\ TypeOK /\ HandlersFit /\ IdsAreNew /\ KeysUnique /\ UsersAreWhole
        /\ FoundAreWhole /\ ChecksAreDeserved /\ TokensAreDeserved

(* The DSN alone decides whether who has registered can log in.  With      *)
(* parseTime=true, whoever was told that the registration succeeded is     *)
(* granted every login from then on, whatever other calls, late statements *)
(* and restarts come in between, unless a fault hits the login or a        *)
(* different registration asks for the email or the username too; without  *)
(* it, as in the program, is granted none.                                 *)
Rival(q) ==
  \E s \in Requests :
    /\ call[s] \in Registers /\ call[s] # call[q]
    /\ call[s].email = call[q].email \/ call[s].username = call[q].username

Registered(q) == call[q] \in Registers /\ answer[q].code = "OK"

Asks(r, q) == /\ call[r] \in Logins /\ call[q] \in Registers
              /\ call[r].email = call[q].email
              /\ BcryptKey[call[r].password] = BcryptKey[call[q].password]

DSNDecides ==
  \A q, r \in Requests :
    [](Registered(q) /\ pc[r] = "idle"
         => [](Asks(r, q) /\ pc[r] = "done" /\ r \notin disturbed /\ ~ Rival(q)
                 => (answer[r].code = "OK" <=> parsesTime)))

(* "Login verifies user credentials and returns a JWT token if successful" *)
(* (controller.go:67): a login whose SELECT runs, undisturbed, while the   *)
(* table has a user with its email and password will be granted.           *)
HasCredentials(r) ==
  \E u \in users : u.email = call[r].email /\ Matches(u.hash, call[r].password)

CredentialsSuffice ==
  [][\A r \in Requests :
       pc[r] = "select" /\ pc'[r] = "compare" /\ r \notin disturbed' /\ HasCredentials(r)
         => Verdict(r)'.code = "OK"]_vars

(* The service is a book of accounts whose operations take effect at one   *)
(* instant; only a call that a fault has hit is refused without reason,    *)
(* and every login if the book cannot be read back.                        *)
Phase(r) == CASE pc[r] = "idle" -> "idle"
              [] pc[r] = "done" -> "done"
              [] pc[r] = "compare" -> "decided"
              [] OTHER -> "called"
Account(u) == [id |-> u.id, email |-> u.email, username |-> u.username,
               password |-> u.hash.digestOf]

Book == INSTANCE AccountBook WITH
  accounts <- {Account(u) : u \in users},
  phase <- [r \in Requests |-> Phase(r)],
  verdict <- [r \in Requests |-> IF pc[r] = "compare" THEN Verdict(r) ELSE NoValue],
  pending <- detached,
  readable <- parsesTime,
  Seen <- BcryptKey

ImplementsBook == Book!Spec
=============================================================================
