---------------------------- MODULE AccountBook ----------------------------
(***************************************************************************)
(* What the auth service promises its clients: a book of accounts, in      *)
(* which no two share a username or an email.  A registration enters an    *)
(* account or takes over the one it shares a key with, a login gets a      *)
(* token or is refused, and each takes effect at one instant between the   *)
(* call and the answer.  A book that is not readable only takes entries:   *)
(* it refuses every login.                                                 *)
(*                                                                         *)
(* It knows nothing of MySQL, of hashes or of the handlers' steps.  Module *)
(* Accounts implements it.                                                 *)
(***************************************************************************)
CONSTANTS Requests, Emails, Usernames, Passwords, Unhashable, NoValue,
          Seen        \* what of a password the book can tell from another

VARIABLES accounts,   \* the book
          phase,      \* how far each request is
          call,       \* what each request asks
          verdict,    \* what a login was found to deserve
          answer,     \* what each request was told
          disturbed,  \* the requests a fault has hit
          pending,    \* the failed registrations that may still take effect
          expired,    \* the tokens that have expired
          readable    \* whether the book can be read back

vars == <<accounts, phase, call, verdict, answer, disturbed, pending, expired, readable>>

NoCall     == [op |-> "none"]
Registers  == [op : {"register"}, email : Emails, username : Usernames, password : Passwords]
Logins     == [op : {"getToken"}, email : Emails, password : Passwords]
Told(c, v) == [code |-> c, val |-> v]
Refused    == Told("Unauthenticated", NoValue)
Failed     == Told("Internal", NoValue)
Lost       == Told("Unavailable", NoValue)

Issued == {answer[q].val : q \in {p \in Requests : call[p].op = "getToken" /\ answer[p].code = "OK"}}

Init ==
  /\ accounts = {}
  /\ phase = [r \in Requests |-> "idle"]
  /\ call = [r \in Requests |-> NoCall]
  /\ verdict = [r \in Requests |-> NoValue]
  /\ answer = [r \in Requests |-> Told("none", NoValue)]
  /\ disturbed = {}
  /\ pending = {}
  /\ expired = {}
  /\ readable \in BOOLEAN

Goto(r, p) == phase' = [phase EXCEPT ![r] = p]
Tell(r, a) == Goto(r, "done") /\ answer' = [answer EXCEPT ![r] = a]

Call(r) ==
  /\ phase[r] = "idle"
  /\ Goto(r, "called")
  /\ \E c \in Registers \cup Logins \cup [op : {"validate"}, token : Issued \cup {NoValue}] :
       call' = [call EXCEPT ![r] = c]
  /\ UNCHANGED <<accounts, verdict, answer, disturbed, pending, expired>>

(* The accounts a registration shares a key with, and what becomes of the  *)
(* book: an account that is taken over keeps its id.                       *)
Sharing(r) == {a \in accounts : a.email = call[r].email \/ a.username = call[r].username}
Straddles(r) == \E a, b \in Sharing(r) : a # b
Entered(r) ==
  LET ids == IF Sharing(r) = {} THEN {r} ELSE {a.id : a \in Sharing(r)}
  IN  (accounts \ Sharing(r)) \cup
        {[id |-> i, email |-> call[r].email, username |-> call[r].username,
          password |-> Seen[call[r].password]] : i \in ids}

Register(r) ==
  /\ phase[r] = "called" /\ call[r].op = "register"
  /\ call[r].password \notin Unhashable /\ ~ Straddles(r)
  /\ accounts' = Entered(r)
  /\ Tell(r, Told("OK", NoValue))
  /\ UNCHANGED <<call, verdict, disturbed, pending, expired>>

(* Refused, though nothing failed: it would merge two accounts, or has a   *)
(* password that cannot be hashed.                                         *)
RegisterRefused(r) ==
  /\ phase[r] = "called" /\ call[r].op = "register"
  /\ call[r].password \in Unhashable \/ Straddles(r)
  /\ Tell(r, Failed)
  /\ UNCHANGED <<accounts, call, verdict, disturbed, pending, expired>>

RegisterLate(r) ==
  /\ r \in pending
  /\ pending' = pending \ {r}
  /\ accounts' = IF Straddles(r) THEN accounts ELSE Entered(r)
  /\ UNCHANGED <<phase, call, verdict, answer, disturbed, expired>>

Deserves(r) ==
  LET mine == {a \in accounts : /\ a.email = call[r].email
                               /\ a.password = Seen[call[r].password]}
  IN  IF mine = {} \/ ~ readable THEN {Refused}
      ELSE {Told("OK", [issued |-> r, sub |-> a.id, username |-> a.username]) : a \in mine}

Decide(r) ==
  /\ phase[r] = "called" /\ call[r].op = "getToken"
  /\ Goto(r, "decided")
  /\ \E v \in Deserves(r) : verdict' = [verdict EXCEPT ![r] = v]
  /\ UNCHANGED <<accounts, call, answer, disturbed, pending, expired>>

(* A login that is disturbed is refused like one with a wrong password. *)
Misjudge(r) ==
  /\ phase[r] = "called" /\ call[r].op = "getToken"
  /\ Goto(r, "decided")
  /\ verdict' = [verdict EXCEPT ![r] = Refused]
  /\ disturbed' = disturbed \cup {r}
  /\ UNCHANGED <<accounts, call, answer, pending, expired>>

TellVerdict(r) ==
  /\ phase[r] = "decided"
  /\ Tell(r, verdict[r])
  /\ verdict' = [verdict EXCEPT ![r] = NoValue]
  /\ UNCHANGED <<accounts, call, disturbed, pending, expired>>

Validate(r) ==
  /\ phase[r] = "called" /\ call[r].op = "validate"
  /\ LET t == call[r].token
     IN  Tell(r, IF t = NoValue \/ t \in expired THEN Refused ELSE Told("OK", t.username))
  /\ UNCHANGED <<accounts, call, verdict, disturbed, pending, expired>>

Expire(t) ==
  /\ expired' = expired \cup {t}
  /\ UNCHANGED <<accounts, phase, call, verdict, answer, disturbed, pending>>

(* Open requests fail together; of their registrations some are pending. *)
Fail(R) ==
  /\ \A r \in R : phase[r] \in {"called", "decided"}
  /\ phase' = [r \in Requests |-> IF r \in R THEN "done" ELSE phase[r]]
  /\ \E a \in {Failed, Lost} : answer' = [r \in Requests |-> IF r \in R THEN a ELSE answer[r]]
  /\ verdict' = [r \in Requests |-> IF r \in R THEN NoValue ELSE verdict[r]]
  /\ disturbed' = disturbed \cup R
  /\ \E P \in SUBSET {r \in R : call[r].op = "register"} : pending' = pending \cup P
  /\ UNCHANGED <<accounts, call, expired>>

Step ==
  \/ \E r \in Requests :
       \/ Call(r)
       \/ Register(r) \/ RegisterRefused(r) \/ RegisterLate(r)
       \/ Decide(r) \/ Misjudge(r) \/ TellVerdict(r)
       \/ Validate(r)
  \/ \E t \in Issued : Expire(t)
  \/ \E R \in SUBSET Requests : Fail(R)

Next == Step /\ UNCHANGED readable

Spec == Init /\ [][Next]_vars
=============================================================================
