------------------------------ MODULE Accounts ------------------------------
(***************************************************************************)
(* Accounts and tokens (app/api/v1/auth.py, app/api/deps.py): a client     *)
(* registers a name and gets a tenant of its own and a token, logs in, and *)
(* presents its token with every other request, which thereby becomes a    *)
(* request of its tenant.                                                  *)
(*                                                                         *)
(* Requests run as in Sessions: one step per await, a transaction each at  *)
(* READ COMMITTED, committed after the handler returns, before or after    *)
(* the response is sent.                                                   *)
(***************************************************************************)
EXTENDS Naturals, FiniteSets

CONSTANTS
    Requests,     \* HTTP requests to /auth, and to routes that ask for a token
    Names,        \* user names, as they are typed
    Stripped,     \* Stripped[n]: the name n without the blanks around it
    Passwords,
    Calls,        \* the registrations and logins of the instance
    Tenants,      \* values of users.tenant_id (uuid4: one per account)
    TokenLife,    \* ACCESS_TOKEN_EXPIRE_MINUTES
    MaxTime,      \* bound on the clock of the instance
    AnswerFirst,  \* is the response sent before the commit?
    Faults,       \* the failures of the instance: "db" or none
    Nil

VARIABLES
    users,    \* committed rows of users, by tenant
    wu,       \* wu[r]: the row request r has inserted and not committed
    call, pc, resp,
    user,     \* user[r]: the tenant of the account the handler of r works for
    token,    \* token[r]: the token in the response of r
    clock

vars == <<users, wu, call, pc, resp, user, token, clock>>

Times   == 0 .. MaxTime
UserRow == [username : Names, password : Passwords]
Token   == [sub : Names, exp : 0 .. MaxTime + TokenLife]

RegisterCall == [op : {"register"}, username : Names, password : Passwords]
LoginCall    == [op : {"login"}, username : Names, password : Passwords]
UseCall      == [op : {"authenticate"}, token : Token]

Labels == {"idle", "register", "flush_user", "conflict", "login", "authenticate",
           "find_user", "commit", "done"}
Codes  == {"200", "201", "401", "401_expired", "401_unknown", "409", "OperationalError"}

ASSUME AccountAssumption ==
    /\ Stripped \in [Names -> Names]
    /\ \A n \in Names : Stripped[Stripped[n]] = Stripped[n]
    /\ TokenLife \in Nat \ {0} /\ MaxTime \in Nat
    /\ AnswerFirst \in BOOLEAN /\ Faults \subseteq {"db"}
    /\ Nil \notin UserRow \cup Token \cup Codes \cup Labels \cup Tenants
    /\ Calls \subseteq RegisterCall \cup LoginCall
    /\ Nil \notin Calls \cup UseCall

Init ==
    /\ users = [t \in Tenants |-> Nil]
    /\ wu = [r \in Requests |-> Nil]
    /\ call = [r \in Requests |-> Nil]
    /\ pc = [r \in Requests |-> "idle"]
    /\ resp = [r \in Requests |-> Nil]
    /\ user = [r \in Requests |-> Nil]
    /\ token = [r \in Requests |-> Nil]
    /\ clock = 0

ByName(n) == {t \in Tenants : users[t] # Nil /\ users[t].username = n}

InFlight    == {r \in Requests : pc[r] \notin {"idle", "done"}}
Answered(r) == pc[r] = "done" \/ (AnswerFirst /\ pc[r] = "commit")

Goto(r, label) == pc' = [pc EXCEPT ![r] = label] /\ UNCHANGED resp

(* The handler returns: the commit is next.                                *)
Reply(r, code) ==
    /\ pc' = [pc EXCEPT ![r] = "commit"]
    /\ resp' = [resp EXCEPT ![r] = code]

Insert(r) ==
    users' = IF wu[r] = Nil THEN users ELSE [users EXCEPT ![user[r]] = wu[r]]
Forget(r) == wu' = [wu EXCEPT ![r] = Nil]

(* Mutants: the session is not rolled back; it is committed.               *)
RaiseOnly(r, code) ==
    /\ pc' = [pc EXCEPT ![r] = "done"]
    /\ resp' = [resp EXCEPT ![r] = code]
    /\ UNCHANGED <<users, wu>>
RaiseAndCommit(r, code) ==
    /\ pc' = [pc EXCEPT ![r] = "done"]
    /\ resp' = [resp EXCEPT ![r] = code]
    /\ Insert(r) /\ Forget(r)

Raise(r, code) ==
    /\ pc' = [pc EXCEPT ![r] = "done"]
    /\ resp' = [resp EXCEPT ![r] = code]
    /\ Forget(r)
    /\ UNCHANGED users

(* Mutants: the token has no end; it names the account as the client typed *)
(* it.                                                                     *)
IssueForever(r, name) == token' = [token EXCEPT ![r] = [sub |-> name, exp |-> Nil]]
IssueAsTyped(r, name) ==
    token' = [token EXCEPT ![r] = [sub |-> call[r].username, exp |-> clock + TokenLife]]

(* create_access_token(data={"sub": user.username}).                       *)
Issue(r, name) ==
    token' = [token EXCEPT ![r] = [sub |-> name, exp |-> clock + TokenLife]]

-----------------------------------------------------------------------------
(* POST /auth/register.  The name is stripped when the payload is          *)
(* validated; the form of a login is taken as it comes.                    *)

NameOf(r) == Stripped[call[r].username]

Register(r) ==
    /\ pc[r] = "register"
    /\ \/ ByName(NameOf(r)) # {} /\ Raise(r, "409")
       \/ ByName(NameOf(r)) = {} /\ Goto(r, "flush_user") /\ UNCHANGED <<users, wu>>
    /\ UNCHANGED <<call, user, token, clock>>

(* The INSERT waits for whoever is inserting the same username.            *)
NameHolders(r, n) ==
    {s \in Requests \ {r} : wu[s] # Nil /\ wu[s].username = n}

(* Mutant: the column is not unique.                                       *)
NeverTaken(n) == FALSE

NameTaken(n) == ByName(n) # {}

FreshTenants == {t \in Tenants : users[t] = Nil /\ \A s \in Requests : user[s] # t}

FlushUser(r) ==
    /\ pc[r] = "flush_user"
    /\ NameHolders(r, NameOf(r)) = {}
    /\ \/ /\ ~ NameTaken(NameOf(r))
          /\ \E t \in FreshTenants : user' = [user EXCEPT ![r] = t]
          /\ wu' = [wu EXCEPT ![r] = [username |-> NameOf(r), password |-> call[r].password]]
          /\ Issue(r, NameOf(r))
          /\ Reply(r, "201")
       \/ /\ NameTaken(NameOf(r))
          /\ Goto(r, "conflict")
          /\ UNCHANGED <<wu, user, token>>
    /\ UNCHANGED <<users, call, clock>>

(* except IntegrityError: the handler's own rollback, then 409.            *)
Conflict(r) ==
    /\ pc[r] = "conflict"
    /\ Raise(r, "409")
    /\ UNCHANGED <<call, user, token, clock>>

-----------------------------------------------------------------------------
(* POST /auth/login.                                                       *)

(* Mutant: the password is not verified.                                   *)
NameMatch(r) == ByName(call[r].username)

Match(r) == {t \in ByName(call[r].username) : users[t].password = call[r].password}

Login(r) ==
    /\ pc[r] = "login"
    /\ \/ /\ Match(r) = {}
          /\ Raise(r, "401")
          /\ UNCHANGED <<user, token>>
       \/ \E t \in Match(r) :
          /\ user' = [user EXCEPT ![r] = t]
          /\ Issue(r, users[t].username)
          /\ Reply(r, "200")
          /\ UNCHANGED <<users, wu>>
    /\ UNCHANGED <<call, clock>>

-----------------------------------------------------------------------------
(* get_current_user: the token is decoded, then the account is looked up.  *)

Decode(r) ==
    /\ pc[r] = "authenticate"
    /\ \/ clock >= call[r].token.exp /\ Raise(r, "401_expired")
       \/ clock < call[r].token.exp /\ Goto(r, "find_user") /\ UNCHANGED <<users, wu>>
    /\ UNCHANGED <<call, user, token, clock>>

FindUser(r) ==
    /\ pc[r] = "find_user"
    /\ \/ /\ ByName(call[r].token.sub) = {}
          /\ Raise(r, "401_unknown")
          /\ UNCHANGED user
       \/ \E t \in ByName(call[r].token.sub) :
          /\ user' = [user EXCEPT ![r] = t]
          /\ Reply(r, "200")
          /\ UNCHANGED <<users, wu>>
    /\ UNCHANGED <<call, token, clock>>

-----------------------------------------------------------------------------
(* The session around them (app/core/database.py).                         *)

(* The tokens that were sent to a client.                                  *)
Sent(s) == Answered(s) /\ resp[s] \in {"200", "201"} /\ token[s] # Nil

Begin(r) ==
    /\ pc[r] = "idle"
    /\ \E c \in Calls \cup {[op |-> "authenticate", token |-> token[s]]
                            : s \in {q \in Requests : Sent(q)}} :
          /\ call' = [call EXCEPT ![r] = c]
          /\ Goto(r, c.op)
    /\ UNCHANGED <<users, wu, user, token, clock>>

Commit(r) ==
    /\ pc[r] = "commit"
    /\ pc' = [pc EXCEPT ![r] = "done"]
    /\ Insert(r) /\ Forget(r)
    /\ UNCHANGED <<call, resp, user, token, clock>>

(* The connection is lost at an await; a response that was sent stays.     *)
Fail(r) ==
    /\ "db" \in Faults
    /\ r \in InFlight
    /\ Raise(r, IF Answered(r) THEN resp[r] ELSE "OperationalError")
    /\ UNCHANGED <<call, user, token, clock>>

Tick ==
    /\ clock < MaxTime
    /\ clock' = clock + 1
    /\ UNCHANGED <<users, wu, call, pc, resp, user, token>>

Serve(r) ==
    \/ Register(r) \/ FlushUser(r) \/ Conflict(r) \/ Login(r)
    \/ Decode(r) \/ FindUser(r) \/ Commit(r)

Idle == (\A r \in Requests : pc[r] = "done") /\ UNCHANGED vars

Next ==
    \/ \E r \in Requests : Begin(r) \/ Serve(r) \/ Fail(r)
    \/ Tick
    \/ Idle

Spec == Init /\ [][Next]_vars

(* The event loop and the database serve every request that can go on.     *)
FairSpec == Spec /\ \A r \in Requests : WF_vars(Serve(r))

-----------------------------------------------------------------------------
TypeOK ==
    /\ users \in [Tenants -> UserRow \cup {Nil}]
    /\ wu \in [Requests -> UserRow \cup {Nil}]
    /\ call \in [Requests -> Calls \cup UseCall \cup {Nil}]
    /\ pc \in [Requests -> Labels]
    /\ resp \in [Requests -> Codes \cup {Nil}]
    /\ user \in [Requests -> Tenants \cup {Nil}]
    /\ token \in [Requests -> Token \cup {Nil}]
    /\ clock \in Times

(* However registrations overlap, a name has one account, and so one       *)
(* tenant (models/user.py:11, auth.py:37-55).                              *)
OneAccountPerName ==
    \A t, u \in Tenants :
        users[t] # Nil /\ users[u] # Nil /\ users[t].username = users[u].username => t = u

Op(r) == IF call[r] = Nil THEN Nil ELSE call[r].op

(* What the handlers rely on from one await to the next.                   *)

RowOf(r) == [username |-> NameOf(r), password |-> call[r].password]

(* The handler of r stands at an await of the operation its call names;    *)
(* before it returns, it has found no account and issued no token.         *)
HandlerInOrder(r) ==
    /\ pc[r] = "idle" <=> call[r] = Nil
    /\ pc[r] \in {"register", "flush_user", "conflict"} => Op(r) = "register"
    /\ pc[r] = "login" => Op(r) = "login"
    /\ pc[r] \in {"authenticate", "find_user"} => Op(r) = "authenticate"
    /\ pc[r] \notin {"commit", "done"} =>
           user[r] = Nil /\ token[r] = Nil /\ resp[r] = Nil /\ wu[r] = Nil
    /\ pc[r] = "commit" => resp[r] \in {"200", "201"}
    /\ resp[r] = "201" => Op(r) = "register"
    /\ resp[r] = "200" => Op(r) \in {"login", "authenticate"}

(* A row that waits for its commit has its name to itself, and a tenant    *)
(* no other registration works for.                                        *)
NameReserved(r) ==
    /\ wu[r] # Nil => /\ pc[r] = "commit" /\ resp[r] = "201" /\ wu[r] = RowOf(r)
                      /\ user[r] # Nil /\ users[user[r]] = Nil
                      /\ ByName(NameOf(r)) = {}
                      /\ NameHolders(r, NameOf(r)) = {}
    /\ Op(r) = "register" /\ user[r] # Nil =>
           \A s \in Requests \ {r} : Op(s) = "register" => user[s] # user[r]

(* An account was registered by a request that was answered 201.           *)
Registered(t) ==
    users[t] # Nil => \E s \in Requests :
        /\ Op(s) = "register" /\ pc[s] = "done" /\ resp[s] = "201"
        /\ user[s] = t /\ users[t] = RowOf(s)

LoggedIn(r) ==
    Op(r) = "login" /\ resp[r] = "200" =>
        /\ user[r] # Nil /\ users[user[r]] # Nil
        /\ users[user[r]].password = call[r].password

AccountInv ==
    /\ TypeOK /\ OneAccountPerName
    /\ \A r \in Requests : HandlerInOrder(r) /\ NameReserved(r) /\ LoggedIn(r)
    /\ \A t \in Tenants : Registered(t)

(* With the commit before the response, answers and tokens are true.       *)
AnswerTrue(r) ==
    Op(r) = "register" =>
        /\ pc[r] = "commit" => wu[r] # Nil
        /\ pc[r] = "done" /\ resp[r] = "201" => user[r] # Nil /\ users[user[r]] = RowOf(r)
        /\ pc[r] = "done" /\ resp[r] # "201" /\ user[r] # Nil => users[user[r]] = Nil
        /\ pc[r] = "conflict" \/ resp[r] = "409" => ByName(NameOf(r)) # {}

TokenTrue(r) ==
    /\ token[r] # Nil /\ Op(r) = "register" => token[r].sub = NameOf(r)
    /\ token[r] # Nil /\ Op(r) = "login" =>
           user[r] # Nil /\ users[user[r]] # Nil /\ users[user[r]].username = token[r].sub
    /\ Op(r) = "authenticate" =>
           /\ token[r] = Nil
           /\ \E s \in Requests : Sent(s) /\ token[s] = call[r].token
           /\ resp[r] = "200" => user[r] \in ByName(call[r].token.sub)
           /\ resp[r] # "401_unknown"

HonestInv == AccountInv /\ \A r \in Requests : AnswerTrue(r) /\ TokenTrue(r)

(* A registration is answered truly: 201 when the account is there, with   *)
(* the password of that request and no other's, 409 when another took the  *)
(* name, even if both looked it up before (auth.py:36-59); whatever else   *)
(* happens leaves no account behind (database.py:28-30).                   *)
RegistrationIsTrue ==
    \A r \in Requests : Op(r) = "register" /\ pc[r] = "done" =>
        IF resp[r] = "201"
        THEN users[user[r]] = [username |-> NameOf(r), password |-> call[r].password]
        ELSE /\ user[r] # Nil => users[user[r]] = Nil
             /\ resp[r] = "409" => ByName(NameOf(r)) # {}

(* A token is good for the account it was issued for, and for no other, as *)
(* long as it lives: the name in it is found, and is the tenant's          *)
(* (security.py:30-37, deps.py:26-42).                                     *)
TokensAreHonoured ==
    \A r \in Requests : Op(r) = "authenticate" =>
        /\ resp[r] # "401_unknown"
        /\ resp[r] = "200" => \A s \in Requests :
               Sent(s) /\ token[s] = call[r].token => user[r] = user[s]

(* Only who was told that the account is theirs logs in to it: of several  *)
(* that registered one name, the one that was answered 201, with its own   *)
(* password (auth.py:79-83).                                               *)
OnlyTheOwnerLogsIn ==
    \A r \in Requests : Op(r) = "login" /\ resp[r] = "200" =>
        \E s \in Requests :
            /\ Op(s) = "register" /\ pc[s] = "done" /\ resp[s] = "201"
            /\ user[s] = user[r] /\ call[s].password = call[r].password

(* Every request that arrived is answered: an INSERT waits for no request  *)
(* that waits (auth.py:51-55, database.py:25-32).                          *)
EveryRequestAnswered ==
    \A r \in Requests : (pc[r] # "idle") ~> (pc[r] = "done")
=============================================================================
