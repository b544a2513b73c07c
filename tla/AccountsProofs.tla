--------------------------- MODULE AccountsProofs ---------------------------
(***************************************************************************)
(* Theorems about Accounts, for any clients, names, calls and lifetimes.   *)
(***************************************************************************)
EXTENDS Accounts, TLAPS

-----------------------------------------------------------------------------
(* Types.                                                                  *)

LEMMA InitType == Init => TypeOK
  BY AccountAssumption DEF Init, TypeOK, Labels, Times

LEMMA Bounds == MaxTime \in Nat /\ TokenLife \in Nat
  BY AccountAssumption

LEMMA ClockAdvances == clock \in Times /\ clock < MaxTime => clock + 1 \in Times
  BY Bounds DEF Times

LEMMA TokenExpires == TypeOK => clock + TokenLife \in 0 .. MaxTime + TokenLife
  BY Bounds DEF TypeOK, Times

LEMMA CallKinds ==
  ASSUME NEW c \in Calls \cup UseCall
  PROVE  /\ c.op = "register" => c \in RegisterCall
         /\ c.op = "login" => c \in LoginCall
         /\ c.op = "authenticate" => c \in UseCall
         /\ c.op \in {"register", "login", "authenticate"}
  BY AccountAssumption DEF RegisterCall, LoginCall, UseCall

(* Who presents a token presents one of the right form.                    *)
LEMMA TokenCall ==
  ASSUME TypeOK
  PROVE  {[op |-> "authenticate", token |-> token[s]] : s \in {q \in Requests : Sent(q)}}
             \subseteq UseCall
<1> SUFFICES ASSUME NEW s \in Requests, Sent(s)
             PROVE  [op |-> "authenticate", token |-> token[s]] \in UseCall
  OBVIOUS
<1>1. token[s] \in Token
  BY DEF Sent, TypeOK
<1> QED BY <1>1 DEF UseCall

LEMMA StepType ==
  ASSUME TypeOK, \A r \in Requests : HandlerInOrder(r), [Next]_vars
  PROVE  TypeOK'
<1> USE DEF TypeOK, Labels, Codes
<1>1. CASE UNCHANGED vars
  BY <1>1 DEF vars
<1>2. CASE Tick
  <2>1. clock' \in Times
    BY <1>2, ClockAdvances DEF Tick
  <2> QED BY <1>2, <2>1 DEF Tick
<1>3. ASSUME NEW r \in Requests, Begin(r) PROVE TypeOK'
  <2>1. PICK c \in Calls \cup UseCall : call' = [call EXCEPT ![r] = c] /\ Goto(r, c.op)
    BY <1>3, TokenCall DEF Begin
  <2>2. c.op \in Labels
    BY CallKinds
  <2> QED BY <1>3, <2>1, <2>2 DEF Begin, Goto
<1>4. ASSUME NEW r \in Requests, Register(r) PROVE TypeOK'
  BY <1>4 DEF Register, Raise, Goto, Forget
<1>5. ASSUME NEW r \in Requests, Conflict(r) PROVE TypeOK'
  BY <1>5 DEF Conflict, Raise, Forget
<1>6. ASSUME NEW r \in Requests, Decode(r) PROVE TypeOK'
  BY <1>6 DEF Decode, Raise, Goto, Forget
<1>7. ASSUME NEW r \in Requests, FindUser(r) PROVE TypeOK'
  <2>1. CASE Raise(r, "401_unknown") /\ UNCHANGED user
    BY <1>7, <2>1 DEF FindUser, Raise, Forget
  <2>2. ASSUME NEW t \in Tenants, user' = [user EXCEPT ![r] = t], Reply(r, "200"),
               UNCHANGED <<users, wu>>
        PROVE  TypeOK'
    BY <1>7, <2>2 DEF FindUser, Reply
  <2> QED BY <1>7, <2>1, <2>2 DEF FindUser, ByName
<1>8. ASSUME NEW r \in Requests, Fail(r) PROVE TypeOK'
  <2>1. PICK code \in Codes \cup {Nil} : Raise(r, code)
    BY <1>8 DEF Fail
  <2> QED BY <1>8, <2>1 DEF Fail, Raise, Forget
<1>9. ASSUME NEW r \in Requests, Commit(r) PROVE TypeOK'
  BY <1>9 DEF Commit, Insert, Forget
<1>10. ASSUME NEW r \in Requests, Login(r) PROVE TypeOK'
  <2>1. CASE Raise(r, "401") /\ UNCHANGED <<user, token>>
    BY <1>10, <2>1 DEF Login, Raise, Forget
  <2>2. ASSUME NEW t \in Match(r), user' = [user EXCEPT ![r] = t],
               Issue(r, users[t].username), Reply(r, "200"), UNCHANGED <<users, wu>>
        PROVE  TypeOK'
    <3>1. t \in Tenants /\ users[t].username \in Names
      BY <2>2 DEF Match, ByName, UserRow
    <3>2. [sub |-> users[t].username, exp |-> clock + TokenLife] \in Token
      BY <3>1, TokenExpires DEF Token
    <3> QED BY <1>10, <2>2, <3>1, <3>2 DEF Login, Issue, Reply
  <2> QED BY <1>10, <2>1, <2>2 DEF Login
<1>11. ASSUME NEW r \in Requests, FlushUser(r) PROVE TypeOK'
  <2>1. call[r] \in RegisterCall
    <3>1. call[r] \in Calls \cup UseCall /\ call[r].op = "register"
      BY <1>11 DEF HandlerInOrder, Op, FlushUser
    <3> QED BY <3>1, CallKinds
  <2>2. NameOf(r) \in Names /\ call[r].password \in Passwords
    BY <2>1, AccountAssumption DEF NameOf, RegisterCall
  <2>3. [username |-> NameOf(r), password |-> call[r].password] \in UserRow
    BY <2>2 DEF UserRow
  <2>4. [sub |-> NameOf(r), exp |-> clock + TokenLife] \in Token
    BY <2>2, TokenExpires DEF Token
  <2>5. ASSUME NEW t \in FreshTenants, user' = [user EXCEPT ![r] = t],
               wu' = [wu EXCEPT ![r] = RowOf(r)], Issue(r, NameOf(r)), Reply(r, "201")
        PROVE  TypeOK'
    BY <1>11, <2>3, <2>4, <2>5 DEF FlushUser, FreshTenants, Issue, Reply, RowOf
  <2>6. CASE Goto(r, "conflict") /\ UNCHANGED <<wu, user, token>>
    BY <1>11, <2>6 DEF FlushUser, Goto
  <2> QED BY <1>11, <2>5, <2>6 DEF FlushUser, RowOf
<1> QED
  BY <1>1, <1>2, <1>3, <1>4, <1>5, <1>6, <1>7, <1>8, <1>9, <1>10, <1>11
  DEF Next, Serve, Idle

-----------------------------------------------------------------------------
(* Registrations.  Requests other than r keep what they have, and so does  *)
(* the table, in every step of r but its commit.                           *)

OthersStay(r) ==
    \A s \in Requests \ {r} :
        /\ wu'[s] = wu[s] /\ call'[s] = call[s] /\ pc'[s] = pc[s]
        /\ resp'[s] = resp[s] /\ user'[s] = user[s] /\ token'[s] = token[s]

LEMMA StepOfOne ==
  ASSUME TypeOK, NEW r \in Requests, Begin(r) \/ Serve(r) \/ Fail(r)
  PROVE  OthersStay(r) /\ clock' = clock
  BY DEF TypeOK, OthersStay, Begin, Serve, Fail, Register, FlushUser, Conflict, Login,
         Decode, FindUser, Commit, Goto, Reply, Raise, Issue, Insert, Forget

LEMMA NilIsNone ==
  /\ Nil \notin UserRow /\ Nil \notin Token /\ Nil \notin Codes /\ Nil \notin Labels
  /\ Nil \notin Tenants /\ Nil \notin Calls /\ Nil \notin UseCall
  BY AccountAssumption

(* How a step of r ends.                                                   *)
LEMMA Raised ==
  ASSUME TypeOK, NEW r \in Requests, NEW code, Raise(r, code)
  PROVE  pc'[r] = "done" /\ resp'[r] = code /\ wu'[r] = Nil /\ users' = users
  BY DEF TypeOK, Raise, Forget

LEMMA Gone ==
  ASSUME TypeOK, NEW r \in Requests, NEW label, Goto(r, label)
  PROVE  pc'[r] = label /\ resp' = resp
  BY DEF TypeOK, Goto

LEMMA Replied ==
  ASSUME TypeOK, NEW r \in Requests, NEW code, Reply(r, code)
  PROVE  pc'[r] = "commit" /\ resp'[r] = code
  BY DEF TypeOK, Reply

(* The handler of r keeps its order: with what a request has is what its   *)
(* operation gave it.                                                      *)
LEMMA Order ==
  ASSUME AccountInv, NEW r \in Requests, Begin(r) \/ Serve(r) \/ Fail(r)
  PROVE  HandlerInOrder(r)'
<1>0. TypeOK /\ HandlerInOrder(r)
  BY DEF AccountInv
<1>1. CASE Begin(r)
  <2>1. PICK c \in Calls \cup UseCall : call'[r] = c /\ Goto(r, c.op)
    BY <1>0, <1>1, TokenCall DEF Begin, TypeOK
  <2> QED BY <1>0, <1>1, <2>1, Gone, CallKinds, NilIsNone DEF Begin, HandlerInOrder, Op
<1>2. CASE Register(r)
  BY <1>0, <1>2, Gone, Raised DEF Register, HandlerInOrder, Op
<1>3. CASE FlushUser(r)
  BY <1>0, <1>3, Gone, Replied DEF FlushUser, HandlerInOrder, Op
<1>4. CASE Conflict(r)
  BY <1>0, <1>4, Raised DEF Conflict, HandlerInOrder, Op
<1>5. CASE Login(r)
  BY <1>0, <1>5, Raised, Replied DEF Login, HandlerInOrder, Op
<1>6. CASE Decode(r)
  <2>0. pc[r] = "authenticate" /\ UNCHANGED <<call, user, token>>
    BY <1>6 DEF Decode
  <2>1. CASE Raise(r, "401_expired")
    BY <1>0, <2>0, <2>1, Raised DEF HandlerInOrder, Op
  <2>2. CASE Goto(r, "find_user") /\ UNCHANGED <<users, wu>>
    BY <1>0, <2>0, <2>2, Gone DEF HandlerInOrder, Op
  <2> QED BY <1>6, <2>1, <2>2 DEF Decode
<1>7. CASE FindUser(r)
  <2>0. pc[r] = "find_user" /\ UNCHANGED <<call, token>>
    BY <1>7 DEF FindUser
  <2>1. CASE Raise(r, "401_unknown") /\ UNCHANGED user
    BY <1>0, <2>0, <2>1, Raised DEF HandlerInOrder, Op
  <2>2. CASE Reply(r, "200") /\ UNCHANGED <<users, wu>>
    BY <1>0, <2>0, <2>2, Replied DEF HandlerInOrder, Op
  <2> QED BY <1>7, <2>1, <2>2 DEF FindUser
<1>8. CASE Commit(r)
  <2>1. pc'[r] = "done"
    BY <1>0, <1>8 DEF Commit, TypeOK
  <2> QED BY <1>0, <1>8, <2>1 DEF Commit, HandlerInOrder, Op
<1>9. CASE Fail(r)
  <2>1. pc'[r] = "done" /\ resp'[r] \in {resp[r], "OperationalError"} /\ wu'[r] = Nil
    BY <1>0, <1>9, Raised DEF Fail
  <2> QED BY <1>0, <1>9, <2>1 DEF Fail, InFlight, HandlerInOrder, Op
<1> QED BY <1>1, <1>2, <1>3, <1>4, <1>5, <1>6, <1>7, <1>8, <1>9 DEF Serve

(* To the table, a step of r is the INSERT of its row, the commit of that  *)
(* row, or nothing.                                                        *)
Inserts(r) ==
    /\ pc[r] = "flush_user" /\ pc'[r] = "commit" /\ resp'[r] = "201"
    /\ call'[r] = call[r] /\ user'[r] \in FreshTenants /\ wu'[r] = RowOf(r)
    /\ ByName(NameOf(r)) = {} /\ NameHolders(r, NameOf(r)) = {}
    /\ token'[r].sub = NameOf(r)
    /\ users' = users

Commits(r) ==
    /\ pc[r] = "commit" /\ pc'[r] = "done" /\ wu[r] # Nil /\ wu'[r] = Nil
    /\ users' = [users EXCEPT ![user[r]] = wu[r]]
    /\ call'[r] = call[r] /\ resp'[r] = resp[r] /\ user'[r] = user[r]
    /\ token'[r] = token[r]

Quiet(r) ==
    /\ users' = users /\ wu'[r] = Nil
    /\ Op(r)' = "register" => user'[r] = user[r] /\ (Op(r) = "register" \/ user[r] = Nil)

LEMMA StepKinds ==
  ASSUME AccountInv, NEW r \in Requests, Begin(r) \/ Serve(r) \/ Fail(r)
  PROVE  Inserts(r) \/ Commits(r) \/ Quiet(r)
<1>0. TypeOK /\ HandlerInOrder(r)
  BY DEF AccountInv
<1>a. ASSUME NEW code, Raise(r, code), call'[r] = call[r], user'[r] = user[r]
      PROVE  Quiet(r)
  BY <1>0, <1>a, Raised DEF Quiet, Op
<1>1. CASE Begin(r)
  BY <1>0, <1>1 DEF Begin, Quiet, HandlerInOrder
<1>2. CASE Register(r)
  BY <1>0, <1>2, <1>a DEF Register, Quiet, HandlerInOrder, Op
<1>3. CASE FlushUser(r)
  <2>1. CASE Goto(r, "conflict") /\ UNCHANGED <<wu, user, token>>
    BY <1>0, <1>3, <2>1 DEF FlushUser, Quiet, HandlerInOrder, Op
  <2>2. ASSUME NEW t \in FreshTenants, user' = [user EXCEPT ![r] = t],
               ~ NameTaken(NameOf(r)), wu' = [wu EXCEPT ![r] = RowOf(r)],
               Issue(r, NameOf(r)), Reply(r, "201")
        PROVE  Inserts(r)
    <3>1. user'[r] = t /\ wu'[r] = RowOf(r)
      BY <1>0, <2>2 DEF TypeOK
    <3>2. token'[r].sub = NameOf(r)
      BY <1>0, <2>2 DEF TypeOK, Issue
    <3> QED BY <1>0, <1>3, <2>2, <3>1, <3>2, Replied DEF FlushUser, Inserts, NameTaken
  <2> QED BY <1>3, <2>1, <2>2 DEF FlushUser, RowOf
<1>4. CASE Conflict(r)
  BY <1>4, <1>a DEF Conflict
<1>5. CASE Login(r)
  <2>1. Op(r)' # "register" /\ (users' = users)
    BY <1>0, <1>5, Raised DEF Login, HandlerInOrder, Op
  <2>2. wu'[r] = Nil
    BY <1>0, <1>5, Raised DEF Login, HandlerInOrder
  <2> QED BY <2>1, <2>2 DEF Quiet
<1>6. CASE Decode(r)
  <2>1. CASE Raise(r, "401_expired")
    BY <1>6, <2>1, <1>a DEF Decode
  <2>2. CASE Goto(r, "find_user") /\ UNCHANGED <<users, wu>>
    BY <1>0, <1>6, <2>2 DEF Decode, Quiet, HandlerInOrder, Op
  <2> QED BY <1>6, <2>1, <2>2 DEF Decode
<1>7. CASE FindUser(r)
  <2>1. Op(r)' # "register" /\ users' = users
    BY <1>0, <1>7, Raised DEF FindUser, HandlerInOrder, Op
  <2>2. wu'[r] = Nil
    BY <1>0, <1>7, Raised DEF FindUser, HandlerInOrder
  <2> QED BY <2>1, <2>2 DEF Quiet
<1>8. CASE Commit(r)
  <2>1. wu'[r] = Nil /\ pc'[r] = "done" /\ UNCHANGED <<call, resp, user, token>> /\ Insert(r)
    BY <1>0, <1>8 DEF Commit, Forget, TypeOK
  <2>2. CASE wu[r] = Nil
    BY <2>1, <2>2 DEF Insert, Quiet, Op
  <2>3. CASE wu[r] # Nil
    BY <1>8, <2>1, <2>3 DEF Insert, Commits, Commit
  <2> QED BY <2>2, <2>3
<1>9. CASE Fail(r)
  BY <1>9, <1>a DEF Fail
<1> QED BY <1>1, <1>2, <1>3, <1>4, <1>5, <1>6, <1>7, <1>8, <1>9 DEF Serve

(* An account stays as it was registered.                                  *)
LEMMA AccountsStay ==
  ASSUME AccountInv, NEW r \in Requests, Begin(r) \/ Serve(r) \/ Fail(r),
         NEW t \in Tenants, users[t] # Nil
  PROVE  users'[t] = users[t]
  BY StepKinds DEF AccountInv, TypeOK, NameReserved, Inserts, Commits, Quiet

(* What a request says of itself stays while it does not move.             *)
LEMMA RestStays ==
  ASSUME NEW r \in Requests, OthersStay(r), NEW s \in Requests, s # r
  PROVE  /\ HandlerInOrder(s) => HandlerInOrder(s)'
         /\ Op(s)' = Op(s) /\ NameOf(s)' = NameOf(s) /\ RowOf(s)' = RowOf(s)
  BY DEF OthersStay, HandlerInOrder, Op, NameOf, RowOf

LEMMA OneAccountStep ==
  ASSUME AccountInv, NEW r \in Requests, Begin(r) \/ Serve(r) \/ Fail(r)
  PROVE  OneAccountPerName'
<1>1. CASE users' = users
  BY <1>1 DEF AccountInv, OneAccountPerName
<1>2. CASE Commits(r)
  <2>1. /\ user[r] \in Tenants /\ ByName(wu[r].username) = {}
        /\ \A t \in Tenants : users'[t] = IF t = user[r] THEN wu[r] ELSE users[t]
    BY <1>2 DEF Commits, AccountInv, NameReserved, RowOf, TypeOK
  <2> QED BY <2>1 DEF AccountInv, OneAccountPerName, ByName
<1> QED BY <1>1, <1>2, StepKinds DEF Inserts, Quiet

LEMMA ReservedStep ==
  ASSUME AccountInv, NEW r \in Requests, Begin(r) \/ Serve(r) \/ Fail(r),
         NEW s \in Requests
  PROVE  NameReserved(s)'
<1>0. OthersStay(r) /\ TypeOK
  BY StepOfOne DEF AccountInv
<1>1. CASE Inserts(r)
  <2>1. CASE s = r
    <3>1. wu[r] = Nil /\ user[r] = Nil /\ Op(r) = "register"
      BY <1>1 DEF AccountInv, HandlerInOrder, Inserts
    <3>2. NameOf(r)' = NameOf(r) /\ RowOf(r)' = RowOf(r) /\ Op(r)' = Op(r)
      BY <1>1 DEF Inserts, NameOf, RowOf, Op
    <3>3. /\ user'[r] # Nil /\ users'[user'[r]] = Nil
          /\ \A q \in Requests \ {r} : user'[q] # user'[r]
      BY <1>0, <1>1, NilIsNone DEF Inserts, FreshTenants, OthersStay
    <3>4. NameHolders(r, NameOf(r))' = {} /\ ByName(NameOf(r))' = {}
      BY <1>0, <1>1, <3>2 DEF Inserts, NameHolders, ByName, OthersStay
    <3> QED BY <1>1, <2>1, <3>2, <3>3, <3>4 DEF NameReserved, Inserts
  <2>2. CASE s # r
    <3>1. NameReserved(s) /\ Op(s)' = Op(s) /\ NameOf(s)' = NameOf(s) /\ RowOf(s)' = RowOf(s)
      BY <1>0, <2>2, RestStays DEF AccountInv
    <3>2. wu[s] # Nil => NameHolders(s, NameOf(s))' = {}
      <4>1. SUFFICES ASSUME wu[s] # Nil PROVE NameHolders(s, NameOf(s))' = {}
        OBVIOUS
      <4>2. NameOf(s) # NameOf(r)
        BY <1>1, <2>2, <3>1, <4>1 DEF Inserts, NameHolders, NameReserved, RowOf
      <4> QED BY <1>0, <1>1, <2>2, <3>1, <4>1, <4>2
              DEF Inserts, NameHolders, NameReserved, RowOf, OthersStay
    <3>3. ByName(NameOf(s))' = ByName(NameOf(s))
      BY <1>1, <3>1 DEF Inserts, ByName
    <3>4. \A q \in Requests \ {r} : user'[r] # user[q]
      BY <1>1 DEF Inserts, FreshTenants
    <3>5. \A q \in Requests \ {s} : Op(s) = "register" /\ user[s] # Nil /\ Op(q)' = "register"
                                   => user'[q] # user[s]
      BY <1>0, <2>2, <3>1, <3>4, RestStays DEF NameReserved, OthersStay
    <3> QED BY <1>0, <1>1, <2>2, <3>1, <3>2, <3>3, <3>5 DEF NameReserved, OthersStay, Inserts
  <2> QED BY <2>1, <2>2
<1>2. CASE Commits(r)
  <2>1. /\ user[r] \in Tenants /\ Op(r) = "register" /\ NameReserved(r)
        /\ \A t \in Tenants : users'[t] = IF t = user[r] THEN wu[r] ELSE users[t]
    BY <1>0, <1>2 DEF Commits, AccountInv, HandlerInOrder, NameReserved, TypeOK
  <2>2. \A q \in Requests : Op(q)' = Op(q) /\ user'[q] = user[q]
    BY <1>0, <1>2, RestStays DEF Commits, OthersStay, Op
  <2>3. CASE s = r
    BY <1>2, <2>1, <2>2, <2>3 DEF Commits, NameReserved
  <2>4. CASE s # r
    <3>1. NameReserved(s) /\ NameOf(s)' = NameOf(s) /\ RowOf(s)' = RowOf(s)
      BY <1>0, <2>4, RestStays DEF AccountInv
    <3>2. wu[s] # Nil => /\ users'[user[s]] = Nil
                        /\ ByName(NameOf(s))' = {} /\ NameHolders(s, NameOf(s))' = {}
      <4> SUFFICES ASSUME wu[s] # Nil
                   PROVE  /\ users'[user[s]] = Nil
                          /\ ByName(NameOf(s))' = {} /\ NameHolders(s, NameOf(s))' = {}
        OBVIOUS
      <4>1. wu[r].username # NameOf(s) /\ Op(s) = "register" /\ user[s] # user[r]
        BY <1>2, <2>1, <2>4, <3>1 DEF Commits, NameHolders, NameReserved, AccountInv, HandlerInOrder
      <4>2. users'[user[s]] = Nil
        BY <1>0, <2>1, <3>1, <4>1 DEF NameReserved, TypeOK
      <4>3. ByName(NameOf(s))' = {}
        BY <2>1, <3>1, <4>1 DEF ByName, NameReserved
      <4>4. NameHolders(s, NameOf(s))' = {}
        BY <1>0, <1>2, <3>1 DEF NameHolders, NameReserved, Commits, OthersStay
      <4> QED BY <4>2, <4>3, <4>4
    <3> QED BY <1>0, <2>2, <2>4, <3>1, <3>2 DEF NameReserved, OthersStay
  <2> QED BY <2>3, <2>4
<1>3. CASE Quiet(r)
  <2>1. \A q \in Requests : Op(q)' = "register" =>
            user'[q] = user[q] /\ (Op(q) = "register" \/ user[q] = Nil)
    BY <1>0, <1>3, RestStays DEF Quiet, OthersStay
  <2>2. NameReserved(s)
    BY DEF AccountInv
  <2>3. CASE s = r
    BY <1>3, <2>1, <2>2, <2>3 DEF NameReserved, Quiet
  <2>4. CASE s # r
    <3>1. Op(s)' = Op(s) /\ NameOf(s)' = NameOf(s) /\ RowOf(s)' = RowOf(s)
      BY <1>0, <2>4, RestStays
    <3>2. ByName(NameOf(s))' = ByName(NameOf(s))
      BY <1>3, <3>1 DEF Quiet, ByName
    <3>3. NameHolders(s, NameOf(s))' \subseteq NameHolders(s, NameOf(s))
      BY <1>0, <1>3, <3>1 DEF Quiet, NameHolders, OthersStay
    <3> QED BY <1>0, <1>3, <2>1, <2>2, <2>4, <3>1, <3>2, <3>3 DEF NameReserved, Quiet, OthersStay
  <2> QED BY <2>3, <2>4
<1> QED BY <1>1, <1>2, <1>3, StepKinds

LEMMA DoneIsOver ==
  ASSUME NEW r \in Requests, Begin(r) \/ Serve(r) \/ Fail(r)
  PROVE  pc[r] # "done"
  BY DEF Begin, Serve, Fail, Register, FlushUser, Conflict, Login, Decode, FindUser,
         Commit, InFlight

(* Only a login gives a login its answer.                                  *)
LEMMA LoginAnswers ==
  ASSUME TypeOK, NEW r \in Requests, HandlerInOrder(r),
         Begin(r) \/ Serve(r) \/ Fail(r), ~ Login(r),
         Op(r)' = "login", resp'[r] = "200"
  PROVE  resp[r] = "200" /\ Op(r) = "login" /\ UNCHANGED <<call, user>>
<1>1. CASE Begin(r)
  <2>1. resp'[r] = Nil
    BY <1>1, Gone DEF Begin, HandlerInOrder
  <2> QED BY <2>1, NilIsNone DEF Codes
<1>2. CASE Register(r)
  BY <1>2, Gone, Raised DEF Register, HandlerInOrder, Op
<1>3. CASE FlushUser(r)
  BY <1>3, Gone, Replied DEF FlushUser, HandlerInOrder, Op
<1>4. CASE Conflict(r)
  BY <1>4, Raised DEF Conflict
<1>6. CASE Decode(r)
  <2>1. pc[r] = "authenticate" /\ call' = call
    BY <1>6 DEF Decode
  <2> QED BY <2>1 DEF HandlerInOrder, Op
<1>7. CASE FindUser(r)
  <2>1. pc[r] = "find_user" /\ call' = call
    BY <1>7 DEF FindUser
  <2> QED BY <2>1 DEF HandlerInOrder, Op
<1>8. CASE Commit(r)
  BY <1>8 DEF Commit, Op
<1>9. CASE Fail(r)
  BY <1>9, Raised DEF Fail, Op
<1> QED BY <1>1, <1>2, <1>3, <1>4, <1>6, <1>7, <1>8, <1>9 DEF Serve

LEMMA RegisteredStep ==
  ASSUME AccountInv, NEW r \in Requests, Begin(r) \/ Serve(r) \/ Fail(r),
         NEW t \in Tenants
  PROVE  Registered(t)'
<1>0. OthersStay(r) /\ TypeOK /\ Registered(t) /\ HandlerInOrder(r)
  BY StepOfOne DEF AccountInv
<1> SUFFICES ASSUME users'[t] # Nil
             PROVE  \E s \in Requests :
                        /\ Op(s)' = "register" /\ pc'[s] = "done" /\ resp'[s] = "201"
                        /\ user'[s] = t /\ users'[t] = RowOf(s)'
  BY DEF Registered
<1>1. CASE users[t] # Nil
  <2>1. PICK s \in Requests :
            /\ Op(s) = "register" /\ pc[s] = "done" /\ resp[s] = "201"
            /\ user[s] = t /\ users[t] = RowOf(s)
    BY <1>0, <1>1 DEF Registered
  <2>2. s # r
    BY <2>1, DoneIsOver
  <2>3. users'[t] = users[t]
    BY <1>1, AccountsStay
  <2>4. Op(s)' = Op(s) /\ RowOf(s)' = RowOf(s)
    BY <1>0, <2>2, RestStays
  <2> QED BY <1>0, <2>1, <2>2, <2>3, <2>4 DEF OthersStay
<1>2. CASE users[t] = Nil
  <2>1. Commits(r)
    BY <1>2, StepKinds DEF Inserts, Quiet
  <2>2. /\ user[r] \in Tenants /\ Op(r) = "register" /\ NameReserved(r)
        /\ users'[t] = IF t = user[r] THEN wu[r] ELSE users[t]
    BY <1>0, <2>1 DEF Commits, AccountInv, HandlerInOrder, NameReserved, TypeOK
  <2>3. Op(r)' = Op(r) /\ RowOf(r)' = RowOf(r)
    BY <2>1 DEF Commits, Op, RowOf, NameOf
  <2>4. t = user[r] /\ users'[t] = RowOf(r) /\ resp[r] = "201"
    BY <1>2, <2>1, <2>2 DEF NameReserved, Commits
  <2> QED BY <2>1, <2>2, <2>3, <2>4 DEF Commits
<1> QED BY <1>1, <1>2

LEMMA LoggedInStep ==
  ASSUME AccountInv, NEW r \in Requests, Begin(r) \/ Serve(r) \/ Fail(r),
         NEW s \in Requests
  PROVE  LoggedIn(s)'
<1>0. OthersStay(r) /\ TypeOK /\ LoggedIn(s) /\ HandlerInOrder(r)
  BY StepOfOne DEF AccountInv
<1> SUFFICES ASSUME Op(s)' = "login", resp'[s] = "200"
             PROVE  /\ user'[s] # Nil /\ users'[user'[s]] # Nil
                    /\ users'[user'[s]].password = call'[s].password
  BY DEF LoggedIn
<1>1. ASSUME Op(s) = "login", resp[s] = "200", user'[s] = user[s], call'[s] = call[s]
      PROVE  /\ user'[s] # Nil /\ users'[user'[s]] # Nil
             /\ users'[user'[s]].password = call'[s].password
  <2>1. user[s] \in Tenants /\ users[user[s]] # Nil
    BY <1>0, <1>1 DEF LoggedIn, TypeOK
  <2> QED BY <1>0, <1>1, <2>1, AccountsStay DEF LoggedIn
<1>2. CASE s # r
  BY <1>0, <1>1, <1>2, RestStays DEF OthersStay
<1>3. CASE s = r /\ Login(r)
  <2>1. PICK t \in Match(r) : user' = [user EXCEPT ![r] = t] /\ UNCHANGED <<users, wu>>
    BY <1>0, <1>3, Raised DEF Login
  <2>2. call' = call /\ user'[r] = t
    BY <1>0, <1>3, <2>1 DEF Login, TypeOK
  <2> QED BY <1>3, <2>1, <2>2, NilIsNone DEF Match, ByName
<1>4. CASE s = r /\ ~ Login(r)
  <2>1. resp[r] = "200" /\ Op(r) = "login" /\ UNCHANGED <<call, user>>
    BY <1>0, <1>4, LoginAnswers
  <2> QED BY <1>1, <1>4, <2>1
<1> QED BY <1>2, <1>3, <1>4

(* AccountInv is inductive.                                                *)
LEMMA InitInv == Init => AccountInv
<1> SUFFICES ASSUME Init PROVE AccountInv
  OBVIOUS
<1>1. TypeOK
  BY InitType
<1>2. OneAccountPerName /\ \A t \in Tenants : Registered(t)
  BY DEF Init, OneAccountPerName, Registered
<1>3. ASSUME NEW r \in Requests
      PROVE  HandlerInOrder(r) /\ NameReserved(r) /\ LoggedIn(r)
  BY NilIsNone DEF Init, HandlerInOrder, NameReserved, LoggedIn, Op, Codes
<1> QED BY <1>1, <1>2, <1>3 DEF AccountInv

LEMMA NextInv == AccountInv /\ [Next]_vars => AccountInv'
<1> SUFFICES ASSUME AccountInv, [Next]_vars PROVE AccountInv'
  OBVIOUS
<1>1. TypeOK'
  BY StepType DEF AccountInv
<1>2. ASSUME NEW r \in Requests, Begin(r) \/ Serve(r) \/ Fail(r)
      PROVE  AccountInv'
  <2>1. OneAccountPerName' /\ \A t \in Tenants : Registered(t)'
    BY <1>2, OneAccountStep, RegisteredStep
  <2>2. ASSUME NEW s \in Requests
        PROVE  HandlerInOrder(s)' /\ NameReserved(s)' /\ LoggedIn(s)'
    <3>1. HandlerInOrder(s)'
      BY <1>2, Order, StepOfOne, RestStays DEF AccountInv
    <3> QED BY <1>2, <3>1, ReservedStep, LoggedInStep
  <2> QED BY <1>1, <2>1, <2>2 DEF AccountInv
<1>3. CASE Tick \/ UNCHANGED vars
  <2>1. UNCHANGED <<users, wu, call, pc, resp, user, token>>
    BY <1>3 DEF Tick, vars
  <2>2. OneAccountPerName'
    BY <2>1 DEF AccountInv, OneAccountPerName
  <2>3. ASSUME NEW s \in Requests
        PROVE  HandlerInOrder(s)' /\ NameReserved(s)' /\ LoggedIn(s)'
    BY <2>1 DEF AccountInv, HandlerInOrder, NameReserved, LoggedIn, Op, NameOf, RowOf,
                ByName, NameHolders
  <2>4. \A t \in Tenants : Registered(t)'
    BY <2>1 DEF AccountInv, Registered, Op, NameOf, RowOf
  <2> QED BY <1>1, <2>2, <2>3, <2>4 DEF AccountInv
<1> QED BY <1>2, <1>3 DEF Next, Idle

THEOREM Invariance == Spec => []AccountInv
<1> QED BY InitInv, NextInv, PTL DEF Spec

(* The variables hold values of their types.                               *)
THEOREM TypeCorrectness == Spec => []TypeOK
<1>1. AccountInv => TypeOK
  BY DEF AccountInv
<1> QED BY <1>1, Invariance, PTL

(* However registrations of one name overlap, at most one account has it.  *)
THEOREM NamesAreUnique == Spec => []OneAccountPerName
<1>1. AccountInv => OneAccountPerName
  BY DEF AccountInv
<1> QED BY <1>1, Invariance, PTL

(* Whoever logs in to an account presents the password of the registration *)
(* that was answered 201, also when the commit follows the response.       *)
THEOREM LoginsAreOwned == Spec => []OnlyTheOwnerLogsIn
<1>1. ASSUME AccountInv PROVE OnlyTheOwnerLogsIn
  <2> SUFFICES ASSUME NEW r \in Requests, Op(r) = "login", resp[r] = "200"
               PROVE  \E s \in Requests :
                          /\ Op(s) = "register" /\ pc[s] = "done" /\ resp[s] = "201"
                          /\ user[s] = user[r] /\ call[s].password = call[r].password
    BY DEF OnlyTheOwnerLogsIn
  <2>1. user[r] \in Tenants /\ users[user[r]] # Nil
        /\ users[user[r]].password = call[r].password
    BY <1>1 DEF AccountInv, LoggedIn, TypeOK
  <2>2. Registered(user[r])
    BY <1>1, <2>1 DEF AccountInv
  <2>3. PICK s \in Requests :
            /\ Op(s) = "register" /\ pc[s] = "done" /\ resp[s] = "201"
            /\ user[s] = user[r] /\ users[user[r]] = RowOf(s)
    BY <2>1, <2>2 DEF Registered
  <2>4. call[s].password = call[r].password
    BY <2>1, <2>3 DEF RowOf
  <2> QED BY <2>3, <2>4
<1> QED BY <1>1, Invariance, PTL

-----------------------------------------------------------------------------
(* Answers and tokens, when the commit precedes the response.              *)

LEMMA RowTyped ==
  ASSUME TypeOK, NEW r \in Requests, Op(r) = "register"
  PROVE  RowOf(r) \in UserRow /\ RowOf(r) # Nil /\ NameOf(r) \in Names
<1>1. call[r] \in RegisterCall
  BY CallKinds, NilIsNone DEF TypeOK, Op, Labels
<1>2. NameOf(r) \in Names /\ call[r].password \in Passwords
  BY <1>1, AccountAssumption DEF NameOf, RegisterCall
<1>3. RowOf(r) \in UserRow
  BY <1>2 DEF RowOf, UserRow
<1> QED BY <1>2, <1>3, NilIsNone

LEMMA NamesStay ==
  ASSUME AccountInv, NEW r \in Requests, Begin(r) \/ Serve(r) \/ Fail(r), NEW n
  PROVE  ByName(n) \subseteq ByName(n)'
<1> SUFFICES ASSUME NEW t \in Tenants, users[t] # Nil, users[t].username = n
             PROVE  users'[t] # Nil /\ users'[t].username = n
  BY DEF ByName
<1>1. users'[t] = users[t]
  BY AccountsStay
<1> QED BY <1>1

(* A registration is refused for a reason, or fails.                       *)
LEMMA RefusedStep ==
  ASSUME AnswerFirst = FALSE, AccountInv, NEW r \in Requests, AnswerTrue(r),
         Begin(r) \/ Serve(r) \/ Fail(r), Quiet(r), Op(r)' = "register"
  PROVE  /\ pc'[r] # "commit"
         /\ pc'[r] = "done" => resp'[r] # "201"
         /\ pc'[r] = "conflict" \/ resp'[r] = "409" =>
                NameOf(r)' = NameOf(r) /\ ByName(NameOf(r)) # {}
         /\ token'[r] = token[r] /\ ((NameOf(r)' = NameOf(r) /\ Op(r) = "register") \/ token[r] = Nil)
<1>0. TypeOK /\ HandlerInOrder(r)
  BY DEF AccountInv
<1>1. CASE Begin(r)
  <2>1. pc'[r] \in {"register", "login", "authenticate"} /\ resp'[r] = Nil /\ UNCHANGED token
    <3>1. PICK c \in Calls \cup UseCall : Goto(r, c.op)
      BY <1>0, <1>1, TokenCall DEF Begin
    <3> QED BY <1>0, <1>1, <3>1, Gone, CallKinds DEF Begin, HandlerInOrder
  <2> QED BY <1>0, <1>1, <2>1, NilIsNone DEF Codes, Begin, HandlerInOrder
<1>2. CASE Register(r)
  <2>1. UNCHANGED <<call, user, token>> /\ pc[r] = "register"
    BY <1>2 DEF Register
  <2>2. CASE ByName(NameOf(r)) # {} /\ Raise(r, "409")
    BY <1>0, <2>1, <2>2, Raised DEF NameOf, HandlerInOrder
  <2>3. CASE Goto(r, "flush_user")
    BY <1>0, <2>1, <2>3, Gone, NilIsNone DEF NameOf, HandlerInOrder, Codes
  <2> QED BY <1>2, <2>2, <2>3 DEF Register
<1>3. CASE FlushUser(r)
  <2>1. Goto(r, "conflict") /\ NameTaken(NameOf(r)) /\ UNCHANGED <<call, token>>
    <3>1. ASSUME Reply(r, "201"), wu' = [wu EXCEPT ![r] = RowOf(r)] PROVE FALSE
      <4>1. wu'[r] = RowOf(r) /\ Op(r) = "register"
        BY <1>0, <1>3, <3>1 DEF TypeOK, FlushUser, HandlerInOrder
      <4> QED BY <1>0, <4>1, RowTyped DEF Quiet
    <3> QED BY <1>3, <3>1 DEF FlushUser, RowOf
  <2> QED BY <1>0, <1>3, <2>1, Gone, NilIsNone
          DEF NameTaken, NameOf, HandlerInOrder, Codes, FlushUser
<1>4. CASE Conflict(r)
  <2>1. ByName(NameOf(r)) # {}
    BY <1>0, <1>4 DEF Conflict, AnswerTrue, HandlerInOrder
  <2> QED BY <1>0, <1>4, <2>1, Raised DEF Conflict, NameOf, HandlerInOrder
<1>5. CASE Login(r)
  BY <1>0, <1>5 DEF Login, HandlerInOrder, Op
<1>6. CASE Decode(r)
  <2>1. pc[r] = "authenticate" /\ call' = call
    BY <1>6 DEF Decode
  <2> QED BY <1>0, <2>1 DEF HandlerInOrder, Op
<1>7. CASE FindUser(r)
  <2>1. pc[r] = "find_user" /\ call' = call
    BY <1>7 DEF FindUser
  <2> QED BY <1>0, <2>1 DEF HandlerInOrder, Op
<1>8. CASE Commit(r)
  <2>1. wu[r] # Nil /\ user[r] \in Tenants /\ users[user[r]] = Nil
    BY <1>0, <1>8 DEF Commit, AnswerTrue, Op, AccountInv, NameReserved, TypeOK
  <2>2. users'[user[r]] = wu[r]
    BY <1>0, <1>8, <2>1 DEF Commit, Insert, TypeOK
  <2> QED BY <2>1, <2>2 DEF Quiet
<1>9. CASE Fail(r)
  <2>1. pc[r] # "done" /\ Raise(r, "OperationalError") /\ UNCHANGED <<call, token>>
    BY <1>9 DEF Fail, InFlight, Answered
  <2> QED BY <1>0, <2>1, Raised DEF NameOf, Op
<1> QED BY <1>1, <1>2, <1>3, <1>4, <1>5, <1>6, <1>7, <1>8, <1>9 DEF Serve

LEMMA AnswerStep ==
  ASSUME AnswerFirst = FALSE, HonestInv, NEW r \in Requests,
         Begin(r) \/ Serve(r) \/ Fail(r), NEW s \in Requests
  PROVE  AnswerTrue(s)'
<1>0. AccountInv /\ TypeOK /\ OthersStay(r) /\ AnswerTrue(s) /\ HandlerInOrder(s)
  BY StepOfOne DEF HonestInv, AccountInv
<1> SUFFICES ASSUME Op(s)' = "register"
             PROVE  AnswerTrue(s)'
  BY DEF AnswerTrue
<1>1. CASE s # r
  <2>1. /\ Op(s) = "register" /\ RowOf(s)' = RowOf(s) /\ NameOf(s)' = NameOf(s)
        /\ pc'[s] = pc[s] /\ resp'[s] = resp[s] /\ user'[s] = user[s] /\ wu'[s] = wu[s]
    BY <1>0, <1>1, RestStays DEF OthersStay
  <2>2. ByName(NameOf(s)) \subseteq ByName(NameOf(s))'
    BY <1>0, <2>1, NamesStay DEF ByName
  <2>3. ASSUME pc[s] = "done", resp[s] = "201"
        PROVE  user[s] # Nil /\ users'[user[s]] = RowOf(s)
    <3>1. user[s] \in Tenants /\ users[user[s]] = RowOf(s) /\ RowOf(s) # Nil
      BY <1>0, <2>1, <2>3, RowTyped DEF AnswerTrue, TypeOK
    <3> QED BY <1>0, <3>1, AccountsStay, NilIsNone
  <2>4. ASSUME pc[s] = "done", resp[s] # "201", user[s] # Nil
        PROVE  users'[user[s]] = Nil
    <3>1. user[s] \in Tenants /\ users[user[s]] = Nil
      BY <1>0, <2>1, <2>4 DEF AnswerTrue, TypeOK
    <3>2. CASE users' = users
      BY <3>1, <3>2
    <3>3. CASE Commits(r)
      <4>1. user[s] # user[r]
        BY <1>0, <1>1, <2>1, <2>4, <3>3
           DEF AccountInv, NameReserved, HandlerInOrder, Commits
      <4> QED BY <1>0, <3>1, <3>3, <4>1 DEF Commits, TypeOK
    <3> QED BY <1>0, <3>2, <3>3, StepKinds DEF Inserts, Quiet
  <2> QED BY <1>0, <2>1, <2>2, <2>3, <2>4 DEF AnswerTrue
<1>2. CASE s = r /\ Inserts(r)
  <2>1. Op(r) = "register" /\ wu'[r] = RowOf(r)
    BY <1>2 DEF Inserts, Op
  <2>2. wu'[r] # Nil
    BY <1>0, <2>1, RowTyped
  <2> QED BY <1>2, <2>2 DEF Inserts, AnswerTrue
<1>3. CASE s = r /\ Commits(r)
  <2>1. /\ user[r] \in Tenants /\ wu[r] = RowOf(r) /\ resp[r] = "201"
        /\ users'[user[r]] = wu[r]
    BY <1>0, <1>3 DEF Commits, AccountInv, NameReserved, TypeOK
  <2>2. RowOf(r)' = RowOf(r)
    BY <1>3 DEF Commits, RowOf, NameOf
  <2> QED BY <1>3, <2>1, <2>2, NilIsNone DEF Commits, AnswerTrue
<1>4. CASE s = r /\ Quiet(r)
  <2>1. /\ pc'[r] # "commit" /\ (pc'[r] = "done" => resp'[r] # "201")
        /\ pc'[r] = "conflict" \/ resp'[r] = "409" => (ByName(NameOf(r)) # {})'
    BY <1>0, <1>4, RefusedStep DEF Quiet, ByName
  <2>2. user[r] # Nil => user[r] \in Tenants /\ users[user[r]] = Nil
    <3>1. CASE Op(r) = "register"
      BY <1>0, <1>4, <3>1, DoneIsOver DEF AccountInv, HandlerInOrder, NameReserved, AnswerTrue, TypeOK
    <3>2. CASE Op(r) # "register"
      BY <1>4, <3>2 DEF Quiet
    <3> QED BY <3>1, <3>2
  <2> QED BY <1>4, <2>1, <2>2 DEF Quiet, AnswerTrue
<1> QED BY <1>0, <1>1, <1>2, <1>3, <1>4, StepKinds

(* A token that was sent names the account of whom it was sent to.         *)
LEMMA SentToken ==
  ASSUME AnswerFirst = FALSE, HonestInv, NEW q \in Requests, Sent(q)
  PROVE  user[q] \in Tenants /\ users[user[q]] # Nil /\ users[user[q]].username = token[q].sub
<1>0. /\ TypeOK /\ HandlerInOrder(q) /\ AnswerTrue(q) /\ TokenTrue(q)
      /\ pc[q] = "done" /\ resp[q] \in {"200", "201"} /\ token[q] # Nil
  BY DEF HonestInv, AccountInv, Sent, Answered
<1>1. CASE Op(q) = "register"
  <2>1. user[q] \in Tenants /\ users[user[q]] = RowOf(q) /\ RowOf(q) # Nil
    BY <1>0, <1>1, RowTyped DEF AnswerTrue, HandlerInOrder, TypeOK
  <2> QED BY <1>0, <1>1, <2>1 DEF TokenTrue, RowOf
<1>2. CASE Op(q) = "login"
  BY <1>0, <1>2 DEF TokenTrue, TypeOK
<1>3. CASE Op(q) = "authenticate"
  BY <1>0, <1>3 DEF TokenTrue
<1> QED BY <1>0, <1>1, <1>2, <1>3 DEF HandlerInOrder

LEMMA SentStays ==
  ASSUME AnswerFirst = FALSE, NEW r \in Requests, OthersStay(r),
         Begin(r) \/ Serve(r) \/ Fail(r), NEW q \in Requests, Sent(q)
  PROVE  Sent(q)' /\ token'[q] = token[q]
<1>1. pc[q] = "done" /\ q # r
  BY DoneIsOver DEF Sent, Answered
<1> QED BY <1>1 DEF OthersStay, Sent, Answered

LEMMA TokenStep ==
  ASSUME AnswerFirst = FALSE, HonestInv, NEW r \in Requests,
         Begin(r) \/ Serve(r) \/ Fail(r), NEW s \in Requests
  PROVE  TokenTrue(s)'
<1>0. AccountInv /\ TypeOK /\ OthersStay(r) /\ TokenTrue(s) /\ HandlerInOrder(s)
  BY StepOfOne DEF HonestInv, AccountInv
<1>1. ASSUME call'[s] = call[s], token'[s] = token[s], user'[s] = user[s],
             resp'[s] = resp[s] \/ resp'[s] \notin {"200", "401_unknown"}
      PROVE  TokenTrue(s)'
  <2>1. ASSUME user[s] # Nil, users[user[s]] # Nil
        PROVE  users'[user[s]] = users[user[s]]
    BY <1>0, <2>1, AccountsStay DEF TypeOK
  <2>2. ASSUME NEW q \in Requests, Sent(q), token[q] = call[s].token
        PROVE  Sent(q)' /\ token'[q] = call'[s].token
    BY <1>0, <1>1, <2>2, SentStays
  <2>3. user[s] \in ByName(call[s].token.sub) => (user[s] \in ByName(call[s].token.sub))'
    BY <1>1, <2>1, NilIsNone DEF ByName
  <2>4. Op(s)' = Op(s) /\ NameOf(s)' = NameOf(s)
    BY <1>1 DEF Op, NameOf
  <2> QED BY <1>0, <1>1, <2>1, <2>2, <2>3, <2>4 DEF TokenTrue
<1>2. CASE s # r
  BY <1>0, <1>1, <1>2, RestStays DEF OthersStay
<1>3. ASSUME s = r, NEW code, code \notin {"200", "401_unknown"}, Raise(r, code),
             UNCHANGED <<call, user, token>>
      PROVE  TokenTrue(s)'
  BY <1>0, <1>1, <1>3, Raised
<1>4. ASSUME s = r, NEW label, Goto(r, label), UNCHANGED <<call, user, token>>
      PROVE  TokenTrue(s)'
  BY <1>0, <1>1, <1>4, Gone
<1>5. CASE s = r /\ Begin(r)
  <2>1. PICK c \in Calls \cup {[op |-> "authenticate", token |-> token[q]]
                               : q \in {p \in Requests : Sent(p)}} :
            call'[r] = c /\ Goto(r, c.op)
    BY <1>0, <1>5, TokenCall DEF Begin, TypeOK
  <2>2. token'[r] = Nil /\ resp'[r] = Nil
    BY <1>0, <1>5, <2>1, Gone DEF Begin, HandlerInOrder
  <2>3. Nil # "200" /\ Nil # "401_unknown"
    BY NilIsNone DEF Codes
  <2>4. CASE c \in Calls
    <3>1. Op(r)' # "authenticate"
      BY <2>1, <2>4, AccountAssumption DEF Op, RegisterCall, LoginCall
    <3> QED BY <1>5, <2>2, <3>1 DEF TokenTrue
  <2>5. ASSUME NEW q \in Requests, Sent(q), c = [op |-> "authenticate", token |-> token[q]]
        PROVE  TokenTrue(r)'
    <3>1. call'[r].token = token[q]
      BY <2>1, <2>5
    <3>3. Sent(q)' /\ token'[q] = call'[r].token
      BY <1>0, <1>5, <2>5, <3>1, SentStays
    <3>2. Op(r)' \notin {"register", "login"}
      <4>1. c # Nil
        BY <1>0, <2>5, TokenCall, NilIsNone
      <4> QED BY <2>1, <2>5, <4>1 DEF Op
    <3> QED BY <2>2, <2>3, <3>2, <3>3 DEF TokenTrue
  <2> QED BY <1>5, <2>1, <2>4, <2>5
<1>6. CASE s = r /\ Register(r)
  BY <1>3, <1>4, <1>6 DEF Register
<1>7. CASE s = r /\ FlushUser(r)
  <2>1. CASE Goto(r, "conflict") /\ UNCHANGED <<wu, user, token>>
    BY <1>4, <1>7, <2>1 DEF FlushUser
  <2>2. CASE Issue(r, NameOf(r))
    <3>1. token'[r].sub = NameOf(r) /\ Op(r)' = "register" /\ NameOf(r)' = NameOf(r)
      BY <1>0, <1>7, <2>2 DEF TypeOK, Issue, FlushUser, HandlerInOrder, Op, NameOf
    <3> QED BY <1>7, <3>1 DEF TokenTrue
  <2> QED BY <1>7, <2>1, <2>2 DEF FlushUser
<1>8. CASE s = r /\ Conflict(r)
  BY <1>3, <1>8 DEF Conflict
<1>9. CASE s = r /\ Login(r)
  <2>1. CASE Raise(r, "401") /\ UNCHANGED <<user, token>>
    BY <1>3, <1>9, <2>1 DEF Login
  <2>2. ASSUME NEW t \in Match(r), user' = [user EXCEPT ![r] = t],
               Issue(r, users[t].username), UNCHANGED <<users, wu>>
        PROVE  TokenTrue(s)'
    <3>1. user'[r] = t /\ token'[r].sub = users[t].username /\ Op(r)' = "login"
      BY <1>0, <1>9, <2>2 DEF TypeOK, Issue, Login, HandlerInOrder, Op
    <3> QED BY <1>9, <2>2, <3>1, NilIsNone DEF TokenTrue, Match, ByName
  <2> QED BY <1>9, <2>1, <2>2 DEF Login
<1>10. CASE s = r /\ Decode(r)
  <2>1. UNCHANGED <<call, user, token>> /\ (Raise(r, "401_expired") \/ Goto(r, "find_user"))
    BY <1>10 DEF Decode
  <2> QED BY <1>3, <1>4, <1>10, <2>1
<1>11. CASE s = r /\ FindUser(r)
  <2>1. Op(r) = "authenticate" /\ UNCHANGED <<call, token>> /\ Op(r)' = Op(r)
    BY <1>0, <1>11 DEF FindUser, HandlerInOrder, Op
  <2>2. PICK q \in Requests : Sent(q) /\ token[q] = call[r].token
    BY <1>0, <1>11, <2>1 DEF TokenTrue
  <2>3. user[q] \in ByName(call[r].token.sub)
    BY <2>2, SentToken DEF ByName
  <2>4. PICK t \in ByName(call[r].token.sub) :
            user' = [user EXCEPT ![r] = t] /\ Reply(r, "200") /\ UNCHANGED <<users, wu>>
    BY <1>11, <2>3 DEF FindUser
  <2>5. user'[r] = t /\ resp'[r] = "200"
    BY <1>0, <2>4, Replied DEF TypeOK
  <2>6. ByName(call[r].token.sub)' = ByName(call[r].token.sub)
    BY <2>1, <2>4 DEF ByName
  <2>7. Sent(q)' /\ token'[q] = call'[r].token
    BY <1>0, <2>1, <2>2, SentStays
  <2> QED BY <1>0, <1>11, <2>1, <2>4, <2>5, <2>6, <2>7 DEF TokenTrue
<1>12. CASE s = r /\ Commit(r)
  BY <1>1, <1>12 DEF Commit
<1>13. CASE s = r /\ Fail(r)
  <2>1. Raise(r, "OperationalError") /\ UNCHANGED <<call, user, token>>
    BY <1>13 DEF Fail, InFlight, Answered
  <2> QED BY <1>3, <1>13, <2>1
<1> QED BY <1>2, <1>5, <1>6, <1>7, <1>8, <1>9, <1>10, <1>11, <1>12, <1>13 DEF Serve

LEMMA HonestInit == Init => HonestInv
<1> SUFFICES ASSUME Init PROVE HonestInv
  OBVIOUS
<1>1. \A r \in Requests : Op(r) = Nil /\ token[r] = Nil
  BY DEF Init, Op
<1>2. \A r \in Requests : AnswerTrue(r) /\ TokenTrue(r)
  BY <1>1, NilIsNone DEF AnswerTrue, TokenTrue, Labels
<1> QED BY <1>2, InitInv DEF HonestInv

LEMMA HonestNext ==
  ASSUME AnswerFirst = FALSE
  PROVE  HonestInv /\ [Next]_vars => HonestInv'
<1> SUFFICES ASSUME HonestInv, [Next]_vars PROVE HonestInv'
  OBVIOUS
<1>1. AccountInv'
  BY NextInv DEF HonestInv
<1>2. ASSUME NEW r \in Requests, Begin(r) \/ Serve(r) \/ Fail(r)
      PROVE  HonestInv'
  BY <1>1, <1>2, AnswerStep, TokenStep DEF HonestInv
<1>3. CASE Tick \/ UNCHANGED vars
  <2>1. UNCHANGED <<users, wu, call, pc, resp, user, token>>
    BY <1>3 DEF Tick, vars
  <2>2. \A s \in Requests : AnswerTrue(s)'
    BY <2>1 DEF HonestInv, AnswerTrue, Op, NameOf, RowOf, ByName
  <2>3. \A s \in Requests : TokenTrue(s)'
    BY <2>1 DEF HonestInv, TokenTrue, Op, NameOf, ByName, Sent, Answered
  <2> QED BY <1>1, <2>2, <2>3 DEF HonestInv
<1> QED BY <1>2, <1>3 DEF Next, Idle

(* With the commit before the response, every registration is answered     *)
(* truly, whatever else is registered and whichever connections are lost.  *)
THEOREM RegistrationsAreTrue ==
  ASSUME AnswerFirst = FALSE
  PROVE  Spec => []RegistrationIsTrue
<1>1. HonestInv => RegistrationIsTrue
  BY DEF HonestInv, AnswerTrue, RegistrationIsTrue, RowOf
<1> QED BY <1>1, HonestInit, HonestNext, PTL DEF Spec

(* With the commit before the response, every token that was sent leads to *)
(* the account it was issued for, until it expires.                        *)
THEOREM TokensLeadHome ==
  ASSUME AnswerFirst = FALSE
  PROVE  Spec => []TokensAreHonoured
<1>1. ASSUME HonestInv PROVE TokensAreHonoured
  <2> SUFFICES ASSUME NEW r \in Requests, Op(r) = "authenticate"
               PROVE  /\ resp[r] # "401_unknown"
                      /\ resp[r] = "200" => \A s \in Requests :
                             Sent(s) /\ token[s] = call[r].token => user[r] = user[s]
    BY DEF TokensAreHonoured
  <2>1. resp[r] # "401_unknown" /\ (resp[r] = "200" => user[r] \in ByName(call[r].token.sub))
    BY <1>1 DEF HonestInv, TokenTrue
  <2>2. ASSUME resp[r] = "200", NEW s \in Requests, Sent(s), token[s] = call[r].token
        PROVE  user[r] = user[s]
    <3>1. user[s] \in ByName(call[r].token.sub)
      BY <1>1, <2>2, SentToken DEF ByName
    <3> QED BY <1>1, <2>1, <2>2, <3>1 DEF HonestInv, AccountInv, OneAccountPerName, ByName
  <2> QED BY <2>1, <2>2
<1> QED BY <1>1, HonestInit, HonestNext, PTL DEF Spec
=============================================================================
