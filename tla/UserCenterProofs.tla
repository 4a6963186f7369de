---------------------------- MODULE UserCenterProofs ---------------------------
(***************************************************************************)
(* Theorems about UserCenter, for any set of requests and any number of    *)
(* faults: registration is all or nothing, the unique indexes hold, and a  *)
(* token is issued only for the caller's own user.                         *)
(***************************************************************************)
EXTENDS UserCenter, FiniteSetTheorems, TLAPS

InTx(r) == pc[r] \in {"delUser", "insertAuth", "delAuth", "commit"}

HasAuth(r) == pc[r] \in {"delAuth", "commit"}

\* The user that r inserts.
TheUser(r) == [id |-> userId[r], mobile |-> r.mobile, pwd |-> r.pwd]

SameEntry(a, b) == a.type = b.type /\ a.key = b.key

Domains ==
  /\ DOMAIN pc = Requests /\ DOMAIN key = Requests /\ DOMAIN tx = Requests
  /\ DOMAIN userId = Requests /\ DOMAIN answer = Requests
  /\ lastId \in Nat

\* The committed rows: the unique indexes hold, and each user has one login record.
StoreInv ==
  /\ \A u \in users : u.id \in 1..lastId
  /\ \A u, v \in users : u.mobile = v.mobile \/ u.id = v.id => u = v
  /\ \A a, b \in auths : SameEntry(a, b) \/ a.userId = b.userId => a = b
  /\ \A a \in auths : a = [userId |-> a.userId, type |-> a.type, key |-> a.key]
  /\ \A u \in users : \E a \in auths : a.userId = u.id
  /\ \A a \in auths : \E u \in users : u.id = a.userId

\* A transaction holds the rows that the request has inserted so far.
TxShape(r) ==
  /\ tx[r] # None <=> InTx(r)
  /\ InTx(r) =>
       /\ tx[r] = [users |-> {TheUser(r)}, auths |-> IF HasAuth(r) THEN {NewAuth(r)} ELSE {}]
       /\ userId[r] \in 1..lastId
  /\ InTx(r) \/ pc[r] = "insertUser" => r.kind \in {"register", "wx"}

\* None of them has an index entry or an id of a committed row.
TxFresh(r) ==
  /\ InTx(r) => \A u \in users : u.mobile # r.mobile /\ u.id # userId[r]
  /\ HasAuth(r) => \A a \in auths : ~SameEntry(a, NewAuth(r))

\* Nor of a row of another transaction.
TxApart(q, r) ==
  q # r =>
    /\ InTx(q) /\ InTx(r) => q.mobile # r.mobile /\ userId[q] # userId[r]
    /\ HasAuth(q) /\ HasAuth(r) => ~SameEntry(NewAuth(q), NewAuth(r))

\* n is a user that r may have a token for.
MayActFor(r, n) ==
  \E u \in users : /\ u.id = n
    /\ IF r.kind = "wx"
       THEN [userId |-> u.id, type |-> SmallWX, key |-> r.openid] \in auths
       ELSE u.mobile = r.mobile /\ u.pwd = r.pwd

\* A lookup is for what the request says.
KeyInv(r) ==
  pc[r] \notin {"new", "done"} =>
    /\ r.kind = "login" => key[r] = MobileKey(r.mobile)
    /\ r.kind = "wx" /\ key[r][1] = "auth" => key[r] = AuthKey(SmallWX, r.openid)

TokenInv(r) ==
  /\ pc[r] = "token" => MayActFor(r, userId[r])
  /\ answer[r].code = "token" => MayActFor(r, answer[r].userId)

TxInv ==
  /\ Domains /\ StoreInv
  /\ \A r \in Requests : TxShape(r) /\ TxFresh(r)
  /\ \A q, r \in Requests : TxApart(q, r)

UserInv == TxInv /\ \A r \in Requests : KeyInv(r) /\ TokenInv(r)

-----------------------------------------------------------------------------
(* Transactions                                                            *)

\* The other requests stay where they are.
OthersStay(r) ==
  \A q \in Requests \ {r} : pc'[q] = pc[q] /\ userId'[q] = userId[q] /\ tx'[q] = tx[q]

DomainsStay ==
  /\ DOMAIN pc' = Requests /\ DOMAIN key' = Requests /\ DOMAIN tx' = Requests
  /\ DOMAIN userId' = Requests /\ DOMAIN answer' = Requests
  /\ lastId' \in Nat

\* A step outside the transactions, or within one that inserts nothing.
LEMMA QuietStep ==
  ASSUME TxInv, DomainsStay, NEW r \in Requests, OthersStay(r), UNCHANGED <<tables, tx>>,
         InTx(r)' <=> InTx(r), HasAuth(r)' <=> HasAuth(r),
         InTx(r) => userId'[r] = userId[r],
         pc'[r] = "insertUser" => r.kind \in {"register", "wx"}
  PROVE  TxInv'
<1>1. Domains' /\ StoreInv'
  BY DEF TxInv, Domains, DomainsStay, StoreInv, tables, SameEntry
<1>2. \A q \in Requests : (InTx(q)' <=> InTx(q)) /\ (HasAuth(q)' <=> HasAuth(q))
  BY DEF OthersStay, InTx, HasAuth
<1>3. \A q \in Requests : InTx(q) => userId'[q] = userId[q]
  BY DEF OthersStay
<1>4. \A q \in Requests : HasAuth(q) => InTx(q)
  BY DEF InTx, HasAuth
<1>5. \A q \in Requests : InTx(q) => NewAuth(q)' = NewAuth(q) /\ TheUser(q)' = TheUser(q)
  BY <1>3 DEF NewAuth, TheUser
<1>6. ASSUME NEW q \in Requests
      PROVE  TxShape(q)'
  <2>1. InTx(q) \/ pc'[q] = "insertUser" => r.kind \in {"register", "wx"} \/ q # r
    BY DEF TxInv, TxShape
  <2>2. InTx(q)' \/ pc'[q] = "insertUser" => q.kind \in {"register", "wx"}
    BY <1>2, <2>1 DEF TxInv, TxShape, OthersStay
  <2>3. QED BY <1>2, <1>3, <1>5, <2>2 DEF TxInv, TxShape, tables
<1>7. ASSUME NEW q \in Requests
      PROVE  TxFresh(q)'
  BY <1>2, <1>3, <1>4, <1>5 DEF TxInv, TxFresh, tables, SameEntry
<1>8. ASSUME NEW p \in Requests, NEW q \in Requests
      PROVE  TxApart(p, q)'
  <2>1. TxApart(p, q)
    BY DEF TxInv
  <2>2. InTx(p)' /\ InTx(q)' /\ p # q => p.mobile # q.mobile /\ userId'[p] # userId'[q]
    BY <1>2, <1>3, <2>1 DEF TxApart
  <2>3. HasAuth(p)' /\ HasAuth(q)' /\ p # q => ~SameEntry(NewAuth(p), NewAuth(q))'
    BY <1>2, <1>4, <1>5, <2>1 DEF TxApart, SameEntry
  <2>4. QED BY <2>2, <2>3 DEF TxApart
<1>9. QED BY <1>1, <1>6, <1>7, <1>8 DEF TxInv

\* A transaction ends without a trace, or never began.
LEMMA RollbackStep ==
  ASSUME TxInv, DomainsStay, NEW r \in Requests, OthersStay(r), UNCHANGED <<users, auths, userId>>,
         lastId' \in {lastId, lastId + 1}, tx'[r] = None, pc'[r] = "done"
  PROVE  TxInv'
<1>1. Domains' /\ StoreInv'
  BY DEF TxInv, Domains, DomainsStay, StoreInv, SameEntry
<1>2. ~InTx(r)' /\ ~HasAuth(r)'
  BY DEF InTx, HasAuth
<1>3. \A q \in Requests \ {r} : (InTx(q)' <=> InTx(q)) /\ (HasAuth(q)' <=> HasAuth(q))
  BY DEF OthersStay, InTx, HasAuth
<1>4. \A q \in Requests : NewAuth(q)' = NewAuth(q) /\ TheUser(q)' = TheUser(q)
  BY DEF NewAuth, TheUser
<1>5. ASSUME NEW q \in Requests
      PROVE  TxShape(q)'
  <2>1. CASE q = r
    BY <1>2, <2>1 DEF TxShape
  <2>2. CASE q # r
    <3>1. TxShape(q) /\ pc'[q] = pc[q] /\ tx'[q] = tx[q] /\ lastId \in Nat
      BY <2>2 DEF TxInv, OthersStay, Domains
    <3>2. InTx(q) => userId'[q] \in 1..lastId'
      BY <3>1 DEF TxShape
    <3>3. QED BY <1>3, <1>4, <2>2, <3>1, <3>2 DEF TxShape
  <2>3. QED BY <2>1, <2>2
<1>6. ASSUME NEW q \in Requests
      PROVE  TxFresh(q)'
  BY <1>2, <1>3, <1>4 DEF TxInv, TxFresh, SameEntry
<1>7. ASSUME NEW p \in Requests, NEW q \in Requests
      PROVE  TxApart(p, q)'
  BY <1>2, <1>3, <1>4 DEF TxInv, TxApart, SameEntry
<1>8. QED BY <1>1, <1>5, <1>6, <1>7 DEF TxInv

\* Nobody whose insert may go on wants what an open transaction has inserted.
LEMMA NotBlocked ==
  ASSUME TxInv, NEW r \in Requests, NEW q \in Requests, q # r
  PROVE  /\ ~Blocked(r, "user") /\ InTx(q) => q.mobile # r.mobile
         /\ ~Blocked(r, "auth") /\ HasAuth(q) => ~SameEntry(NewAuth(q), NewAuth(r))
<1>1. HasAuth(q) => InTx(q)
  BY DEF HasAuth, InTx
<1>2. TxShape(q)
  BY DEF TxInv
<1>3. ASSUME ~Blocked(r, "user"), InTx(q) PROVE q.mobile # r.mobile
  <2>1. tx[q] # None /\ tx[q].users = {TheUser(q)}
    BY <1>2, <1>3 DEF TxShape
  <2>2. \A u \in tx[q].users : u.mobile # r.mobile
    BY <1>3, <2>1 DEF Blocked
  <2>3. QED BY <2>1, <2>2 DEF TheUser
<1>4. ASSUME ~Blocked(r, "auth"), HasAuth(q) PROVE ~SameEntry(NewAuth(q), NewAuth(r))
  BY <1>1, <1>2, <1>4 DEF Blocked, TxShape, SameEntry
<1>5. QED BY <1>3, <1>4

LEMMA InsertUserKeeps ==
  ASSUME TxInv, NEW r \in Requests, InsertUser(r), r.mobile \notin {u.mobile : u \in users},
         r.mobile \in Mobiles
  PROVE  TxInv'
<1>1. /\ pc[r] = "insertUser" /\ ~Blocked(r, "user") /\ lastId' = lastId + 1
      /\ UNCHANGED <<users, auths, key, answer>>
      /\ tx' = [tx EXCEPT ![r] = [users |-> {NewUser(r)}, auths |-> {}]]
      /\ userId' = [userId EXCEPT ![r] = lastId + 1]
      /\ pc' = [pc EXCEPT ![r] = "delUser"]
  BY DEF InsertUser, Goto
<1>2. DomainsStay /\ OthersStay(r) /\ lastId \in Nat
  BY <1>1 DEF TxInv, Domains, DomainsStay, OthersStay
<1>3. /\ pc'[r] = "delUser" /\ userId'[r] = lastId + 1
      /\ tx'[r] = [users |-> {NewUser(r)}, auths |-> {}]
  BY <1>1 DEF TxInv, Domains
<1>4. InTx(r)' /\ ~HasAuth(r)' /\ r.kind \in {"register", "wx"}
  BY <1>1, <1>3 DEF InTx, HasAuth, TxInv, TxShape
<1>5. tx'[r] # None
  <2>1. NewUser(r) \in [id : Nat, mobile : Mobiles, pwd : {q.pwd : q \in Requests}]
    BY <1>2 DEF NewUser
  <2>2. tx'[r] \in Inserted
    BY <1>3, <2>1 DEF Inserted
  <2>3. QED BY <2>2, UserCenterAssumption
<1>6. \A q \in Requests \ {r} :
        /\ (InTx(q)' <=> InTx(q)) /\ (HasAuth(q)' <=> HasAuth(q))
        /\ NewAuth(q)' = NewAuth(q) /\ TheUser(q)' = TheUser(q)
  BY <1>2 DEF OthersStay, InTx, HasAuth, NewAuth, TheUser
<1>7. Domains' /\ StoreInv'
  BY <1>1, <1>2 DEF TxInv, Domains, DomainsStay, StoreInv, SameEntry
<1>8. ASSUME NEW q \in Requests
      PROVE  TxShape(q)'
  <2>1. CASE q = r
    <3>1. TheUser(r)' = NewUser(r)
      BY <1>3 DEF TheUser, NewUser
    <3>2. QED BY <1>1, <1>2, <1>3, <1>4, <1>5, <2>1, <3>1 DEF TxShape
  <2>2. CASE q # r
    BY <1>1, <1>2, <1>6, <2>2 DEF TxInv, TxShape, OthersStay
  <2>3. QED BY <2>1, <2>2
<1>9. ASSUME NEW q \in Requests
      PROVE  TxFresh(q)'
  <2>1. CASE q = r
    BY <1>1, <1>2, <1>3, <1>4, <2>1 DEF TxInv, StoreInv, TxFresh
  <2>2. CASE q # r
    BY <1>1, <1>2, <1>6, <2>2 DEF TxInv, TxFresh, OthersStay, SameEntry
  <2>3. QED BY <2>1, <2>2
<1>10. ASSUME NEW p \in Requests, NEW q \in Requests
       PROVE  TxApart(p, q)'
  <2>1. \A g \in Requests \ {r} : InTx(g)' => g.mobile # r.mobile /\ userId'[g] # userId'[r]
    <3> SUFFICES ASSUME NEW g \in Requests, g # r, InTx(g)
        PROVE  g.mobile # r.mobile /\ userId'[g] # userId'[r]
      BY <1>6
    <3>1. g.mobile # r.mobile
      BY <1>1, NotBlocked
    <3>2. userId[g] \in 1..lastId /\ userId'[g] = userId[g]
      BY <1>2 DEF TxInv, TxShape, OthersStay
    <3>3. QED BY <1>2, <1>3, <3>1, <3>2
  <2>2. CASE p # r /\ q # r
    BY <1>2, <1>6, <2>2 DEF TxInv, TxApart, OthersStay, SameEntry
  <2>3. CASE p = r \/ q = r
    BY <1>4, <2>1, <2>3 DEF TxApart
  <2>4. QED BY <2>2, <2>3
<1>11. QED BY <1>7, <1>8, <1>9, <1>10 DEF TxInv

LEMMA InsertAuthKeeps ==
  ASSUME TxInv, NEW r \in Requests, InsertAuth(r),
         \A a \in auths : ~SameEntry(a, NewAuth(r)), NewAuth(r).key \in Mobiles \union Openids \union {None},
         r.mobile \in Mobiles
  PROVE  TxInv'
<1>1. /\ pc[r] = "insertAuth" /\ ~Blocked(r, "auth")
      /\ UNCHANGED <<users, auths, lastId, key, userId, answer>>
      /\ tx' = [tx EXCEPT ![r].auths = {NewAuth(r)}]
      /\ pc' = [pc EXCEPT ![r] = "delAuth"]
  BY DEF InsertAuth, Goto, SameEntry, tables
<1>2. DomainsStay /\ OthersStay(r) /\ lastId \in Nat
  BY <1>1 DEF TxInv, Domains, DomainsStay, OthersStay
<1>3. tx[r] = [users |-> {TheUser(r)}, auths |-> {}] /\ userId[r] \in 1..lastId
  BY <1>1 DEF TxInv, TxShape, InTx, HasAuth
<1>4. /\ pc'[r] = "delAuth"
      /\ tx'[r] = [users |-> {TheUser(r)}, auths |-> {NewAuth(r)}]
  BY <1>1, <1>3 DEF TxInv, Domains
<1>5. InTx(r) /\ InTx(r)' /\ HasAuth(r)' /\ r.kind \in {"register", "wx"}
  BY <1>1, <1>4 DEF InTx, HasAuth, TxInv, TxShape
<1>6. tx'[r] # None
  <2>1. TheUser(r) \in [id : Nat, mobile : Mobiles, pwd : {q.pwd : q \in Requests}]
    BY <1>2, <1>3 DEF TheUser
  <2>2. NewAuth(r) \in [userId : Nat, type : {System, SmallWX},
                        key : Mobiles \union Openids \union {None}]
    BY <1>2, <1>3 DEF NewAuth
  <2>3. tx'[r] \in Inserted
    BY <1>4, <2>1, <2>2 DEF Inserted
  <2>4. QED BY <2>3, UserCenterAssumption
<1>7. \A q \in Requests : NewAuth(q)' = NewAuth(q) /\ TheUser(q)' = TheUser(q)
  BY <1>1 DEF NewAuth, TheUser
<1>8. \A q \in Requests : InTx(q)' <=> InTx(q)
  BY <1>2, <1>5 DEF OthersStay, InTx
<1>9. \A q \in Requests \ {r} : HasAuth(q)' <=> HasAuth(q)
  BY <1>2 DEF OthersStay, HasAuth
<1>10. Domains' /\ StoreInv'
  BY <1>1, <1>2 DEF TxInv, Domains, DomainsStay, StoreInv, SameEntry
<1>11. ASSUME NEW q \in Requests
       PROVE  TxShape(q)'
  <2>1. CASE q = r
    BY <1>1, <1>3, <1>4, <1>5, <1>6, <1>7, <2>1 DEF TxShape
  <2>2. CASE q # r
    BY <1>1, <1>2, <1>7, <1>8, <1>9, <2>2 DEF TxInv, TxShape, OthersStay
  <2>3. QED BY <2>1, <2>2
<1>12. ASSUME NEW q \in Requests
       PROVE  TxFresh(q)'
  <2>1. InTx(q)' => \A u \in users' : u.mobile # q.mobile /\ u.id # userId'[q]
    BY <1>1, <1>8 DEF TxInv, TxFresh
  <2>2. HasAuth(q)' => \A a \in auths' : ~SameEntry(a, NewAuth(q)')
    BY <1>1, <1>7, <1>9 DEF TxInv, TxFresh
  <2>3. QED BY <2>1, <2>2 DEF TxFresh, SameEntry
<1>13. ASSUME NEW p \in Requests, NEW q \in Requests
       PROVE  TxApart(p, q)'
  <2>1. InTx(p)' /\ InTx(q)' /\ p # q => p.mobile # q.mobile /\ userId'[p] # userId'[q]
    BY <1>1, <1>8 DEF TxInv, TxApart
  <2>2. ASSUME HasAuth(p)', HasAuth(q)', p # q
        PROVE  ~SameEntry(NewAuth(p), NewAuth(q))
    <3>1. CASE p # r /\ q # r
      BY <1>9, <2>2, <3>1 DEF TxInv, TxApart
    <3>2. CASE p = r
      BY <1>1, <1>9, <2>2, <3>2, NotBlocked DEF SameEntry
    <3>3. CASE q = r
      BY <1>1, <1>9, <2>2, <3>3, NotBlocked
    <3>4. QED BY <3>1, <3>2, <3>3
  <2>3. HasAuth(p)' /\ HasAuth(q)' /\ p # q => ~SameEntry(NewAuth(p), NewAuth(q))'
    BY <1>7, <2>2 DEF SameEntry
  <2>4. QED BY <2>1, <2>3 DEF TxApart
<1>14. QED BY <1>10, <1>11, <1>12, <1>13 DEF TxInv

LEMMA CommitKeeps ==
  ASSUME TxInv, NEW r \in Requests, Commit(r)
  PROVE  TxInv' /\ MayActFor(r, userId[r])'
<1> DEFINE u == TheUser(r)
           a == NewAuth(r)
<1>1. /\ pc[r] = "commit" /\ InTx(r) /\ HasAuth(r) /\ r.kind \in {"register", "wx"}
      /\ tx[r] = [users |-> {u}, auths |-> {a}] /\ userId[r] \in 1..lastId
  <2>1. pc[r] = "commit"
    BY DEF Commit
  <2>2. InTx(r) /\ HasAuth(r)
    BY <2>1 DEF InTx, HasAuth
  <2>3. QED BY <2>1, <2>2 DEF TxInv, TxShape
<1>2. /\ UNCHANGED <<lastId, key, userId, answer>>
      /\ tx' = [tx EXCEPT ![r] = None] /\ pc' = [pc EXCEPT ![r] = "token"]
      /\ users' = users \union {u} /\ auths' = auths \union {a}
  BY <1>1 DEF Commit, Rollback, Goto
<1>3. DomainsStay /\ OthersStay(r)
  BY <1>2 DEF TxInv, Domains, DomainsStay, OthersStay
<1>4. tx'[r] = None /\ pc'[r] = "token" /\ ~InTx(r)' /\ ~HasAuth(r)'
  BY <1>2 DEF TxInv, Domains, InTx, HasAuth
<1>5. \A q \in Requests \ {r} : (InTx(q)' <=> InTx(q)) /\ (HasAuth(q)' <=> HasAuth(q))
  BY <1>3 DEF OthersStay, InTx, HasAuth
<1>6. \A q \in Requests : NewAuth(q)' = NewAuth(q) /\ TheUser(q)' = TheUser(q)
  BY <1>2 DEF NewAuth, TheUser
<1>7. /\ u.id = userId[r] /\ u.mobile = r.mobile /\ u.pwd = r.pwd /\ a.userId = userId[r]
      /\ a = [userId |-> a.userId, type |-> a.type, key |-> a.key]
  BY DEF TheUser, NewAuth
<1>8. /\ \A v \in users : v.mobile # u.mobile /\ v.id # u.id
      /\ \A b \in auths : ~SameEntry(b, a) /\ b.userId # a.userId
  <2>1. TxFresh(r)
    BY DEF TxInv
  <2>2. \A b \in auths : \E v \in users : v.id = b.userId
    BY DEF TxInv, StoreInv
  <2>3. QED BY <1>1, <1>7, <2>1, <2>2 DEF TxFresh
<1>9. StoreInv'
  <2>1. \A v \in users' : v.id \in 1..lastId'
    BY <1>1, <1>2, <1>7 DEF TxInv, StoreInv
  <2>2. \A v, w \in users' : v.mobile = w.mobile \/ v.id = w.id => v = w
    BY <1>2, <1>8 DEF TxInv, StoreInv
  <2>3. \A b, c \in auths' : SameEntry(b, c) \/ b.userId = c.userId => b = c
    BY <1>2, <1>8 DEF TxInv, StoreInv, SameEntry
  <2>4. \A b \in auths' : b = [userId |-> b.userId, type |-> b.type, key |-> b.key]
    BY <1>2, <1>7 DEF TxInv, StoreInv
  <2>5. \A v \in users' : \E b \in auths' : b.userId = v.id
    BY <1>2, <1>7 DEF TxInv, StoreInv
  <2>6. \A b \in auths' : \E v \in users' : v.id = b.userId
    BY <1>2, <1>7 DEF TxInv, StoreInv
  <2>7. QED BY <2>1, <2>2, <2>3, <2>4, <2>5, <2>6 DEF StoreInv, SameEntry
<1>10. ASSUME NEW q \in Requests
       PROVE  TxShape(q)'
  <2>1. CASE q = r
    BY <1>1, <1>4, <2>1 DEF TxShape
  <2>2. CASE q # r
    BY <1>2, <1>3, <1>5, <1>6, <2>2 DEF TxInv, TxShape, OthersStay
  <2>3. QED BY <2>1, <2>2
<1>11. ASSUME NEW q \in Requests
       PROVE  TxFresh(q)'
  <2>1. CASE q = r
    BY <1>4, <2>1 DEF TxFresh
  <2>2. CASE q # r
    <3>1. TxApart(r, q)
      BY DEF TxInv
    <3>2. InTx(q)' => \A v \in users' : v.mobile # q.mobile /\ v.id # userId'[q]
      BY <1>1, <1>2, <1>5, <1>7, <2>2, <3>1 DEF TxInv, TxFresh, TxApart
    <3>3. HasAuth(q)' => \A b \in auths' : ~SameEntry(b, NewAuth(q)')
      BY <1>1, <1>2, <1>5, <1>6, <2>2, <3>1 DEF TxInv, TxFresh, TxApart
    <3>4. QED BY <3>2, <3>3 DEF TxFresh, SameEntry
  <2>3. QED BY <2>1, <2>2
<1>12. ASSUME NEW p \in Requests, NEW q \in Requests
       PROVE  TxApart(p, q)'
  <2>1. CASE p # r /\ q # r
    BY <1>2, <1>5, <1>6, <2>1 DEF TxInv, TxApart, SameEntry
  <2>2. CASE p = r \/ q = r
    BY <1>4, <2>2 DEF TxApart
  <2>3. QED BY <2>1, <2>2
<1>13. MayActFor(r, userId[r])'
  <2>1. r.kind = "wx" => [userId |-> u.id, type |-> SmallWX, key |-> r.openid] \in auths'
    BY <1>2, <1>7 DEF NewAuth
  <2>2. u \in users' /\ u.id = userId'[r]
    BY <1>2, <1>7
  <2>3. QED BY <1>7, <2>1, <2>2 DEF MayActFor
<1>14. QED BY <1>3, <1>9, <1>10, <1>11, <1>12, <1>13 DEF TxInv, Domains, DomainsStay

-----------------------------------------------------------------------------
(* Lookups and tokens                                                      *)

\* Committed rows stay, and with them what a request may have a token for.
LEMMA TokensLast ==
  ASSUME NEW r \in Requests, NEW n, MayActFor(r, n),
         users \subseteq users', auths \subseteq auths'
  PROVE  MayActFor(r, n)'
BY DEF MayActFor

\* What a request is told and looks up concerns no other.
LEMMA OthersKeep ==
  ASSUME UserInv, NEW r \in Requests, NEW q \in Requests, q # r,
         pc'[q] = pc[q], key'[q] = key[q], userId'[q] = userId[q], answer'[q] = answer[q],
         users \subseteq users', auths \subseteq auths'
  PROVE  KeyInv(q)' /\ TokenInv(q)'
<1>1. KeyInv(q)'
  BY DEF UserInv, KeyInv
<1>2. TokenInv(q)'
  BY TokensLast DEF UserInv, TokenInv
<1>3. QED BY <1>1, <1>2

\* A request that has been refused has no token.
LEMMA RefusalGivesNoToken ==
  ASSUME Domains, NEW r \in Requests,
         NEW code \in {"registered", "noUser", "badPassword", "dbError", "error"}, Refuse(r, code)
  PROVE  /\ pc' = [pc EXCEPT ![r] = "done"] /\ pc'[r] = "done"
         /\ DOMAIN pc' = Requests /\ DOMAIN answer' = Requests
         /\ answer'[r].code # "token"
         /\ \A q \in Requests \ {r} : pc'[q] = pc[q] /\ answer'[q] = answer[q]
BY DEF Domains, Refuse, Reply, Goto

\* A step that only one request takes, and that leaves the tables alone.
LEMMA Alone ==
  ASSUME UserInv, TxInv', NEW r \in Requests,
         users \subseteq users', auths \subseteq auths',
         \A q \in Requests \ {r} : /\ pc'[q] = pc[q] /\ key'[q] = key[q]
                                   /\ userId'[q] = userId[q] /\ answer'[q] = answer[q],
         KeyInv(r)', TokenInv(r)'
  PROVE  UserInv'
BY OthersKeep DEF UserInv

LEMMA EntriesAreTyped ==
  ASSUME NEW r \in Requests
  PROVE  r.mobile \in Mobiles /\ NewAuth(r).key \in Mobiles \union Openids \union {None}
BY DEF Mobiles, Openids, NewAuth

\* A request begins a lookup or goes on with one.
LEMMA LookupStep ==
  ASSUME UserInv, NEW r \in Requests, ~InTx(r), UNCHANGED <<tables, tx, userId, answer>>,
         NEW l \in {"get", "select", "markAbsent", "markId", "found", "notFound"}, Goto(r, l),
         NEW k, DOMAIN key' = Requests, key'[r] = k, \A q \in Requests \ {r} : key'[q] = key[q],
         r.kind = "login" => k = MobileKey(r.mobile),
         r.kind = "wx" /\ k[1] = "auth" => k = AuthKey(SmallWX, r.openid)
  PROVE  UserInv'
<1>1. pc'[r] = l /\ key'[r] = k /\ DomainsStay /\ OthersStay(r)
  BY DEF UserInv, TxInv, Domains, DomainsStay, OthersStay, Goto, tables
<1>2. TxInv'
  <2>1. ~InTx(r)' /\ ~HasAuth(r)' /\ ~HasAuth(r) /\ pc'[r] # "insertUser"
    BY <1>1 DEF InTx, HasAuth
  <2>2. QED BY <1>1, <2>1, QuietStep DEF UserInv
<1>3. KeyInv(r)'
  BY <1>1 DEF KeyInv, MobileKey, AuthKey
<1>4. TokenInv(r)'
  BY <1>1, TokensLast DEF UserInv, TokenInv, tables
<1>5. \A q \in Requests \ {r} : /\ pc'[q] = pc[q] /\ key'[q] = key[q]
                                /\ userId'[q] = userId[q] /\ answer'[q] = answer[q]
  BY <1>1 DEF OthersStay, UserInv, TxInv, Domains
<1>6. QED BY <1>2, <1>3, <1>4, <1>5, Alone DEF tables

\* A request ends without a token; its transaction, if it has one, is undone.
LEMMA EndStep ==
  ASSUME UserInv, NEW r \in Requests, UNCHANGED <<users, auths, key, userId>>,
         lastId' \in {lastId, lastId + 1},
         tx' = [tx EXCEPT ![r] = None] \/ (~InTx(r) /\ UNCHANGED tx),
         NEW code, code # "token", NEW n, Reply(r, code, n)
  PROVE  UserInv'
<1>1. /\ pc'[r] = "done" /\ answer'[r] = [code |-> code, userId |-> n] /\ tx'[r] = None
      /\ DomainsStay /\ OthersStay(r)
      /\ \A q \in Requests \ {r} : answer'[q] = answer[q]
  BY DEF UserInv, TxInv, Domains, DomainsStay, OthersStay, Reply, Goto, TxShape
<1>2. TxInv'
  BY <1>1, RollbackStep DEF UserInv
<1>3. KeyInv(r)' /\ TokenInv(r)'
  BY <1>1 DEF KeyInv, TokenInv
<1>4. QED BY <1>1, <1>2, <1>3, Alone DEF OthersStay

LEMMA RefuseStep ==
  ASSUME UserInv, NEW r \in Requests, UNCHANGED <<users, auths, key, userId>>,
         lastId' \in {lastId, lastId + 1},
         tx' = [tx EXCEPT ![r] = None] \/ (~InTx(r) /\ UNCHANGED tx),
         NEW code, code # "token", Refuse(r, code)
  PROVE  UserInv'
<1>1. CASE r.kind = "wx"
  <2>1. Reply(r, "wxFail", 0)
    BY <1>1 DEF Refuse
  <2>2. "wxFail" # "token"
    OBVIOUS
  <2>3. QED BY <2>1, <2>2, EndStep
<1>2. CASE r.kind # "wx"
  <2>1. Reply(r, code, 0)
    BY <1>2 DEF Refuse
  <2>2. QED BY <2>1, EndStep
<1>3. QED BY <1>1, <1>2

\* A request goes on, without an answer, to where no token is given.
LEMMA GoOnStep ==
  ASSUME UserInv, NEW r \in Requests, TxInv', OthersStay(r),
         users \subseteq users', auths \subseteq auths', UNCHANGED <<key, answer>>,
         pc[r] \notin {"new", "done"},
         pc'[r] = "token" => MayActFor(r, userId[r])'
  PROVE  UserInv'
<1>1. KeyInv(r)'
  BY DEF UserInv, KeyInv
<1>2. TokenInv(r)'
  BY TokensLast DEF UserInv, TokenInv, MayActFor
<1>3. QED BY <1>1, <1>2, Alone DEF OthersStay

LEMMA ArriveKeeps ==
  ASSUME UserInv, NEW r \in Requests, ArriveNext(r)
  PROVE  UserInv'
<1>1. ASSUME NEW kind, NEW k, Arrive(r, kind, k),
             kind = "login" => k = MobileKey(r.mobile),
             kind = "wx" => k = AuthKey(SmallWX, r.openid)
      PROVE  UserInv'
  <2>1. /\ Goto(r, "get") /\ key' = [key EXCEPT ![r] = k] /\ r.kind = kind /\ pc[r] = "new"
        /\ UNCHANGED <<tables, tx, userId, answer>>
    BY <1>1 DEF Arrive
  <2>2. /\ DOMAIN key' = Requests /\ key'[r] = k
        /\ \A q \in Requests \ {r} : key'[q] = key[q]
    BY <2>1 DEF UserInv, TxInv, Domains
  <2>3. ~InTx(r)
    BY <2>1 DEF InTx
  <2>4. QED BY <1>1, <2>1, <2>2, <2>3, LookupStep
<1>2. CASE Unauthorized(r)
  <2>1. /\ ~InTx(r) /\ Reply(r, "unauthorized", 0) /\ UNCHANGED tx
        /\ UNCHANGED <<users, auths, key, userId>> /\ lastId' = lastId
    BY <1>2 DEF Unauthorized, InTx, tables
  <2>2. "unauthorized" # "token"
    OBVIOUS
  <2>3. QED BY <2>1, <2>2, EndStep
<1>3. CASE RegisterRequest(r)
  BY <1>1, <1>3 DEF RegisterRequest
<1>4. CASE LoginRequest(r)
  BY <1>1, <1>4 DEF LoginRequest
<1>5. CASE WxRequest(r)
  BY <1>1, <1>5 DEF WxRequest
<1>6. CASE InfoRequest(r)
  BY <1>1, <1>6 DEF InfoRequest
<1>7. CASE OpenidRequest(r)
  BY <1>1, <1>7 DEF OpenidRequest
<1>8. QED BY <1>2, <1>3, <1>4, <1>5, <1>6, <1>7 DEF ArriveNext

LEMMA CacheLookupKeeps ==
  ASSUME UserInv, NEW r \in Requests, Get(r) \/ Select(r) \/ Mark(r)
  PROVE  UserInv'
<1>1. pc[r] \in {"get", "select", "markAbsent", "markId"}
  BY DEF Get, Select, Mark
<1>2. PICK l \in {"select", "markAbsent", "markId", "found", "notFound"} : Goto(r, l)
  <2>1. CASE Mark(r)
    BY <2>1 DEF Mark
  <2>2. CASE Select(r)
    BY <2>2 DEF Select
  <2>3. CASE Get(r)
    <3>1. CASE cache[key[r]] = "miss"
      BY <2>3, <3>1 DEF Get, Goto
    <3>2. CASE cache[key[r]] = "absent"
      BY <2>3, <3>2 DEF Get, Goto
    <3>3. CASE cache[key[r]] \notin {"miss", "absent"}
      BY <2>3, <3>3 DEF Get, Goto
    <3>4. QED BY <3>1, <3>2, <3>3
  <2>4. QED BY <2>1, <2>2, <2>3
<1>3. UNCHANGED <<tables, tx, userId, answer, key>>
  BY DEF Get, Select, Mark
<1>4. DOMAIN key' = Requests
  BY <1>3 DEF UserInv, TxInv, Domains
<1>5. /\ r.kind = "login" => key[r] = MobileKey(r.mobile)
      /\ r.kind = "wx" /\ key[r][1] = "auth" => key[r] = AuthKey(SmallWX, r.openid)
  BY <1>1 DEF UserInv, KeyInv
<1>6. ~InTx(r)
  BY <1>1 DEF InTx
<1>7. QED BY <1>2, <1>3, <1>4, <1>5, <1>6, LookupStep

\* The steps that answer without a token.
LEMMA AnswersKeep ==
  ASSUME UserInv, NEW r \in Requests, NEW code, code # "token",
         NEW n, Reply(r, code, n) \/ Refuse(r, code), ~InTx(r),
         UNCHANGED <<tables, tx, key, userId>>
  PROVE  UserInv'
<1>1. UNCHANGED <<users, auths, key, userId>> /\ lastId' = lastId /\ UNCHANGED tx
  BY DEF tables
<1>2. CASE Reply(r, code, n)
  BY <1>1, <1>2, EndStep
<1>3. CASE Refuse(r, code)
  BY <1>1, <1>3, RefuseStep
<1>4. QED BY <1>2, <1>3

\* A request outside the transaction goes on.
LEMMA GoesOn ==
  ASSUME UserInv, NEW r \in Requests, NEW l \in {"insertUser", "token"}, Goto(r, l),
         pc[r] \in {"found", "notFound"}, UNCHANGED <<tables, tx, key, answer>>,
         DOMAIN userId' = Requests, \A q \in Requests \ {r} : userId'[q] = userId[q],
         l = "insertUser" => r.kind \in {"register", "wx"},
         l = "token" => MayActFor(r, userId'[r])
  PROVE  UserInv'
<1>1. /\ pc'[r] = l /\ DomainsStay /\ OthersStay(r)
      /\ UNCHANGED <<users, auths, key, answer>>
  BY DEF UserInv, TxInv, Domains, DomainsStay, OthersStay, Goto, tables
<1>2. ~InTx(r)' /\ ~InTx(r) /\ ~HasAuth(r)' /\ ~HasAuth(r)
  BY <1>1 DEF InTx, HasAuth
<1>3. TxInv'
  BY <1>1, <1>2, QuietStep DEF UserInv
<1>4. pc'[r] = "token" => MayActFor(r, userId[r])'
  BY <1>1 DEF MayActFor
<1>5. QED BY <1>1, <1>3, <1>4, GoOnStep

LEMMA RegisterCheckKeeps ==
  ASSUME UserInv, NEW r \in Requests, RegisterCheck(r)
  PROVE  UserInv'
<1>1. /\ UNCHANGED <<tables, tx, key, userId>> /\ r.kind \in {"register", "wx"}
      /\ pc[r] \in {"found", "notFound"} /\ ~InTx(r)
  BY DEF RegisterCheck, ReadOnly, Finds, Misses, InTx
<1>2. CASE Refuse(r, "registered")
  <2>1. "registered" # "token"
    OBVIOUS
  <2>2. QED BY <1>1, <1>2, <2>1, AnswersKeep
<1>3. CASE Goto(r, "insertUser") /\ UNCHANGED answer
  BY <1>1, <1>3, GoesOn DEF UserInv, TxInv, Domains
<1>4. QED BY <1>2, <1>3 DEF RegisterCheck

LEMMA LoginCheckKeeps ==
  ASSUME UserInv, NEW r \in Requests, LoginCheck(r)
  PROVE  UserInv'
<1>1. /\ UNCHANGED <<tables, tx, key>> /\ r.kind = "login"
      /\ pc[r] \in {"found", "notFound"} /\ ~InTx(r)
  BY DEF LoginCheck, ReadOnly, Finds, Misses, InTx
<1>2. ASSUME NEW code \in {"noUser", "badPassword"}, Refuse(r, code), UNCHANGED userId
      PROVE  UserInv'
  <2>1. code # "token"
    BY <1>2
  <2>2. QED BY <1>1, <1>2, <2>1, AnswersKeep
<1>3. ASSUME NEW u \in RowsOf(key[r]), u.pwd = r.pwd,
             userId' = [userId EXCEPT ![r] = u.id], Goto(r, "token"), UNCHANGED answer
      PROVE  UserInv'
  <2>1. key[r] = MobileKey(r.mobile)
    BY <1>1 DEF UserInv, KeyInv
  <2>2. u \in users /\ u.mobile = r.mobile
    BY <1>3, <2>1 DEF RowsOf, MobileKey
  <2>3. /\ DOMAIN userId' = Requests /\ userId'[r] = u.id
        /\ \A q \in Requests \ {r} : userId'[q] = userId[q]
    BY <1>3 DEF UserInv, TxInv, Domains
  <2>4. MayActFor(r, userId'[r])
    BY <1>1, <1>3, <2>2, <2>3 DEF MayActFor
  <2>5. QED BY <1>1, <1>3, <2>3, <2>4, GoesOn
<1>4. QED BY <1>2, <1>3 DEF LoginCheck

LEMMA WxCheckKeeps ==
  ASSUME UserInv, NEW r \in Requests, WxCheck(r)
  PROVE  UserInv'
<1>1. /\ UNCHANGED <<tables, tx, answer>> /\ r.kind = "wx"
      /\ pc[r] \in {"found", "notFound"} /\ ~InTx(r)
  BY DEF WxCheck, ReadOnly, Finds, Misses, InTx
<1>2. ASSUME Finds(r, "auth"), NEW a \in RowsOf(key[r]),
             userId' = [userId EXCEPT ![r] = a.userId], Goto(r, "token"), UNCHANGED key
      PROVE  UserInv'
  <2>1. key[r] = AuthKey(SmallWX, r.openid)
    BY <1>1, <1>2 DEF UserInv, KeyInv, Finds
  <2>2. a \in auths /\ a.type = SmallWX /\ a.key = r.openid
    BY <1>2, <2>1 DEF RowsOf, AuthKey
  <2>3. a = [userId |-> a.userId, type |-> SmallWX, key |-> r.openid]
    BY <2>2 DEF UserInv, TxInv, StoreInv
  <2>4. PICK u \in users : u.id = a.userId
    BY <2>2 DEF UserInv, TxInv, StoreInv
  <2>5. /\ DOMAIN userId' = Requests /\ userId'[r] = a.userId
        /\ \A q \in Requests \ {r} : userId'[q] = userId[q]
    BY <1>2 DEF UserInv, TxInv, Domains
  <2>6. MayActFor(r, userId'[r])
    BY <1>1, <2>2, <2>3, <2>4, <2>5 DEF MayActFor
  <2>7. QED BY <1>1, <1>2, <2>5, <2>6, GoesOn
<1>3. ASSUME key' = [key EXCEPT ![r] = MobileKey(r.mobile)], Goto(r, "get"), UNCHANGED userId
      PROVE  UserInv'
  <2>1. /\ DOMAIN key' = Requests /\ key'[r] = MobileKey(r.mobile)
        /\ \A q \in Requests \ {r} : key'[q] = key[q]
    BY <1>3 DEF UserInv, TxInv, Domains
  <2>2. r.kind # "login" /\ MobileKey(r.mobile)[1] # "auth"
    BY <1>1 DEF MobileKey
  <2>3. QED BY <1>1, <1>3, <2>1, <2>2, LookupStep
<1>4. QED BY <1>2, <1>3 DEF WxCheck

LEMMA InfoKeeps ==
  ASSUME UserInv, NEW r \in Requests, GetUserInfo(r) \/ GetUserAuthByUserId(r)
  PROVE  UserInv'
<1>1. UNCHANGED <<tables, tx, key, userId>> /\ ~InTx(r)
  BY DEF GetUserInfo, GetUserAuthByUserId, ReadOnly, Finds, Misses, InTx
<1>2. ASSUME NEW n, Reply(r, "ok", n)
      PROVE  UserInv'
  <2>1. "ok" # "token"
    OBVIOUS
  <2>2. QED BY <1>1, <1>2, <2>1, AnswersKeep
<1>3. CASE Refuse(r, "noUser")
  <2>1. "noUser" # "token"
    OBVIOUS
  <2>2. QED BY <1>1, <1>3, <2>1, AnswersKeep
<1>4. QED BY <1>2, <1>3 DEF GetUserInfo, GetUserAuthByUserId

LEMMA InsertUserStep ==
  ASSUME UserInv, NEW r \in Requests, InsertUser(r)
  PROVE  UserInv'
<1>1. CASE \E u \in users : u.mobile = r.mobile
  <2>1. /\ Refuse(r, "dbError") /\ UNCHANGED <<users, auths, key, userId>>
        /\ lastId' = lastId + 1 /\ UNCHANGED tx /\ ~InTx(r)
    BY <1>1 DEF InsertUser, InTx
  <2>2. "dbError" # "token"
    OBVIOUS
  <2>3. QED BY <2>1, <2>2, RefuseStep
<1>2. CASE ~\E u \in users : u.mobile = r.mobile
  <2>1. TxInv'
    BY <1>2, InsertUserKeeps, EntriesAreTyped DEF UserInv
  <2>2. /\ UNCHANGED <<users, auths, key, answer>> /\ pc[r] = "insertUser"
        /\ pc' = [pc EXCEPT ![r] = "delUser"] /\ userId' = [userId EXCEPT ![r] = lastId + 1]
        /\ tx' = [tx EXCEPT ![r] = [users |-> {NewUser(r)}, auths |-> {}]]
    BY <1>2 DEF InsertUser, Goto
  <2>3. OthersStay(r) /\ pc'[r] # "token"
    BY <2>2 DEF OthersStay, UserInv, TxInv, Domains
  <2>4. QED BY <2>1, <2>2, <2>3, GoOnStep
<1>3. QED BY <1>1, <1>2

LEMMA InsertAuthStep ==
  ASSUME UserInv, NEW r \in Requests, InsertAuth(r)
  PROVE  UserInv'
<1>1. CASE \E a \in auths : a.type = NewAuth(r).type /\ a.key = NewAuth(r).key
  <2>1. /\ Refuse(r, "dbError") /\ UNCHANGED <<users, auths, key, userId>>
        /\ lastId' = lastId /\ tx' = [tx EXCEPT ![r] = None]
    BY <1>1 DEF InsertAuth, Rollback, tables
  <2>2. "dbError" # "token"
    OBVIOUS
  <2>3. QED BY <2>1, <2>2, RefuseStep
<1>2. CASE ~\E a \in auths : a.type = NewAuth(r).type /\ a.key = NewAuth(r).key
  <2>1. TxInv'
    BY <1>2, InsertAuthKeeps, EntriesAreTyped DEF UserInv, SameEntry
  <2>2. /\ UNCHANGED <<users, auths, key, userId, answer>> /\ pc[r] = "insertAuth"
        /\ pc' = [pc EXCEPT ![r] = "delAuth"]
        /\ tx' = [tx EXCEPT ![r].auths = {NewAuth(r)}]
    BY <1>2 DEF InsertAuth, Goto, tables
  <2>3. OthersStay(r) /\ pc'[r] # "token"
    BY <2>2 DEF OthersStay, UserInv, TxInv, Domains
  <2>4. QED BY <2>1, <2>2, <2>3, GoOnStep
<1>3. QED BY <1>1, <1>2

LEMMA CommitStep ==
  ASSUME UserInv, NEW r \in Requests, Commit(r)
  PROVE  UserInv'
<1>1. TxInv' /\ MayActFor(r, userId[r])'
  BY CommitKeeps DEF UserInv
<1>2. /\ users \subseteq users' /\ auths \subseteq auths' /\ UNCHANGED <<key, answer, userId>>
      /\ pc[r] = "commit" /\ pc' = [pc EXCEPT ![r] = "token"]
      /\ tx' = [tx EXCEPT ![r] = None]
  BY DEF Commit, Rollback, Goto
<1>3. OthersStay(r)
  BY <1>2 DEF OthersStay, UserInv, TxInv, Domains
<1>4. QED BY <1>1, <1>2, <1>3, GoOnStep

\* The deletions of cache keys.
LEMMA DeletionsKeep ==
  ASSUME UserInv, NEW r \in Requests, DelUser(r) \/ DelAuth(r)
  PROVE  UserInv'
<1>1. UNCHANGED <<tables, tx, key, userId, answer>>
  BY DEF DelUser, DelAuth
<1>2. \/ pc[r] = "delUser" /\ pc' = [pc EXCEPT ![r] = "insertAuth"]
      \/ pc[r] = "delAuth" /\ pc' = [pc EXCEPT ![r] = "commit"]
  BY DEF DelUser, DelAuth, Goto
<1>3. DomainsStay /\ OthersStay(r)
  BY <1>1, <1>2 DEF UserInv, TxInv, Domains, DomainsStay, OthersStay, tables
<1>4. /\ InTx(r)' /\ InTx(r) /\ (HasAuth(r)' <=> HasAuth(r))
      /\ pc'[r] # "insertUser" /\ pc'[r] # "token" /\ pc[r] \notin {"new", "done"}
  BY <1>2 DEF InTx, HasAuth, UserInv, TxInv, Domains
<1>5. TxInv'
  BY <1>1, <1>3, <1>4, QuietStep DEF UserInv
<1>6. QED BY <1>1, <1>3, <1>4, <1>5, GoOnStep DEF tables

LEMMA GenerateTokenKeeps ==
  ASSUME UserInv, NEW r \in Requests, GenerateToken(r)
  PROVE  UserInv'
<1>1. /\ UNCHANGED <<tables, tx, key, userId>> /\ pc[r] = "token" /\ ~InTx(r) /\ ~HasAuth(r)
      /\ pc' = [pc EXCEPT ![r] = "done"]
      /\ answer' = [answer EXCEPT ![r] = [code |-> "token", userId |-> userId[r]]]
  BY DEF GenerateToken, ReadOnly, Reply, Goto, InTx, HasAuth
<1>2. /\ DomainsStay /\ OthersStay(r) /\ pc'[r] = "done"
      /\ answer'[r] = [code |-> "token", userId |-> userId[r]]
      /\ \A q \in Requests \ {r} : answer'[q] = answer[q]
  BY <1>1 DEF UserInv, TxInv, Domains, DomainsStay, OthersStay, tables
<1>3. ~InTx(r)' /\ ~HasAuth(r)'
  BY <1>2 DEF InTx, HasAuth
<1>4. TxInv'
  BY <1>1, <1>2, <1>3, QuietStep DEF UserInv
<1>5. MayActFor(r, userId[r])
  BY <1>1 DEF UserInv, TokenInv
<1>6. KeyInv(r)' /\ TokenInv(r)'
  <2>1. KeyInv(r)'
    BY <1>2 DEF KeyInv
  <2>2. answer'[r].userId = userId[r] /\ UNCHANGED <<users, auths>>
    BY <1>1, <1>2 DEF tables
  <2>3. QED BY <1>2, <1>5, <2>1, <2>2 DEF TokenInv, MayActFor
<1>7. QED BY <1>1, <1>2, <1>4, <1>6, Alone DEF OthersStay, tables

LEMMA FailRequestKeeps ==
  ASSUME UserInv, NEW r \in Requests, FailRequest(r)
  PROVE  UserInv'
<1>1. /\ Refuse(r, "error") /\ UNCHANGED <<users, auths, key, userId>>
      /\ lastId' = lastId /\ tx' = [tx EXCEPT ![r] = None]
  BY DEF FailRequest, Rollback, tables
<1>2. "error" # "token"
  OBVIOUS
<1>3. QED BY <1>1, <1>2, RefuseStep

-----------------------------------------------------------------------------
(* The theorems                                                            *)

LEMMA UserInit == Init => UserInv
<1> SUFFICES ASSUME Init PROVE UserInv
  OBVIOUS
<1>1. Domains /\ StoreInv
  BY DEF Init, Domains, StoreInv
<1>2. ASSUME NEW r \in Requests
      PROVE  /\ pc[r] = "new" /\ tx[r] = None /\ answer[r].code = "none"
             /\ ~InTx(r) /\ ~HasAuth(r)
  BY DEF Init, NoAnswer, InTx, HasAuth
<1>3. \A r \in Requests : TxShape(r) /\ TxFresh(r)
  BY <1>2 DEF TxShape, TxFresh
<1>4. \A q, r \in Requests : TxApart(q, r)
  BY <1>2 DEF TxApart
<1>5. \A r \in Requests : KeyInv(r) /\ TokenInv(r)
  BY <1>2 DEF KeyInv, TokenInv
<1>6. QED BY <1>1, <1>3, <1>4, <1>5 DEF UserInv, TxInv

\* Nothing of the invariant is about the cache.
LEMMA UserStutter ==
  ASSUME UserInv, UNCHANGED <<tables, pc, key, tx, userId, answer>>
  PROVE  UserInv'
<1>1. /\ users' = users /\ auths' = auths /\ lastId' = lastId /\ pc' = pc /\ key' = key
      /\ tx' = tx /\ userId' = userId /\ answer' = answer
  BY DEF tables
<1>2. Domains' /\ StoreInv'
  BY <1>1 DEF UserInv, TxInv, Domains, StoreInv, SameEntry
<1>3. \A r \in Requests : /\ (InTx(r)' <=> InTx(r)) /\ (HasAuth(r)' <=> HasAuth(r))
                          /\ NewAuth(r)' = NewAuth(r) /\ TheUser(r)' = TheUser(r)
  BY <1>1 DEF InTx, HasAuth, NewAuth, TheUser
<1>4. \A r \in Requests : TxShape(r)'
  BY <1>1, <1>3 DEF UserInv, TxInv, TxShape
<1>5. \A r \in Requests : TxFresh(r)'
  BY <1>1, <1>3 DEF UserInv, TxInv, TxFresh, SameEntry
<1>6. \A q, r \in Requests : TxApart(q, r)'
  BY <1>1, <1>3 DEF UserInv, TxInv, TxApart, SameEntry
<1>7. \A r \in Requests : KeyInv(r)' /\ TokenInv(r)'
  BY <1>1 DEF UserInv, KeyInv, TokenInv, MayActFor
<1>8. QED BY <1>2, <1>4, <1>5, <1>6, <1>7 DEF UserInv, TxInv

LEMMA UserNext == UserInv /\ [Next]_vars => UserInv'
<1> SUFFICES ASSUME UserInv, [Next]_vars PROVE UserInv'
  OBVIOUS
<1>1. CASE UNCHANGED vars
  BY <1>1, UserStutter DEF vars
<1>2. ASSUME NEW k \in Keys, ExpireKey(k)
      PROVE  UserInv'
  BY <1>2, UserStutter DEF ExpireKey
<1>3. ASSUME NEW r \in Requests, ServeNext(r)
      PROVE  UserInv'
  BY <1>3, CacheLookupKeeps, RegisterCheckKeeps, LoginCheckKeeps, WxCheckKeeps, InfoKeeps,
     InsertUserStep, DeletionsKeep, InsertAuthStep, CommitStep, GenerateTokenKeeps
     DEF ServeNext
<1>4. QED BY <1>1, <1>2, <1>3, ArriveKeeps, FailRequestKeeps DEF Next

\* The invariant of every behaviour.
THEOREM UserCenterSafe == Spec => []UserInv
BY UserInit, UserNext, PTL DEF Spec

LEMMA InvImpliesProperties ==
  UserInv => UsersAreBound /\ OneUserPerMobile /\ TokensAreForTheCaller
<1> SUFFICES ASSUME UserInv PROVE UsersAreBound /\ OneUserPerMobile /\ TokensAreForTheCaller
  OBVIOUS
<1>1. ASSUME NEW u \in users
      PROVE  Cardinality({a \in auths : a.userId = u.id}) = 1
  <2>1. PICK a \in auths : a.userId = u.id
    BY DEF UserInv, TxInv, StoreInv
  <2>2. {b \in auths : b.userId = u.id} = {a}
    BY <2>1 DEF UserInv, TxInv, StoreInv
  <2>3. QED BY <2>2, FS_Singleton
<1>2. UsersAreBound
  BY <1>1 DEF UsersAreBound, UserInv, TxInv, StoreInv
<1>3. OneUserPerMobile
  BY DEF OneUserPerMobile, UserInv, TxInv, StoreInv, SameEntry
<1>4. TokensAreForTheCaller
  BY DEF TokensAreForTheCaller, UserInv, TokenInv, MayActFor
<1>5. QED BY <1>2, <1>3, <1>4

\* Whatever fails and whoever else registers, a committed user has exactly one
\* login record and a login record its user: Register's transaction.
THEOREM RegistrationIsAtomic == Spec => []UsersAreBound
BY UserCenterSafe, InvImpliesProperties, PTL

\* Registrations that all found a number free do not all succeed.
THEOREM NumbersAreUnique == Spec => []OneUserPerMobile
BY UserCenterSafe, InvImpliesProperties, PTL

\* A token is for the committed user whose credentials the caller gave, and stays
\* so however many users register later.
THEOREM TokensAreRightful == Spec => []TokensAreForTheCaller
BY UserCenterSafe, InvImpliesProperties, PTL
=============================================================================
