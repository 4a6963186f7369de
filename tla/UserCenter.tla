------------------------------ MODULE UserCenter ------------------------------
(***************************************************************************)
(* usercenter-api and usercenter-rpc: registration, login by password,     *)
(* login by WeChat, and the two lookups other services make.  The tables   *)
(* user and user_auth are read through Redis index keys; rows are never    *)
(* changed or deleted once committed, so a key's entry is "id" (it leads   *)
(* to the row), "absent" (the * placeholder) or "miss".                    *)
(*                                                                         *)
(* Registration inserts both rows in one transaction.  The generated       *)
(* Insert deletes its cache keys right after its own statement, that is    *)
(* BEFORE the transaction commits: lookups fall in between.  A unique      *)
(* index makes an insert wait for an open transaction that has inserted    *)
(* the same value, and fail once that one has committed.                   *)
(*                                                                         *)
(* A request is one HTTP call with the goroutines that serve it.           *)
(***************************************************************************)
EXTENDS Integers, FiniteSets

CONSTANTS
  Requests,   \* records [id, kind, mobile, pwd, openid, after, by]
  None,       \* no value; the password of a user WeChat has registered
  MaxFaults   \* bound on failing calls and deletions

Kinds == {"register", "login", "wx", "info", "openid"}
System  == "system"    \* UserAuthTypeSystem
SmallWX == "wxMini"    \* UserAuthTypeSmallWX
UserIds == 1..Cardinality({r \in Requests : r.kind \in {"register", "wx"}})
Mobiles == {r.mobile : r \in Requests}
Openids == {r.openid : r \in Requests} \ {None}

\* What an open transaction may have inserted.
Inserted ==
  [users : SUBSET [id : Nat, mobile : Mobiles, pwd : {r.pwd : r \in Requests}],
   auths : SUBSET [userId : Nat, type : {System, SmallWX},
                   key : Mobiles \union Openids \union {None}]]

\* A request may follow another one, and carry the token another was answered.
ASSUME UserCenterAssumption ==
  /\ MaxFaults \in Nat
  /\ \A r \in Requests : /\ r.kind \in Kinds
                         /\ {r.after, r.by} \subseteq Requests \union {None}
  /\ None \notin Requests /\ None \notin Inserted

VARIABLES
  users,        \* the committed rows: [id, mobile, pwd]
  auths,        \* [userId, type, key]
  lastId,       \* AUTO_INCREMENT of user
  cache,        \* Redis index keys and the id key of user
  pc,           \* where each request is
  key,          \* the key its lookup is about
  tx,           \* the rows its open transaction has inserted
  userId,       \* the user it acts for
  answer,       \* what the caller was told: [code, userId]
  faults

tables == <<users, auths, lastId>>
vars == <<tables, cache, pc, key, tx, userId, answer, faults>>

MobileKey(m) == <<"mobile", m, None>>
IdKey(n) == <<"id", n, None>>
AuthKey(type, k) == <<"auth", type, k>>
UserAuthKey(n, type) == <<"userAuth", n, type>>

Keys == {MobileKey(m) : m \in Mobiles} \union {IdKey(n) : n \in UserIds}
        \union {AuthKey(System, m) : m \in Mobiles}
        \union {AuthKey(SmallWX, o) : o \in Openids}
        \union {UserAuthKey(n, SmallWX) : n \in UserIds}

\* The committed rows a SELECT for a key finds.
RowsOf(k) ==
  CASE k[1] = "mobile" -> {u \in users : u.mobile = k[2]}
    [] k[1] = "id" -> {u \in users : u.id = k[2]}
    [] k[1] = "auth" -> {a \in auths : a.type = k[2] /\ a.key = k[3]}
    [] k[1] = "userAuth" -> {a \in auths : a.userId = k[2] /\ a.type = k[3]}

NoAnswer == [code |-> "none", userId |-> 0]

Init ==
  /\ users = {} /\ auths = {} /\ lastId = 0
  /\ cache = [k \in Keys |-> "miss"]
  /\ pc = [r \in Requests |-> "new"]
  /\ key = [r \in Requests |-> None]
  /\ tx = [r \in Requests |-> None]
  /\ userId = [r \in Requests |-> 0]
  /\ answer = [r \in Requests |-> NoAnswer]
  /\ faults = 0

-----------------------------------------------------------------------------
Goto(r, l) == pc' = [pc EXCEPT ![r] = l]
Fault == faults < MaxFaults /\ faults' = faults + 1

Reply(r, code, n) ==
  /\ answer' = [answer EXCEPT ![r] = [code |-> code, userId |-> n]]
  /\ Goto(r, "done")

\* WxMiniAuth reports every error of an RPC as its own.
Refuse(r, code) == Reply(r, IF r.kind = "wx" THEN "wxFail" ELSE code, 0)

-----------------------------------------------------------------------------
(* The handlers of usercenter-api, up to their first lookup.               *)

\* A request arrives, not before the one it follows is answered.
Arrive(r, kind, k) ==
  /\ pc[r] = "new" /\ r.kind = kind
  /\ r.after # None => pc[r.after] = "done"
  /\ key' = [key EXCEPT ![r] = k]
  /\ Goto(r, "get")
  /\ UNCHANGED <<tables, cache, tx, userId, answer, faults>>

RegisterRequest(r) == Arrive(r, "register", MobileKey(r.mobile))

LoginRequest(r) == Arrive(r, "login", MobileKey(r.mobile))

\* Detail and WxMiniAuth are routes for callers who have a token already.
Authorized(r) == r.by # None /\ answer[r.by].code = "token"

Unauthorized(r) ==
  /\ pc[r] = "new" /\ r.kind \in {"info", "wx"}
  /\ r.after # None => pc[r.after] = "done"
  /\ ~Authorized(r)
  /\ Reply(r, "unauthorized", 0)
  /\ UNCHANGED <<tables, cache, key, tx, userId, faults>>

\* WeChat vouches for the openid and the phone number.  The user id in the token
\* is not used.
WxRequest(r) == Authorized(r) /\ Arrive(r, "wx", AuthKey(SmallWX, r.openid))

\* Detail: the user id comes out of the caller's token.
InfoRequest(r) == Authorized(r) /\ Arrive(r, "info", IdKey(answer[r.by].userId))

\* GetUserAuthByUserId, which payment-api and the notification job call for the
\* openid of an order's user.
OpenidRequest(r) ==
  /\ Authorized(r)
  /\ Arrive(r, "openid", UserAuthKey(answer[r.by].userId, SmallWX))

-----------------------------------------------------------------------------
(* A lookup through the cache                                              *)

Get(r) ==
  /\ pc[r] = "get"
  /\ Goto(r, CASE cache[key[r]] = "miss" -> "select"
               [] cache[key[r]] = "absent" -> "notFound"
               [] OTHER -> "found")
  /\ UNCHANGED <<tables, cache, key, tx, userId, answer, faults>>

\* The SELECT runs outside any transaction: it sees committed rows only.
Select(r) ==
  /\ pc[r] = "select"
  /\ Goto(r, IF RowsOf(key[r]) = {} THEN "markAbsent" ELSE "markId")
  /\ UNCHANGED <<tables, cache, key, tx, userId, answer, faults>>

\* SETNX of the placeholder, or SET of the id.
Mark(r) ==
  /\ pc[r] \in {"markAbsent", "markId"}
  /\ IF pc[r] = "markId"
     THEN cache' = [cache EXCEPT ![key[r]] = "id"] /\ Goto(r, "found")
     ELSE /\ cache' = [cache EXCEPT ![key[r]] = IF @ = "miss" THEN "absent" ELSE @]
          /\ Goto(r, "notFound")
  /\ UNCHANGED <<tables, key, tx, userId, answer, faults>>

\* Mutant of ExpireKey: the placeholder is set without its minute.
ExpireRowKey(k) ==
  /\ cache[k] = "id"
  /\ cache' = [cache EXCEPT ![k] = "miss"]
  /\ UNCHANGED <<tables, pc, key, tx, userId, answer, faults>>

\* Expiry, and the cleaner's repetition of a DEL that failed.
ExpireKey(k) ==
  /\ cache[k] # "miss"
  /\ cache' = [cache EXCEPT ![k] = "miss"]
  /\ UNCHANGED <<tables, pc, key, tx, userId, answer, faults>>

-----------------------------------------------------------------------------
(* Answers to what a lookup found                                          *)

Finds(r, table) == pc[r] = "found" /\ key[r][1] = table
Misses(r, table) == pc[r] = "notFound" /\ key[r][1] = table

ReadOnly == UNCHANGED <<tables, cache, tx, faults>>

\* Register: a known mobile number is refused.
RegisterCheck(r) ==
  /\ r.kind \in {"register", "wx"}
  /\ \/ Finds(r, "mobile") /\ Refuse(r, "registered")
     \/ Misses(r, "mobile") /\ Goto(r, "insertUser") /\ UNCHANGED answer
  /\ UNCHANGED <<key, userId>> /\ ReadOnly

\* loginByMobile
LoginCheck(r) ==
  /\ r.kind = "login"
  /\ \/ Misses(r, "mobile") /\ Refuse(r, "noUser") /\ UNCHANGED userId
     \/ /\ Finds(r, "mobile")
        /\ \E u \in RowsOf(key[r]) :
             IF u.pwd = r.pwd
             THEN /\ userId' = [userId EXCEPT ![r] = u.id]
                  /\ Goto(r, "token") /\ UNCHANGED answer
             ELSE Refuse(r, "badPassword") /\ UNCHANGED userId
  /\ UNCHANGED key /\ ReadOnly

\* Mutant of WxCheck: the token is for the user who made the request.
WxKeepUser(r) ==
  /\ r.kind = "wx"
  /\ \/ /\ Finds(r, "auth")
        /\ userId' = [userId EXCEPT ![r] = answer[r.by].userId]
        /\ Goto(r, "token") /\ UNCHANGED key
     \/ /\ Misses(r, "auth")
        /\ key' = [key EXCEPT ![r] = MobileKey(r.mobile)]
        /\ Goto(r, "get") /\ UNCHANGED userId
  /\ UNCHANGED answer /\ ReadOnly

\* WxMiniAuth: a known openid gets a token for its user, an unknown one goes on
\* to Register with the phone number.
WxCheck(r) ==
  /\ r.kind = "wx"
  /\ \/ /\ Finds(r, "auth")
        /\ \E a \in RowsOf(key[r]) : userId' = [userId EXCEPT ![r] = a.userId]
        /\ Goto(r, "token") /\ UNCHANGED key
     \/ /\ Misses(r, "auth")
        /\ key' = [key EXCEPT ![r] = MobileKey(r.mobile)]
        /\ Goto(r, "get") /\ UNCHANGED userId
  /\ UNCHANGED answer /\ ReadOnly

GetUserInfo(r) ==
  /\ r.kind = "info"
  /\ \/ Finds(r, "id") /\ Reply(r, "ok", key[r][2])
     \/ Misses(r, "id") /\ Refuse(r, "noUser")
  /\ UNCHANGED <<key, userId>> /\ ReadOnly

\* Without a WeChat login the RPC answers an empty record.
GetUserAuthByUserId(r) ==
  /\ r.kind = "openid"
  /\ \/ Finds(r, "userAuth") /\ Reply(r, "ok", key[r][2])
     \/ Misses(r, "userAuth") /\ Reply(r, "ok", 0)
  /\ UNCHANGED <<key, userId>> /\ ReadOnly

-----------------------------------------------------------------------------
(* The transaction of Register                                             *)

NewUser(r) == [id |-> lastId + 1, mobile |-> r.mobile, pwd |-> r.pwd]
NewAuth(r) == [userId |-> userId[r],
               type |-> IF r.kind = "wx" THEN SmallWX ELSE System,
               key |-> IF r.kind = "wx" THEN r.openid ELSE r.mobile]

Rollback(r) == tx' = [tx EXCEPT ![r] = None]

\* The others whose uncommitted insert holds the index entry r wants.
Blocked(r, stage) ==
  \E q \in Requests \ {r} : /\ tx[q] # None
    /\ IF stage = "user" THEN \E u \in tx[q].users : u.mobile = r.mobile
       ELSE \E a \in tx[q].auths : a.type = NewAuth(r).type /\ a.key = NewAuth(r).key

\* Mutant of InsertUser: the table has no unique index on mobile.
InsertUserAnyway(r) ==
  /\ pc[r] = "insertUser"
  /\ lastId' = lastId + 1
  /\ tx' = [tx EXCEPT ![r] = [users |-> {NewUser(r)}, auths |-> {}]]
  /\ userId' = [userId EXCEPT ![r] = lastId + 1]
  /\ Goto(r, "delUser")
  /\ UNCHANGED <<users, auths, cache, key, answer, faults>>

\* Mutant of InsertUser: the statement runs outside the session, and commits.
InsertUserOutside(r) ==
  /\ pc[r] = "insertUser"
  /\ ~Blocked(r, "user")
  /\ lastId' = lastId + 1
  /\ IF \E u \in users : u.mobile = r.mobile
     THEN Refuse(r, "dbError") /\ UNCHANGED <<users, tx, userId>>
     ELSE /\ users' = users \union {NewUser(r)}
          /\ tx' = [tx EXCEPT ![r] = [users |-> {}, auths |-> {}]]
          /\ userId' = [userId EXCEPT ![r] = lastId + 1]
          /\ Goto(r, "delUser") /\ UNCHANGED answer
  /\ UNCHANGED <<auths, cache, key, faults>>

\* INSERT of the user, which takes an id even when it fails.
InsertUser(r) ==
  /\ pc[r] = "insertUser"
  /\ ~Blocked(r, "user")
  /\ lastId' = lastId + 1
  /\ IF \E u \in users : u.mobile = r.mobile
     THEN Refuse(r, "dbError") /\ UNCHANGED <<tx, userId>>
     ELSE /\ tx' = [tx EXCEPT ![r] = [users |-> {NewUser(r)}, auths |-> {}]]
          /\ userId' = [userId EXCEPT ![r] = lastId + 1]
          /\ Goto(r, "delUser") /\ UNCHANGED answer
  /\ UNCHANGED <<users, auths, cache, key, faults>>

\* DEL of the mobile key and of the id key of user 0, before the commit.  A DEL
\* that fails is left to the cleaner.
DelUser(r) ==
  /\ pc[r] = "delUser"
  /\ \/ cache' = [cache EXCEPT ![MobileKey(r.mobile)] = "miss"] /\ UNCHANGED faults
     \/ Fault /\ UNCHANGED cache
  /\ Goto(r, "insertAuth")
  /\ UNCHANGED <<tables, key, tx, userId, answer>>

\* INSERT of the auth record; a duplicate rolls the user back too.
InsertAuth(r) ==
  /\ pc[r] = "insertAuth"
  /\ ~Blocked(r, "auth")
  /\ IF \E a \in auths : a.type = NewAuth(r).type /\ a.key = NewAuth(r).key
     THEN Refuse(r, "dbError") /\ Rollback(r)
     ELSE /\ tx' = [tx EXCEPT ![r].auths = {NewAuth(r)}]
          /\ Goto(r, "delAuth") /\ UNCHANGED answer
  /\ UNCHANGED <<tables, cache, key, userId, faults>>

DelAuth(r) ==
  /\ pc[r] = "delAuth"
  /\ \/ /\ cache' = [k \in Keys |->
                       IF k \in {AuthKey(NewAuth(r).type, NewAuth(r).key),
                                 UserAuthKey(userId[r], NewAuth(r).type)}
                       THEN "miss" ELSE cache[k]]
        /\ UNCHANGED faults
     \/ Fault /\ UNCHANGED cache
  /\ Goto(r, "commit")
  /\ UNCHANGED <<tables, key, tx, userId, answer>>

Commit(r) ==
  /\ pc[r] = "commit"
  /\ users' = users \union tx[r].users
  /\ auths' = auths \union tx[r].auths
  /\ Rollback(r)
  /\ Goto(r, "token")
  /\ UNCHANGED <<lastId, cache, key, userId, answer, faults>>

\* GenerateToken: a signed user id.
GenerateToken(r) ==
  /\ pc[r] = "token"
  /\ Reply(r, "token", userId[r])
  /\ UNCHANGED <<key, userId>> /\ ReadOnly

\* Mutant of FailRequest: an error leaves the transaction open.
FailInTransaction(r) ==
  /\ pc[r] \notin {"new", "done"}
  /\ Fault
  /\ Refuse(r, "error")
  /\ UNCHANGED <<tables, cache, key, tx, userId>>

\* MySQL or Redis fails, a lock wait times out, the deadline passes or the
\* server dies.  An open transaction is rolled back; one whose commit went
\* through stays, although its caller is told of an error.
FailRequest(r) ==
  /\ pc[r] \notin {"new", "done"}
  /\ Fault
  /\ Rollback(r)
  /\ Refuse(r, "error")
  /\ UNCHANGED <<tables, cache, key, userId>>

-----------------------------------------------------------------------------
ArriveNext(r) ==
  \/ RegisterRequest(r) \/ LoginRequest(r) \/ WxRequest(r)
  \/ InfoRequest(r) \/ OpenidRequest(r) \/ Unauthorized(r)

ServeNext(r) ==
  \/ Get(r) \/ Select(r) \/ Mark(r)
  \/ RegisterCheck(r) \/ LoginCheck(r) \/ WxCheck(r)
  \/ GetUserInfo(r) \/ GetUserAuthByUserId(r)
  \/ InsertUser(r) \/ DelUser(r) \/ InsertAuth(r) \/ DelAuth(r)
  \/ Commit(r) \/ GenerateToken(r)

Next ==
  \/ \E r \in Requests : ArriveNext(r) \/ ServeNext(r) \/ FailRequest(r)
  \/ \E k \in Keys : ExpireKey(k)

\* Goroutines run, an insert whose lock is free proceeds, and keys expire.
Fairness ==
  /\ \A r \in Requests : WF_vars(ServeNext(r))
  /\ \A k \in Keys : WF_vars(ExpireKey(k))

Spec == Init /\ [][Next]_vars /\ Fairness

-----------------------------------------------------------------------------
(* Properties                                                              *)

\* Registration is all or nothing, whatever fails in between and whoever else
\* registers: every committed user has exactly one login record and every login
\* record its user (the transaction at registerLogic.go:43).
UsersAreBound ==
  /\ \A u \in users : Cardinality({a \in auths : a.userId = u.id}) = 1
  /\ \A a \in auths : \E u \in users : u.id = a.userId

\* Two registrations that both found the number free do not both succeed: the
\* check at registerLogic.go:34 reads a cache, the unique indexes decide.
OneUserPerMobile ==
  /\ \A u, v \in users : u.mobile = v.mobile => u = v
  /\ \A a, b \in auths : a.type = b.type /\ a.key = b.key => a = b

\* A token is issued only for a committed user, who has the caller's mobile
\* number and password, or whom the caller's openid belongs to.
TokensAreForTheCaller ==
  \A r \in Requests : answer[r].code = "token" =>
    \E u \in users : /\ u.id = answer[r].userId
      /\ IF r.kind = "wx"
         THEN [userId |-> u.id, type |-> SmallWX, key |-> r.openid] \in auths
         ELSE u.mobile = r.mobile /\ u.pwd = r.pwd

\* The placeholder that a lookup puts back between the DEL and the COMMIT of a
\* registration does not hide the user for good.
UsersAppear ==
  <>[](\A k \in Keys : RowsOf(k) # {} => cache[k] # "absent")

\* No request waits forever, not even for the index entries of others.
RequestsEnd == <>[](\A r \in Requests : pc[r] \in {"new", "done"})
=============================================================================
