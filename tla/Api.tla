--------------------------------- MODULE Api ----------------------------------
(***************************************************************************)
(* A request to one of the four HTTP services, from its route to the       *)
(* answer: what the handler and its logic do one after the other, where    *)
(* that may fail, and how an error travels from the service that raised it *)
(* through gRPC to the client.  What the calls do is the subject of the    *)
(* other modules; HttpRequests adds the two lists that look up what they   *)
(* name.  The healthz routes and WeChat's callback, which answer in ways   *)
(* of their own, are left out.                                             *)
(*                                                                         *)
(* The message of an answer is the set of the texts it is made of.         *)
(***************************************************************************)
EXTENDS Integers, Sequences

-----------------------------------------------------------------------------
(* Error codes                                                             *)

OK == 200
SERVER_COMMON_ERROR == 100001
REUQEST_PARAM_ERROR == 100002
TOKEN_EXPIRE_ERROR == 100003
TOKEN_GENERATE_ERROR == 100004
DB_ERROR == 100005
DB_UPDATE_AFFECTED_ZERO_ERROR == 100006

message ==
  [code \in {OK} \union (SERVER_COMMON_ERROR..DB_UPDATE_AFFECTED_ZERO_ERROR) |->
     CASE code = OK                            -> "SUCCESS"
       [] code = SERVER_COMMON_ERROR           -> "server busy"
       [] code = REUQEST_PARAM_ERROR           -> "parameter error"
       [] code = TOKEN_EXPIRE_ERROR            -> "token expired"
       [] code = TOKEN_GENERATE_ERROR          -> "no token generated"
       [] code = DB_ERROR                      -> "database busy"
       [] OTHER                                -> "nothing updated"]

IsCodeErr(code) == code \in DOMAIN message

MapErrMsg(code) == IF IsCodeErr(code) THEN message[code] ELSE message[SERVER_COMMON_ERROR]

\* Errors: a CodeError, a status that came through gRPC, or any other.
NewErrCode(code) == [type |-> "code", code |-> code, msg |-> MapErrMsg(code)]
NewErrMsg(msg) == [type |-> "code", code |-> SERVER_COMMON_ERROR, msg |-> msg]
GrpcStatus(code, msg) == [type |-> "grpc", code |-> code, msg |-> msg]

\* An error of the database, the network or a library; its text is not for clients.
Internal == [type |-> "other", code |-> 0, msg |-> "internal"]

\* What httpx.Parse says of a request that it cannot read.
Malformed == [type |-> "other", code |-> 0, msg |-> "malformed"]

Unknown == 2
Unavailable == 14

\* What the logic of an RPC may return.
RpcErrors ==
  {NewErrCode(code) : code \in DOMAIN message \ {OK}} \union {NewErrMsg("own"), Internal}

\* Mutant of LoggerInterceptor: errors are logged and not converted.
LoggerOnly(err) == GrpcStatus(Unknown, err.msg)

\* The RPC server makes a status of a CodeError; gRPC makes one of any other error.
LoggerInterceptor(err) ==
  IF err.type = "code" THEN GrpcStatus(err.code, err.msg) ELSE GrpcStatus(Unknown, err.msg)

-----------------------------------------------------------------------------
(* What the handlers do                                                    *)

Parse == "parse"   \* httpx.Parse
Uid == "uid"       \* GetUidFromCtx
Pass == "pass"     \* a call whose error is returned, perhaps with a text in front
Mask == "mask"     \* one for whose error the logic puts a CodeError of its own
Logged == "logged" \* one whose error is logged, and whose answer is then used
Db == "db"         \* a query that fails with DB_ERROR
Own == "own"       \* a check that refuses with a message
Plain == "plain"   \* a step whose error is returned and is not a CodeError
Activities == "activities" \* a list of ActivityLists
May == "may"       \* the rest is done or not

Handler(logic) == <<Parse>> \o logic

LoginHandler == Handler(<<Pass>>)
RegisterHandler == Handler(<<Pass>>)

DetailLogic == <<Uid, Pass>>
DetailHandler == Handler(DetailLogic)

\* WeChat, its data, and the three calls to usercenter-rpc, of which a user who is
\* known needs fewer.
WxMiniAuthHandler == Handler(<<Mask, Mask, Mask, May, Mask, Mask>>)

CreateHomestayOrderHandler == Handler(<<Pass, Own, Uid, Mask>>)
UserHomestayOrderListHandler == Handler(<<Uid, Mask>>)

\* The payment is looked up for an order of the caller that is paid for.
UserHomestayOrderDetailLogic == <<Uid, Mask, May, Logged>>
UserHomestayOrderDetailHandler == Handler(UserHomestayOrderDetailLogic)

ThirdPaymentwxPayHandler == Handler(<<Own, Mask, Uid, Mask, Own, Mask, Plain, Mask>>)

GuessListLogic == <<Db>>
GuessListHandler == Handler(GuessListLogic)
BusinessListHandler == Handler(<<Db>>)
HomestayListHandler == Handler(<<Activities>>)

HomestayDetailLogic == <<Mask>>
HomestayDetailHandler == Handler(HomestayDetailLogic)

GoodBossHandler == Handler(<<Activities>>)
HomestayBussinessListHandler == Handler(<<Db>>)

\* A business that is not found is answered empty.
HomestayBussinessDetailLogic == <<Db, May, Mask>>
HomestayBussinessDetailHandler == Handler(HomestayBussinessDetailLogic)

CommentListLogic == <<>>
CommentListHandler == Handler(CommentListLogic)

Open(name, handler) == [name |-> name, jwt |-> FALSE, handler |-> handler]
WithJwt(name, handler) == [name |-> name, jwt |-> TRUE, handler |-> handler]

UsercenterRoutes ==
  {Open("login", LoginHandler), Open("register", RegisterHandler),
   WithJwt("detail", DetailHandler), WithJwt("wxMiniAuth", WxMiniAuthHandler)}

\* Mutant of OrderRoutes: one is registered without the token check.
OrderRoutesOpen ==
  {WithJwt("createHomestayOrder", CreateHomestayOrderHandler),
   WithJwt("userHomestayOrderDetail", UserHomestayOrderDetailHandler),
   Open("userHomestayOrderList", UserHomestayOrderListHandler)}

OrderRoutes ==
  {WithJwt("createHomestayOrder", CreateHomestayOrderHandler),
   WithJwt("userHomestayOrderDetail", UserHomestayOrderDetailHandler),
   WithJwt("userHomestayOrderList", UserHomestayOrderListHandler)}

PaymentRoutes == {WithJwt("thirdPaymentWxPay", ThirdPaymentwxPayHandler)}

TravelRoutes ==
  {Open("businessList", BusinessListHandler), Open("guessList", GuessListHandler),
   Open("homestayDetail", HomestayDetailHandler), Open("homestayList", HomestayListHandler),
   Open("goodBoss", GoodBossHandler),
   Open("homestayBussinessDetail", HomestayBussinessDetailHandler),
   Open("homestayBussinessList", HomestayBussinessListHandler),
   Open("commentList", CommentListHandler)}

Routes == UsercenterRoutes \union OrderRoutes \union PaymentRoutes \union TravelRoutes

-----------------------------------------------------------------------------
VARIABLES
  route,
  token,   \* the request has a valid token
  at,      \* the next step of the handler; 0 before it
  uid,     \* whose id the logic works with: "nobody", "caller", or "0" for no one's
  raised,  \* history: the errors that were raised, each where it came from
  masked,  \* history: the logic has put an error of its own for one, or only logged it
  answer   \* the answer: one, or none yet

vars == <<route, token, at, uid, raised, masked, answer>>

Init ==
  /\ route \in Routes
  /\ token \in BOOLEAN
  /\ at = 0 /\ uid = "nobody"
  /\ raised = <<>> /\ masked = FALSE /\ answer = <<>>

Steps == Len(route.handler)

At(kinds) == answer = <<>> /\ at \in 1..Steps /\ route.handler[at] \in kinds

\* Mutant of HttpResult: the text of every error is shown to the client.
HttpResultText(err) ==
  [status |-> 400, msg |-> {err.msg},
   code |-> IF IsCodeErr(err.code) THEN err.code ELSE SERVER_COMMON_ERROR]

\* The answer for an error: that of a CodeError or a status with a code of ours.
HttpResult(err) ==
  IF err.type = "code" \/ (err.type = "grpc" /\ IsCodeErr(err.code))
  THEN [status |-> 400, code |-> err.code, msg |-> {err.msg}]
  ELSE [status |-> 400, code |-> SERVER_COMMON_ERROR, msg |-> {message[SERVER_COMMON_ERROR]}]

\* The text of the error, whatever it is, comes after that of the code.
ParamErrorResult(err) ==
  [status |-> 400, code |-> REUQEST_PARAM_ERROR,
   msg |-> {MapErrMsg(REUQEST_PARAM_ERROR), err.msg}]

Success == [status |-> 200, code |-> 200, msg |-> {"OK"}]

\* The middleware answers without a body.
NoBody(status) == [status |-> status, code |-> 0, msg |-> {}]

Go == at' = at + 1 /\ UNCHANGED <<raised, masked, answer>>

Fail(err, shown, hides) ==
  /\ raised' = Append(raised, err)
  /\ masked' = (masked \/ hides)
  /\ answer' = <<shown>>
  /\ UNCHANGED at

-----------------------------------------------------------------------------
\* The token check of rest.WithJwt.
Authorize ==
  /\ at = 0 /\ answer = <<>>
  /\ IF route.jwt /\ ~token
     THEN answer' = <<NoBody(401)>> /\ UNCHANGED <<at, raised, masked>>
     ELSE Go
  /\ UNCHANGED <<route, token, uid>>

ParseRequest ==
  /\ At({Parse})
  /\ Go \/ Fail(Malformed, ParamErrorResult(Malformed), FALSE)
  /\ UNCHANGED <<route, token, uid>>

\* The id that the token check has put into the context, 0 if there is none.
GetUidFromCtx ==
  /\ At({Uid})
  /\ uid' = IF route.jwt THEN "caller" ELSE "0"
  /\ Go
  /\ UNCHANGED <<route, token>>

\* A call to an RPC, or to WeChat, which may fail in the callee or on the way.  When
\* the error is only logged, the answer that is nil is dereferenced.
Call ==
  /\ At({Pass, Mask, Logged})
  /\ \/ Go
     \/ \E err \in RpcErrors \union {GrpcStatus(Unavailable, "internal")} :
          LET arrives == IF err.type = "grpc" THEN err ELSE LoggerInterceptor(err) IN
          \/ At({Pass}) /\ Fail(err, HttpResult(arrives), FALSE)
          \/ At({Mask}) /\ Fail(err, HttpResult(NewErrMsg("own")), TRUE)
          \/ At({Logged}) /\ Fail(err, NoBody(500), FALSE)
  /\ UNCHANGED <<route, token, uid>>

Query ==
  /\ At({Db})
  /\ Go \/ Fail(Internal, HttpResult(NewErrCode(DB_ERROR)), TRUE)
  /\ UNCHANGED <<route, token, uid>>

Check ==
  /\ At({Own})
  /\ Go \/ Fail(NewErrMsg("own"), HttpResult(NewErrMsg("own")), FALSE)
  /\ UNCHANGED <<route, token, uid>>

NewWxPayClient ==
  /\ At({Plain})
  /\ Go \/ Fail(Internal, HttpResult(Internal), FALSE)
  /\ UNCHANGED <<route, token, uid>>

Decide ==
  /\ At({May})
  /\ at' \in {at + 1, Steps + 1}
  /\ UNCHANGED <<route, token, uid, raised, masked, answer>>

Finish ==
  /\ answer = <<>> /\ at = Steps + 1
  /\ answer' = <<Success>>
  /\ UNCHANGED <<route, token, at, uid, raised, masked>>

Next ==
  \/ Authorize \/ ParseRequest \/ GetUidFromCtx \/ Call \/ Query \/ Check
  \/ NewWxPayClient \/ Decide \/ Finish

-----------------------------------------------------------------------------
(* Properties                                                              *)

\* No client reads the text of an error of the database, the network or a library,
\* whichever service it was raised in, but what httpx.Parse says of a request: that
\* is told, with REUQEST_PARAM_ERROR, and only to who sent the request.
InternalsStayInside ==
  \A i \in DOMAIN answer :
    /\ "internal" \notin answer[i].msg
    /\ "malformed" \in answer[i].msg =>
         /\ answer[i].code = REUQEST_PARAM_ERROR
         /\ \E j \in DOMAIN raised : raised[j] = Malformed

\* An error that a service raised for the client, and that the logic of the route
\* does not mask, comes through gRPC to the client with its own code and text.
OwnErrorsArrive ==
  \A i \in DOMAIN answer, j \in DOMAIN raised :
    ~masked /\ raised[j].type = "code" /\ answer[i].status = 400 =>
      answer[i].code = raised[j].code /\ answer[i].msg = {raised[j].msg}

\* Whatever works with the caller's id is reached by callers with a token only.
UidIsCallers == uid # "nobody" => uid = "caller" /\ token
=============================================================================
