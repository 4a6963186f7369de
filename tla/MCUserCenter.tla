----------------------------- MODULE MCUserCenter -----------------------------
(***************************************************************************)
(* A small set of requests.  "m1" and "m2" are mobile numbers, "o1" is an  *)
(* openid.  A caller who uses WeChat sends no password.                    *)
(***************************************************************************)
EXTENDS UserCenter

Request(id, kind, mobile, pwd, openid, after, by) ==
  [id |-> id, kind |-> kind, mobile |-> mobile, pwd |-> pwd,
   openid |-> openid, after |-> after, by |-> by]

Register1 == Request(1, "register", "m1", "a", None, None, None)
Register2 == Request(3, "register", "m2", "b", None, Register1, None)
Wx2 == Request(4, "wx", "m2", None, "o1", Register1, Register1)
Wx3 == Request(5, "wx", "m3", None, "o1", Register2, Register1)
Info3 == Request(6, "info", "m3", None, "o1", Wx3, Wx3)
Openid3 == Request(7, "openid", "m3", None, "o1", Info3, Wx3)
Login2 == Request(2, "login", "m2", "b", None, Register2, None)
Everyone == {Register1, Register2, Wx2, Wx3, Info3, Openid3, Login2}
=============================================================================
