-------------------------------- MODULE Tables --------------------------------
(***************************************************************************)
(* The eight tables of the repository for GeneratedModel: what             *)
(* distinguishes one from another is its unique indexes and the rows its   *)
(* service inserts.                                                        *)
(*                                                                         *)
(* Columns that are in no index are left out; they never change a key.     *)
(***************************************************************************)
EXTENDS GeneratedModel

CONSTANTS
  Methods, MaxId, MaxVersion,
  MaxBareId    \* bound on the rows of the table that is written without a version

Table(name, indexes, inserted) ==
  [name |-> name, indexes |-> indexes, rows |-> inserted,
   methods |-> Methods, maxId |-> MaxId, maxVersion |-> MaxVersion]

\* user: a mobile number belongs to one user.
UserIndexes == {{"mobile"}}
User == {[mobile |-> "m1"], [mobile |-> "m2"]}
UserModel == Table("user", UserIndexes, User)

\* The same, written by callers of the methods that have no use for the version.
UserBareModel ==
  [Table("user_bare", UserIndexes, User) EXCEPT
     !.methods = {"Update", "Delete"}, !.maxId = MaxBareId, !.maxVersion = 0]

\* user_auth: a platform identity belongs to one user, and a user has one
\* identity per platform.
UserAuthIndexes == {{"authType", "authKey"}, {"userId", "authType"}}
UserAuth == {[userId |-> "u1", authType |-> "wx", authKey |-> "k1"],
             [userId |-> "u1", authType |-> "wx", authKey |-> "k2"]}
UserAuthModel == Table("user_auth", UserAuthIndexes, UserAuth)

HomestayOrderIndexes == {{"sn"}}
HomestayOrder == {[sn |-> "o1"], [sn |-> "o2"]}
HomestayOrderModel == Table("homestay_order", HomestayOrderIndexes, HomestayOrder)

ThirdPaymentIndexes == {{"sn"}}
ThirdPayment == {[sn |-> "p1"], [sn |-> "p2"]}
ThirdPaymentModel == Table("third_payment", ThirdPaymentIndexes, ThirdPayment)

\* homestay_business: one business per user.
HomestayBusinessIndexes == {{"userId"}}
HomestayBusiness == {[userId |-> "u1"], [userId |-> "u2"]}
HomestayBusinessModel == Table("homestay_business", HomestayBusinessIndexes, HomestayBusiness)

\* The other three tables have only their primary key; what a row refers to is
\* never part of a cache key.
Homestay == {[homestayBusinessId |-> "b1"]}
HomestayModel == Table("homestay", {}, Homestay)

HomestayActivity == {[rowType |-> "preferredHomestay"]}
HomestayActivityModel == Table("homestay_activity", {}, HomestayActivity)

HomestayComment == {[homestayId |-> "h1"]}
HomestayCommentModel == Table("homestay_comment", {}, HomestayComment)

AllTables ==
  {UserModel, UserBareModel, UserAuthModel, HomestayOrderModel, ThirdPaymentModel,
   HomestayBusinessModel, HomestayModel, HomestayActivityModel, HomestayCommentModel}
=============================================================================
