----------------------------- MODULE HttpRequests ------------------------------
(***************************************************************************)
(* The requests of Api, with the lists of travel-api whose handlers look   *)
(* up concurrently what a page of activities names.                        *)
(***************************************************************************)
EXTENDS Api

CONSTANTS
  MaxRows,   \* bound on the activities on a page
  Workers    \* mappers at a time, and the size of the pipe to the reducer

ASSUME HttpRequestsAssumption == MaxRows \in Nat /\ Workers \in Nat \ {0}

VARIABLES stage, mapper, looked, pipe, list

lists == <<stage, mapper, looked, pipe, list>>

Activity == INSTANCE ActivityLists WITH handler <- route.name

RequestInit == Init /\ Activity!Init

\* Everything else that a route does.
Serve == Next /\ UNCHANGED lists

\* HomestayList or GoodBoss looks up what its page names.
LookUp ==
  /\ At({Activities})
  /\ UNCHANGED vars
  /\ Activity!Next

\* The logic goes on without what failed, which is logged.
GoWithout ==
  /\ raised' = Append(raised, Internal) /\ masked' = TRUE
  /\ at' = at + 1
  /\ UNCHANGED answer

\* It is done: the page could not be read, or the reducer panicked, which leaves
\* the answer to the recovery of the HTTP server, or the list is answered, also
\* when lookups have failed: these cost their entries.
LookedUp ==
  /\ At({Activities})
  /\ \/ stage = "answered" /\ (\A i \in DOMAIN looked : looked[i] # "failed") /\ Go
     \/ stage = "answered" /\ (\E i \in DOMAIN looked : looked[i] = "failed") /\ GoWithout
     \/ stage = "failed" /\ Fail(Internal, HttpResult(NewErrCode(DB_ERROR)), TRUE)
     \/ stage = "panicked" /\ Fail(Internal, NoBody(500), FALSE)
  /\ UNCHANGED <<route, token, uid, lists>>

RequestNext == Serve \/ LookUp \/ LookedUp

\* Goroutines are scheduled, and every query and call returns.
Spec ==
  /\ RequestInit
  /\ [][RequestNext]_<<vars, lists>>
  /\ WF_<<vars, lists>>(RequestNext)

-----------------------------------------------------------------------------
(* Properties                                                              *)

\* However the lookups of a list are scheduled and whichever fail, its answer
\* holds what was found.
ListIsWhatWasFound == Activity!ListIsWhatWasFound

\* Every request is answered, also when the reducer of a list has panicked with
\* mappers that wait to write.
RequestEnds == <>(answer # <<>>)
=============================================================================
