---------------------------- MODULE ActivityLists -----------------------------
(***************************************************************************)
(* HomestayList and GoodBoss of travel-api: a page of activities is read   *)
(* and what each of them names is looked up concurrently by MapReduceVoid. *)
(* One request, the rest of whose way is in HttpRequests; requests share   *)
(* nothing.                                                                *)
(*                                                                         *)
(* An activity is its place on the page.                                   *)
(***************************************************************************)
EXTENDS Integers, Sequences, SequencesExt, FiniteSets

CONSTANTS
  MaxRows,   \* bound on the activities on a page
  Workers    \* mappers at a time, and the size of the pipe to the reducer

VARIABLES
  handler,   \* "homestayList" or "goodBoss"
  stage,     \* the handler: "query", "reduce", "drain" or one of Ended
  mapper,    \* of each activity on the page: "waiting", "looking", "writing", "done"
  looked,    \* what the lookup gave: "found", "missing" or "failed"; "none" before
  pipe,      \* what the mappers have written and the reducer has not read
  list       \* the answer so far

vars == <<handler, stage, mapper, looked, pipe, list>>

Ended == {"answered", "failed", "panicked"}

Page == DOMAIN mapper

Init ==
  /\ stage = "query"
  /\ mapper = <<>> /\ looked = <<>> /\ pipe = <<>> /\ list = <<>>

-----------------------------------------------------------------------------
\* The page of activities.  An empty one is answered without a lookup.
FindPageListByPage ==
  /\ stage = "query"
  /\ \/ stage' = "failed" /\ UNCHANGED <<mapper, looked>>
     \/ \E n \in 0..MaxRows :
          /\ mapper' = [i \in 1..n |-> "waiting"]
          /\ looked' = [i \in 1..n |-> "none"]
          /\ stage' = IF n = 0 THEN "answered" ELSE "reduce"
  /\ UNCHANGED <<handler, pipe, list>>

Busy == {i \in Page : mapper[i] \in {"looking", "writing"}}

\* The activities are handed to mappers in the order of the page, as these get free.
Generate(i) ==
  /\ mapper[i] = "waiting"
  /\ \A j \in 1..(i - 1) : mapper[j] # "waiting"
  /\ Cardinality(Busy) < Workers
  /\ mapper' = [mapper EXCEPT ![i] = "looking"]
  /\ UNCHANGED <<handler, stage, looked, pipe, list>>

\* A homestay that is not found is written too: as nil.
HomestayIsWritten(o) == o \in {"found", "missing"}

\* Mutant of UserIsWritten: whether there is a user is not looked at.
UserIsWrittenUnseen(o) == o \in {"found", "missing"}

UserIsWritten(o) == o = "found"

\* FindOne of the homestay, or GetUserInfo of the user, that activity i names.
Look(i) ==
  /\ mapper[i] = "looking"
  /\ \E o \in {"found", "missing", "failed"} :
       /\ looked' = [looked EXCEPT ![i] = o]
       /\ mapper' = [mapper EXCEPT ![i] =
            IF \/ handler = "homestayList" /\ HomestayIsWritten(o)
               \/ handler = "goodBoss" /\ UserIsWritten(o)
            THEN "writing" ELSE "done"]
  /\ UNCHANGED <<handler, stage, pipe, list>>

Write(i) ==
  /\ mapper[i] = "writing"
  /\ Len(pipe) < Workers
  /\ mapper' = [mapper EXCEPT ![i] = "done"]
  /\ pipe' = Append(pipe, i)
  /\ UNCHANGED <<handler, stage, looked, list>>

\* The reducer dereferences a homestay to convert its prices.  A user is only
\* copied, and of nil an empty one is made.
Reduce ==
  /\ stage = "reduce" /\ pipe # <<>>
  /\ pipe' = Tail(pipe)
  /\ IF handler = "homestayList" /\ looked[Head(pipe)] # "found"
     THEN stage' = "drain" /\ UNCHANGED list
     ELSE list' = Append(list, Head(pipe)) /\ UNCHANGED stage
  /\ UNCHANGED <<handler, mapper, looked>>

\* Mutant of Drain: a reducer that has panicked leaves the pipe as it is.
DrainNothing == FALSE /\ UNCHANGED vars

\* MapReduce reads on when the reducer has panicked, so that the mappers can end.
Drain ==
  /\ stage = "drain" /\ pipe # <<>>
  /\ pipe' = Tail(pipe)
  /\ UNCHANGED <<handler, stage, mapper, looked, list>>

\* The mappers are done and the pipe is closed: the list is answered, or the panic
\* of the reducer goes on in the request.
Finish ==
  /\ stage \in {"reduce", "drain"}
  /\ \A i \in Page : mapper[i] = "done"
  /\ pipe = <<>>
  /\ stage' = IF stage = "reduce" THEN "answered" ELSE "panicked"
  /\ UNCHANGED <<handler, mapper, looked, pipe, list>>

Next ==
  \/ FindPageListByPage
  \/ \E i \in Page : Generate(i) \/ Look(i) \/ Write(i)
  \/ Reduce \/ Drain \/ Finish

-----------------------------------------------------------------------------
(* Properties                                                              *)

\* However the mappers are scheduled, an answer has each activity whose homestay
\* or user was found, once, and nothing else.  A lookup that fails costs that one
\* entry: only a homestay that does not exist makes the reducer panic.
ListIsWhatWasFound ==
  /\ stage = "answered" =>
       /\ ToSet(list) = {i \in Page : looked[i] = "found"}
       /\ Len(list) = Cardinality(ToSet(list))
  /\ stage = "panicked" =>
       handler = "homestayList" /\ \E i \in Page : looked[i] = "missing"
=============================================================================
