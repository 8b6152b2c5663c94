------------------------------- MODULE Registry -------------------------------
(***************************************************************************)
(* What the name gateway promises: requests are carried out one at a time, *)
(* each against the table as it then is, and the answer to a request is    *)
(* what came of that request.  When the outcome is not known, the answer   *)
(* says so, and the request has been carried out once or not at all.       *)
(***************************************************************************)
CONSTANTS Client, Name, Addr, NoAddr, NoJob

VARIABLES table,   \* the address registered under each name, or NoAddr
          job,     \* the request in progress: who asked what, what came of it
          answer   \* the last answer: to whom, to what, and what it says

vars == <<table, job, answer>>

Request == [type : {"register", "deregister"}, name : Name, addr : Addr]
             \cup [type : {"get"}, name : Name, addr : {NoAddr}]

\* Whether a request is carried out, the table after it, and its result.
Applies(r) ==
  CASE r.type = "register"   -> table[r.name] = NoAddr
    [] r.type = "deregister" -> table[r.name] = r.addr
    [] r.type = "get"        -> table[r.name] # NoAddr
TableAfter(r) ==
  IF ~Applies(r) \/ r.type = "get" THEN table
  ELSE [table EXCEPT ![r.name] = IF r.type = "register" THEN r.addr ELSE NoAddr]
Result(r) ==
  IF ~Applies(r) THEN [code |-> "failed", addr |-> NoAddr]
  ELSE [code |-> "success",
        addr |-> IF r.type = "get" THEN table[r.name] ELSE r.addr]

Pending == [code |-> "pending", addr |-> NoAddr]
Unknown == [code |-> "unknown", addr |-> NoAddr]

Init ==
  /\ table = [n \in Name |-> NoAddr]
  /\ job = NoJob
  /\ answer = NoJob

Take(c, r) ==
  /\ job = NoJob
  /\ job' = [to |-> c, req |-> r, result |-> Pending]
  /\ UNCHANGED <<table, answer>>

Perform ==
  /\ job # NoJob
  /\ job.result = Pending
  /\ table' = TableAfter(job.req)
  /\ job' = [job EXCEPT !.result = Result(job.req)]
  /\ UNCHANGED answer

Lose ==
  /\ job # NoJob
  /\ job.result = Pending
  /\ table' \in {table, TableAfter(job.req)}
  /\ job' = [job EXCEPT !.result = Unknown]
  /\ UNCHANGED answer

Answer ==
  /\ job # NoJob
  /\ job.result # Pending
  /\ answer' = job
  /\ job' = NoJob
  /\ UNCHANGED table

Next ==
  \/ \E c \in Client, r \in Request : Take(c, r)
  \/ Perform \/ Lose \/ Answer

Spec == Init /\ [][Next]_vars
=============================================================================
