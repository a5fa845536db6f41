------------------------- MODULE ExtractionContract -------------------------
(***************************************************************************)
(* What the host is promised of ExtractItem (src/src/api.h:58,125-130),    *)
(* with everything between the call and its result code hidden: a success  *)
(* leaves the whole row, a failure leaves what it likes of this one        *)
(* destination, a refusal leaves it alone, and nothing else ever changes a *)
(* destination.                                                            *)
(***************************************************************************)
CONSTANTS
  Handles,    \* handles the host may hold
  Paths,      \* destination paths
  Rows,       \* rows a handle may list
  Whole(_),   \* Whole(r): the contents of a completely extracted row
  Failures,   \* result codes other than success
  NoJob       \* "no call is running"

VARIABLES
  job,        \* job[h]: the row and the path of the running call
  verdict,    \* verdict[h]: the result code of the last call
  file        \* file[p]: absent, prior (as the host left it), busy, or output

vars == <<job, verdict, file>>

Busy == [is |-> "busy", data |-> <<>>]

Init ==
  /\ job = [h \in Handles |-> NoJob]
  /\ verdict = [h \in Handles |-> "none"]
  /\ file \in [Paths -> {[is |-> "absent", data |-> <<>>], [is |-> "prior", data |-> <<>>]}]

Start(h, r, p) ==
  /\ job[h] = NoJob
  /\ file[p] # Busy
  /\ job' = [job EXCEPT ![h] = [row |-> r, path |-> p]]
  /\ verdict' = [verdict EXCEPT ![h] = "none"]
  /\ file' = [file EXCEPT ![p] = Busy]

Refuse(h) ==
  /\ job[h] = NoJob
  /\ \E code \in Failures : verdict' = [verdict EXCEPT ![h] = code]
  /\ UNCHANGED <<job, file>>

Succeed(h) ==
  /\ job[h] # NoJob
  /\ job' = [job EXCEPT ![h] = NoJob]
  /\ verdict' = [verdict EXCEPT ![h] = "SER_SUCCESS"]
  /\ file' = [file EXCEPT ![job[h].path] = [is |-> "output", data |-> Whole(job[h].row)]]

Fail(h) ==
  /\ job[h] # NoJob
  /\ job' = [job EXCEPT ![h] = NoJob]
  /\ \E code \in Failures : verdict' = [verdict EXCEPT ![h] = code]
  /\ file'[job[h].path].is \in {"absent", "output"}
  /\ file' = [file EXCEPT ![job[h].path] = file'[job[h].path]]

\* The handle is closed, and its slot may serve another archive.
Forget(h) ==
  /\ job[h] = NoJob
  /\ verdict' = [verdict EXCEPT ![h] = "none"]
  /\ UNCHANGED <<job, file>>

Next ==
  \E h \in Handles :
    \/ \E r \in Rows, p \in Paths : Start(h, r, p)
    \/ Refuse(h)
    \/ Succeed(h)
    \/ Fail(h)
    \/ Forget(h)

Spec == Init /\ [][Next]_vars
=============================================================================
