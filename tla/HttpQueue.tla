------------------------------ MODULE HttpQueue ------------------------------
(***************************************************************************)
(* What the asynchronous HttpClient promises its callers (spec 4.6, 5):   *)
(* tasks are submitted to a FIFO queue and answered in submission order,   *)
(* each by one callback; a task is given up unanswered only once shutdown  *)
(* has begun, and then only the oldest one still pending.  How the worker, *)
(* the two mutexes and the condition variable achieve this is the          *)
(* implementation's (HttpClient).  Only safety is promised here: a request *)
(* that throws on the worker ends the program.                             *)
(***************************************************************************)
EXTENDS Sequences

CONSTANT Jobs    \* the identities a submitted task may have

VARIABLES
    pending,    \* the submitted tasks not yet answered or given up, oldest first
    submitted,  \* every task submitted so far, in order
    answered,   \* every task whose callback ran, in order
    closed      \* shutdown has begun

qvars == <<pending, submitted, answered, closed>>

QueueInit ==
    /\ pending = <<>>
    /\ submitted = <<>>
    /\ answered = <<>>
    /\ closed = FALSE

(* performRequest: a caller of a live client adds a task at the back.     *)
Submit(j) ==
    /\ ~closed
    /\ pending' = Append(pending, j)
    /\ submitted' = Append(submitted, j)
    /\ UNCHANGED <<answered, closed>>

(* The oldest pending task gets its callback.                             *)
Answer ==
    /\ pending # <<>>
    /\ answered' = Append(answered, Head(pending))
    /\ pending' = Tail(pending)
    /\ UNCHANGED <<submitted, closed>>

(* After shutdown began, the oldest pending task is given up.             *)
GiveUp ==
    /\ closed
    /\ pending # <<>>
    /\ pending' = Tail(pending)
    /\ UNCHANGED <<submitted, answered, closed>>

(* The client's destructor starts shutdown.                               *)
Close ==
    /\ closed' = TRUE
    /\ UNCHANGED <<pending, submitted, answered>>

QueueNext == (\E j \in Jobs : Submit(j)) \/ Answer \/ GiveUp \/ Close

QueueSafety == QueueInit /\ [][QueueNext]_qvars
=============================================================================
