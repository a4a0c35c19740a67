------------------------------ MODULE HttpCall ------------------------------
(***************************************************************************)
(* What a synchronous call of one HttpClient instance promises (spec 2, 4, *)
(* 7): calls made by several threads run one at a time, a call that has   *)
(* started eventually returns, and it returns exactly one response.       *)
(* Nothing is said here of how: the mutex, the socket, the wire protocol   *)
(* and redirects are the implementation's (HttpRequest).                   *)
(***************************************************************************)
EXTENDS Naturals

CONSTANTS
    Threads,   \* the calling threads
    MaxCalls,  \* bound: calls each thread makes
    Results,   \* the responses a call may return
    NoHolder,  \* no call is running
    NoResult   \* a call has not returned a response yet

VARIABLES
    apc,     \* per thread: "idle", "waiting" (called, not started) or "active"
    acalls,  \* per thread: calls made so far
    holder,  \* the thread whose call is running, or NoHolder
    aresp    \* per thread: the response of its last call

avars == <<apc, acalls, holder, aresp>>

CallInit ==
    /\ apc = [t \in Threads |-> "idle"]
    /\ acalls = [t \in Threads |-> 0]
    /\ holder = NoHolder
    /\ aresp = [t \in Threads |-> NoResult]

(* A thread calls get/head/del/post/put.                                  *)
Begin(t) ==
    /\ apc[t] = "idle"
    /\ acalls[t] < MaxCalls
    /\ apc' = [apc EXCEPT ![t] = "waiting"]
    /\ acalls' = [acalls EXCEPT ![t] = @ + 1]
    /\ aresp' = [aresp EXCEPT ![t] = NoResult]
    /\ UNCHANGED holder

(* The call starts once no other call is running.                         *)
Acquire(t) ==
    /\ apc[t] = "waiting"
    /\ holder = NoHolder
    /\ apc' = [apc EXCEPT ![t] = "active"]
    /\ holder' = t
    /\ UNCHANGED <<acalls, aresp>>

(* The call returns its one response.                                     *)
Complete(t) ==
    /\ apc[t] = "active"
    /\ \E r \in Results : aresp' = [aresp EXCEPT ![t] = r]
    /\ apc' = [apc EXCEPT ![t] = "idle"]
    /\ holder' = NoHolder
    /\ UNCHANGED acalls

CallNext == \E t \in Threads : Begin(t) \/ Acquire(t) \/ Complete(t)

(* The safety part: what may happen.                                      *)
CallSafety == CallInit /\ [][CallNext]_avars

(* A running call finishes; who runs next is not promised (std::mutex is  *)
(* not fair), so waiting carries no fairness.                             *)
CallSpec == CallSafety /\ \A t \in Threads : WF_avars(Complete(t))
=============================================================================
