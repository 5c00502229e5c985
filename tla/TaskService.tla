---------------------------- MODULE TaskService ----------------------------
(***************************************************************************)
(* What RecyclingPool and RecyclingPool2 promise to the threads that use   *)
(* them, with the executors and their replacement left out.  A thread      *)
(* opens a session (__enter__), any thread submits to the open session,    *)
(* every accepted task is resolved, and closing the session (__exit__)     *)
(* returns only when nothing accepted in it is left unresolved.            *)
(***************************************************************************)
CONSTANTS Threads, Tasks, Nobody

VARIABLES
    session,    \* session[p]: "out", "open" or "closing"
    status,     \* status[t]: "new", "pending", "done" or "refused"
    of          \* of[t]: the thread whose session accepted t, or Nobody

vars == <<session, status, of>>

Init ==
    /\ session = [p \in Threads |-> "out"]
    /\ status = [t \in Tasks |-> "new"]
    /\ of = [t \in Tasks |-> Nobody]

(* One session is open at a time; an earlier one may still be closing. *)
Open(p) ==
    /\ session[p] = "out"
    /\ \A q \in Threads : session[q] # "open"
    /\ session' = [session EXCEPT ![p] = "open"]
    /\ UNCHANGED <<status, of>>

Close(p) ==
    /\ session[p] = "open"
    /\ session' = [session EXCEPT ![p] = "closing"]
    /\ UNCHANGED <<status, of>>

(* Nothing the session accepted is left behind. *)
Closed(p) ==
    /\ session[p] = "closing"
    /\ \A t \in Tasks : of[t] = p => status[t] # "pending"
    /\ session' = [session EXCEPT ![p] = "out"]
    /\ UNCHANGED <<status, of>>

(* Only an open session accepts. *)
Accept(t, p) ==
    /\ status[t] = "new"
    /\ session[p] = "open"
    /\ status' = [status EXCEPT ![t] = "pending"]
    /\ of' = [of EXCEPT ![t] = p]
    /\ UNCHANGED session

(* The submit call raises: no session is open, or its workers died. *)
Refuse(t) ==
    /\ status[t] = "new"
    /\ status' = [status EXCEPT ![t] = "refused"]
    /\ UNCHANGED <<session, of>>

Finish(t) ==
    /\ status[t] = "pending"
    /\ status' = [status EXCEPT ![t] = "done"]
    /\ UNCHANGED <<session, of>>

Next ==
    \/ \E p \in Threads : Open(p) \/ Close(p) \/ Closed(p)
    \/ \E t \in Tasks : Refuse(t) \/ Finish(t) \/ \E p \in Threads : Accept(t, p)

Spec ==
    /\ Init /\ [][Next]_vars
    /\ \A p \in Threads : WF_vars(Closed(p))
    /\ \A t \in Tasks : WF_vars(Finish(t))
=============================================================================
