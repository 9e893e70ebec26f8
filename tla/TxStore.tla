------------------------------- MODULE TxStore -------------------------------
(***************************************************************************)
(* What a connection promises its callers (istorage's IConnection and      *)
(* ITransaction): transactions are atomic and serial, and a write outside  *)
(* a transaction is one of its own.  Rows are the threads that wrote them, *)
(* in order.                                                               *)
(***************************************************************************)
EXTENDS Naturals, Sequences

CONSTANTS Threads, Connections, NoThread

VARIABLES
    store,      \* connection -> durable rows
    view,       \* connection -> rows as its running transaction sees them
    txn         \* connection -> thread whose transaction is open

Init ==
    /\ store = [c \in Connections |-> <<>>]
    /\ view = [c \in Connections |-> <<>>]
    /\ txn = [c \in Connections |-> NoThread]

Begin(t, c) ==
    /\ txn[c] = NoThread
    /\ txn' = [txn EXCEPT ![c] = t]
    /\ UNCHANGED <<store, view>>

Put(t, c) ==
    /\ txn[c] = t
    /\ view' = [view EXCEPT ![c] = Append(@, t)]
    /\ UNCHANGED <<store, txn>>

AutoPut(t, c) ==
    /\ txn[c] = NoThread
    /\ view' = [view EXCEPT ![c] = Append(@, t)]
    /\ store' = [store EXCEPT ![c] = Append(@, t)]
    /\ UNCHANGED txn

Commit(t, c) ==
    /\ txn[c] = t
    /\ store' = [store EXCEPT ![c] = view[c]]
    /\ txn' = [txn EXCEPT ![c] = NoThread]
    /\ UNCHANGED view

Rollback(t, c) ==
    /\ txn[c] = t
    /\ view' = [view EXCEPT ![c] = store[c]]
    /\ txn' = [txn EXCEPT ![c] = NoThread]
    /\ UNCHANGED store

Next ==
    \E t \in Threads, c \in Connections :
        Begin(t, c) \/ Put(t, c) \/ AutoPut(t, c) \/ Commit(t, c) \/ Rollback(t, c)

Spec == Init /\ [][Next]_<<store, view, txn>>
=============================================================================
