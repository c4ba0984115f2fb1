----------------------------- MODULE EvalQueue -----------------------------
(***************************************************************************)
(* What the deferred evals of the control socket promise, without slots,   *)
(* descriptors, connection ids and the ring: requests queue up in order,   *)
(* each is run once, and the answer goes to the connection that asked or   *)
(* to nobody.                                                              *)
(***************************************************************************)
EXTENDS Naturals, SequencesExt

CONSTANTS
  Client,      \* the connections
  MaxPending   \* how many evals may wait

VARIABLES
  pending,     \* evals that wait, oldest first: who asked, and the request's id
  ran,         \* ids of the evals that have been run, in order
  answered,    \* pairs of a connection and the id of an answered eval
  over         \* the application has ended

queueVars == <<pending, ran, answered, over>>

EvalQueueInit == pending = <<>> /\ ran = <<>> /\ answered = {} /\ over = FALSE

\* A new id is greater than all that have been seen.
Submit(c) ==
  /\ ~over /\ Len(pending) < MaxPending
  /\ Len(pending') = Len(pending) + 1 /\ Front(pending') = pending
  /\ Last(pending').by = c
  /\ \A id \in {e.id : e \in ToSet(pending)} \cup ToSet(ran) : id < Last(pending').id
  /\ UNCHANGED <<ran, answered, over>>

\* The connection may be gone, or too slow to take the answer.
Serve ==
  /\ ~over /\ pending # <<>>
  /\ pending' = Tail(pending)
  /\ ran' = Append(ran, Head(pending).id)
  /\ \/ answered' = answered \cup {<<Head(pending).by, Head(pending).id>>}
     \/ UNCHANGED answered
  /\ UNCHANGED over

\* The application ends.
Abandon == ~over /\ over' = TRUE /\ pending' = <<>> /\ UNCHANGED <<ran, answered>>

EvalQueueNext == (\E c \in Client : Submit(c)) \/ Serve \/ Abandon

EvalQueueSpec == EvalQueueInit /\ [][EvalQueueNext]_queueVars
=============================================================================
