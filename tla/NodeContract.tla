---------------------------- MODULE NodeContract ----------------------------
(***************************************************************************)
(* What a Node promises to the callers of put, wait_for, set_role and      *)
(* stop, without its worker threads and its condition variable: work is    *)
(* accepted once, started in the order of acceptance, under the role the   *)
(* Node had when it accepted it, and finishes as completed or failed; the  *)
(* role changes only while nothing is accepted and unfinished; a stopped   *)
(* Node accepts nothing, and an answer names what really happened.         *)
(* Module Node is shown to implement this specification.                   *)
(***************************************************************************)
EXTENDS Sequences

CONSTANTS Works,    (* the submissions, each a WorkInfo with a fresh id *)
          Clients,  (* the threads that call the Node                   *)
          Roles,    (* the NodeRole members                             *)
          NoRole    (* stands for "accepted under no role yet"          *)

VARIABLES
  queue,       \* accepted works that have not started, oldest first
  status,      \* [Works -> {"new", "queued", "running", "completed", "failed"}]
  role,        \* the Node's role
  acceptedAs,  \* [Works -> role at acceptance]
  stopped,     \* TRUE once the Node refuses work
  answer       \* [Clients -> the last result wait_for returned]

vars == <<queue, status, role, acceptedAs, stopped, answer>>

Outcomes == {"completed", "failed"}
Busy == \E w \in Works : status[w] \in {"queued", "running"}

Init ==
  /\ queue = <<>>
  /\ status = [w \in Works |-> "new"]
  /\ role \in Roles
  /\ acceptedAs = [w \in Works |-> NoRole]
  /\ stopped = FALSE
  /\ answer = [c \in Clients |-> <<>>]

Accept(w) ==
  /\ ~stopped
  /\ status[w] = "new"
  /\ status' = [status EXCEPT ![w] = "queued"]
  /\ queue' = Append(queue, w)
  /\ acceptedAs' = [acceptedAs EXCEPT ![w] = role]
  /\ UNCHANGED <<role, stopped, answer>>

Begin(w) ==
  /\ queue # <<>>
  /\ w = Head(queue)
  /\ acceptedAs[w] = role
  /\ status[w] = "queued"
  /\ status' = [status EXCEPT ![w] = "running"]
  /\ queue' = Tail(queue)
  /\ UNCHANGED <<role, acceptedAs, stopped, answer>>

Finish(w, outcome) ==
  /\ status[w] = "running"
  /\ status' = [status EXCEPT ![w] = outcome]
  /\ UNCHANGED <<queue, role, acceptedAs, stopped, answer>>

ChangeRole(r) ==
  /\ ~stopped
  /\ ~Busy
  /\ role' = r
  /\ UNCHANGED <<queue, status, acceptedAs, stopped, answer>>

Stop ==
  /\ stopped' = TRUE
  /\ UNCHANGED <<queue, status, role, acceptedAs, answer>>

Answer(c, w) ==
  /\ status[w] \in Outcomes
  /\ answer' = [answer EXCEPT ![c] = <<w, status[w]>>]
  /\ UNCHANGED <<queue, status, role, acceptedAs, stopped>>

Next ==
  \/ \E w \in Works : Accept(w) \/ Begin(w)
  \/ \E w \in Works, outcome \in Outcomes : Finish(w, outcome)
  \/ \E r \in Roles : ChangeRole(r)
  \/ Stop
  \/ \E c \in Clients, w \in Works : Answer(c, w)

Spec == Init /\ [][Next]_vars
=============================================================================
