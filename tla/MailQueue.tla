------------------------------ MODULE MailQueue ------------------------------
(***************************************************************************)
(* The mail service of internal/platform/email: a bounded channel in       *)
(* memory, a few workers that empty it, and Close.                         *)
(***************************************************************************)
EXTENDS Integers, Sequences

CONSTANTS
  Mails,
  Workers,
  QueueSize  \* room in the channel

VARIABLES
  tasks,    \* the channel
  worker,   \* "idle", "gone", or the mail a worker is sending
  closing,  \* Close has closed the quit channel
  closed,   \* Close has returned
  accepted, \* history: mails taken into the channel
  tried     \* history: mails a worker has done with, delivered or not

mailVars == <<tasks, worker, closing, closed, accepted, tried>>

MailTypeOK ==
  /\ tasks \in Seq(Mails)
  /\ Len(tasks) <= QueueSize
  /\ worker \in [Workers -> {"idle", "gone"} \cup Mails]
  /\ closing \in BOOLEAN
  /\ closed \in BOOLEAN
  /\ accepted \subseteq Mails
  /\ tried \subseteq Mails

MailInit ==
  /\ tasks = <<>>
  /\ worker = [w \in Workers |-> "idle"]
  /\ closing = FALSE
  /\ closed = FALSE
  /\ accepted = {}
  /\ tried = {}

\* Mistake: the channel grows as it has to.
EnqueueAlways(m) ==
  /\ tasks' = Append(tasks, m)
  /\ accepted' = accepted \cup {m}
  /\ UNCHANGED <<worker, closing, closed, tried>>

\* A full channel refuses the mail; a closed service does not.
Enqueue(m) ==
  IF Len(tasks) < QueueSize
  THEN /\ tasks' = Append(tasks, m)
       /\ accepted' = accepted \cup {m}
       /\ UNCHANGED <<worker, closing, closed, tried>>
  ELSE UNCHANGED <<tasks, worker, closing, closed, accepted, tried>>

\* A worker that could also stop may still take a mail: select chooses.
Take(w) ==
  /\ worker[w] = "idle"
  /\ tasks # <<>>
  /\ worker' = [worker EXCEPT ![w] = Head(tasks)]
  /\ tasks' = Tail(tasks)
  /\ UNCHANGED <<closing, closed, accepted, tried>>

\* SendPasswordResetEmail returns; an error is logged.
Done(w) ==
  /\ worker[w] \in Mails
  /\ worker' = [worker EXCEPT ![w] = "idle"]
  /\ tried' = tried \cup {worker[w]}
  /\ UNCHANGED <<tasks, closing, closed, accepted>>

Stop(w) ==
  /\ worker[w] = "idle"
  /\ closing
  /\ worker' = [worker EXCEPT ![w] = "gone"]
  /\ UNCHANGED <<tasks, closing, closed, accepted, tried>>

Close ==
  /\ ~closing
  /\ closing' = TRUE
  /\ UNCHANGED <<tasks, worker, closed, accepted, tried>>

\* Mistake: Close does not wait for the workers.
CloseReturnsAtOnce ==
  /\ closing
  /\ ~closed
  /\ closed' = TRUE
  /\ UNCHANGED <<tasks, worker, closing, accepted, tried>>

\* wg.Wait has seen all workers return.
CloseReturns ==
  /\ closing
  /\ ~closed
  /\ \A w \in Workers : worker[w] = "gone"
  /\ closed' = TRUE
  /\ UNCHANGED <<tasks, worker, closing, accepted, tried>>

WorkerStep(w) == Take(w) \/ Done(w) \/ Stop(w)
=============================================================================
