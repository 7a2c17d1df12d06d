---------------------------- MODULE CommandQueue ----------------------------
(***************************************************************************)
(* The in-order command queue of an OpenCL context, and the one host       *)
(* thread that feeds it.  A call of liboi is a script: it enqueues groups  *)
(* of commands, checks after a group whether one was refused, waits with   *)
(* clFinish, and returns.  Commands are carried out one after the other,   *)
(* at any time after they were enqueued - or never, unless a call waits    *)
(* for them - and a non-blocking transfer uses the host memory it was      *)
(* given only then.                                                        *)
(***************************************************************************)
EXTENDS Integers, FiniteSets, Sequences, SequencesExt

CONSTANTS
  MaxPending,    \* bound: commands pending when a call begins
  MaxRefused     \* bound: commands refused in one group
ASSUME PendingAssumption == MaxPending \in Nat /\ MaxRefused \in Nat

VARIABLES
  queue,       \* the commands not yet carried out
  todo,        \* what is left of the script of the current call
  refused,     \* whether OpenCL has reported an error since the last group began
  call,        \* the current call, or the last one
  outcome,     \* how the last call ended, or "running"
  ignored      \* whether a clFinish of that call failed, and it went on

queueVars == <<queue, todo, refused, call, outcome, ignored>>

\* What to do, with which elements of device buffers, and with whose memory
\* on the host: "none", "local" to the call, the "caller"'s, or "freed".
Command(op, cells, mem) == [op |-> op, cells |-> cells, mem |-> mem]

Enqueue(cmds) == [do |-> "enqueue", cmds |-> cmds]
Step(do) == [do |-> do, cmds |-> << >>]

\* status = clEnqueue...; status |= clEnqueue...; CHECK_OPENCL_ERROR(status)
Checked(cmds) == <<Enqueue(cmds), Step("check")>>

Idle == todo = << >>
Does(do) == ~Idle /\ Head(todo).do = do
Proceeds == todo' = Tail(todo) /\ UNCHANGED <<call, outcome, ignored>>

QueueInit ==
  /\ queue = << >> /\ todo = << >> /\ refused = FALSE
  /\ call = "CLibOI" /\ outcome = "ok" /\ ignored = FALSE

Calls(op, script) ==
  /\ Idle /\ Len(queue) <= MaxPending
  /\ call' = op /\ todo' = script /\ outcome' = "running"
  /\ refused' = FALSE /\ ignored' = FALSE
  /\ UNCHANGED queue

\* A call that ends at once, without the queue.
Immediate(op, out) ==
  /\ Idle
  /\ call' = op /\ outcome' = out /\ ignored' = FALSE
  /\ UNCHANGED <<todo, refused>>

\* The host memory of a call is gone when the call is, and its caller may free
\* what it lent.
Orphaned(q) ==
  [k \in DOMAIN q |->
     IF q[k].mem \in {"local", "caller"} THEN [q[k] EXCEPT !.mem = "freed"] ELSE q[k]]

Ends(out) == outcome' = out /\ todo' = << >> /\ refused' = FALSE /\ UNCHANGED <<call, ignored>>

\* OpenCL may refuse any command of a group; the others, cmds[sent[1]],
\* cmds[sent[2]], ..., are enqueued.
EnqueueGroup ==
  /\ Does("enqueue")
  /\ LET cmds == Head(todo).cmds
     IN  \E n \in 0 .. Len(cmds) : \E sent \in [1 .. n -> DOMAIN cmds] :
           /\ Len(cmds) - n <= MaxRefused
           /\ \A j, k \in 1 .. n : j < k => sent[j] < sent[k]
           /\ queue' = queue \o [k \in 1 .. n |-> cmds[sent[k]]]
           /\ refused' = (Range(sent) # DOMAIN cmds)
  /\ Proceeds

\* clFinish, or a blocking transfer, waits for all commands, and may have an
\* error to report.
Finish ==
  /\ Does("finish") \/ Does("wait")
  /\ queue = << >>
  /\ refused' \in {refused, TRUE}
  /\ Proceeds /\ UNCHANGED queue

\* clFinish may also fail without having waited.
FinishFails(checked) ==
  /\ Does("finish") /\ queue # << >>
  /\ refused' = TRUE /\ ignored' = (ignored \/ ~checked)
  /\ todo' = Tail(todo) /\ UNCHANGED <<queue, call, outcome>>

CheckPasses == Does("check") /\ ~refused /\ Proceeds /\ UNCHANGED <<queue, refused>>
CheckThrows == Does("check") /\ refused
=============================================================================
