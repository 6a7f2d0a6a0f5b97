---------------------------- MODULE DeviceRuntime ----------------------------
(***************************************************************************)
(* The runtime that drives the reducer: it feeds it one event at a time,   *)
(* carries out the effects that ask a backend for something in the order   *)
(* they were returned, and delivers the backends' answers as events.       *)
(*                                                                         *)
(* The runtime is the embedder's.  It is modelled from what the repository *)
(* asks of it: the effect and event comments of wallet-core,               *)
(* crates/key-lifecycle/tests/domain_flow.rs and docs/SECURITY.md.         *)
(***************************************************************************)
EXTENDS BackendProtocol, SequencesExt

CONSTANT MaxQueue   \* bound: jobs and answers in flight when an event arrives
ASSUME QueueAssumption == MaxQueue \in Nat \ {0}

VARIABLES
    jobs,     \* effects still to be carried out, oldest first
    answers   \* events the backends have sent, oldest first

QueuesOK == jobs \in Seq(Jobs) /\ answers \in Seq(Answers)

\* The effect of the event just handled joins the queue.
Submit == jobs' = IF effect'.tag \in Backend THEN Append(jobs, Job(effect')) ELSE jobs

\* An event that is not an answer of a backend.
Input ==
    /\ Len(jobs) + Len(answers) < MaxQueue
    /\ Submit
    /\ UNCHANGED answers

\* A new id is not the one of anything in progress or in flight.
Fresh(id) ==
    /\ \A i \in DOMAIN jobs : ~Mentions(jobs[i], id)
    /\ \A i \in DOMAIN answers : ~Mentions(answers[i], id)
    /\ ~Mentions(lifecycle, id) /\ ~Mentions(auth, id) /\ ~Mentions(flow, id)

-----------------------------------------------------------------------------
(* Carrying out a job *)

Doing(tag) == jobs # <<>> /\ Head(jobs).tag = tag

\* The job is done, with or without an answer.
Done == jobs' = Tail(jobs) /\ UNCHANGED <<answers, wallet, effect>>
Answer(event) ==
    /\ jobs' = Tail(jobs)
    /\ answers' = Append(answers, event)
    /\ UNCHANGED <<wallet, effect>>
AnswerAs(tag) == Answer([tag |-> tag, id |-> Head(jobs).id])
Failure == [tag |-> "RuntimeFailure"]

\* The job failed and is tried again.
Again == UNCHANGED <<jobs, answers, wallet, effect>>

-----------------------------------------------------------------------------
(* Delivering an answer *)

Deliver(i) ==
    /\ i \in DOMAIN answers
    /\ Handle(answers[i])
    /\ answers' = RemoveAt(answers, i)
    /\ Submit

-----------------------------------------------------------------------------
(* Boot: nothing in RAM survives, State::restore takes what was stored. *)

Boot(stored, storedPolicy) ==
    /\ lifecycle' = stored
    /\ auth' = IF stored.tag = "Provisioned" THEN Locked(0) ELSE Unavailable
    /\ flow' = Idle
    /\ policy' = storedPolicy
    /\ effect' = NoEffect
    /\ jobs' = <<>>
    /\ answers' = <<>>
=============================================================================
