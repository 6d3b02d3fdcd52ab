------------------------------ MODULE Shutdown ------------------------------
(***************************************************************************)
(* How the server ends (Server::Run, the loops of its three threads and    *)
(* Server::Cleanup).                                                       *)
(*                                                                         *)
(* SIGINT is blocked and read by nobody: a signalfd stands in the epoll    *)
(* sets of all threads, edge-triggered, so each is told once.  A thread    *)
(* finishes the events it was handed before it looks at end again.  What   *)
(* it does with its other events is in Room, Lobby and Fuses.              *)
(***************************************************************************)
EXTENDS Naturals, Sequences, SequencesExt

CONSTANT MaxWork   \* bound: events of a thread that are not the signal

Threads == {"lobby", "rooms", "bombs"}

VARIABLES
    loop,     \* where each thread is: "test", "wait", "batch" or "returned"
    ready,    \* what its epoll set has to report
    batch,    \* the events it was handed and has not handled
    work,     \* history: how much work came for it
    end,      \* the flag of that name
    sigint,   \* SIGINT has been sent
    cleaned,  \* Cleanup has run
    alive     \* the process runs

vars == <<loop, ready, batch, work, end, sigint, cleaned, alive>>

TypeOK == /\ loop \in [Threads -> {"test", "wait", "batch", "returned"}]
          /\ ready \in [Threads -> Seq({"work", "signal"})]
          /\ batch \in [Threads -> Seq({"work", "signal"})]
          /\ work \in [Threads -> 0 .. MaxWork]
          /\ {end, sigint, cleaned, alive} \subseteq BOOLEAN

Init == /\ loop = [t \in Threads |-> "test"]
        /\ ready = [t \in Threads |-> <<>>]
        /\ batch = [t \in Threads |-> <<>>]
        /\ work = [t \in Threads |-> 0]
        /\ end = FALSE /\ sigint = FALSE /\ cleaned = FALSE /\ alive = TRUE

-----------------------------------------------------------------------------
\* A client or a timer has something for t.
Arrive(t) == /\ alive
             /\ work[t] < MaxWork
             /\ work' = [work EXCEPT ![t] = @ + 1]
             /\ ready' = [ready EXCEPT ![t] = Append(@, "work")]
             /\ UNCHANGED <<loop, batch, end, sigint, cleaned, alive>>

\* The signal stays pending, so there is no second edge.
Interrupt == /\ alive
             /\ ~sigint
             /\ sigint' = TRUE
             /\ ready' = [t \in Threads |-> Append(ready[t], "signal")]
             /\ UNCHANGED <<loop, batch, work, end, cleaned, alive>>

\* while (!end.load())
Test(t) == /\ alive
           /\ loop[t] = "test"
           /\ loop' = [loop EXCEPT ![t] = IF end THEN "returned" ELSE "wait"]
           /\ UNCHANGED <<ready, batch, work, end, sigint, cleaned, alive>>

EpollWait(t) == /\ alive
                /\ loop[t] = "wait" /\ ready[t] # <<>>
                /\ loop' = [loop EXCEPT ![t] = "batch"]
                /\ batch' = [batch EXCEPT ![t] = ready[t]]
                /\ ready' = [ready EXCEPT ![t] = <<>>]
                /\ UNCHANGED <<work, end, sigint, cleaned, alive>>

\* The next event is done with.
Done(t) == /\ batch' = [batch EXCEPT ![t] = Tail(@)]
           /\ loop' = [loop EXCEPT ![t] = IF Len(batch[t]) = 1 THEN "test" ELSE "batch"]

Work(t) == /\ alive
           /\ loop[t] = "batch" /\ Head(batch[t]) = "work"
           /\ Done(t)
           /\ UNCHANGED <<ready, work, end, sigint, cleaned, alive>>

\* shouldEnd.  The bombs thread goes on to close(bir->fd), where bir is the
\* descriptor of the signal taken for an address: that ends the process, unless
\* the other half of the union makes it an address that can be read.
Trapped(t) == /\ alive
              /\ loop[t] = "batch" /\ Head(batch[t]) = "signal"
              /\ end' = TRUE
              /\ Done(t)
              /\ alive' \in IF t = "bombs" THEN BOOLEAN ELSE {TRUE}
              /\ UNCHANGED <<ready, work, sigint, cleaned>>

\* Run joins the threads, then main calls Cleanup.
Cleanup == /\ alive
           /\ ~cleaned
           /\ \A t \in Threads : loop[t] = "returned"
           /\ cleaned' = TRUE
           /\ UNCHANGED <<loop, ready, batch, work, end, sigint, alive>>

Step(t) == Test(t) \/ EpollWait(t) \/ Work(t) \/ Trapped(t)

Next == \/ Interrupt
        \/ \E t \in Threads : Arrive(t) \/ Step(t)
        \/ Cleanup

\* The threads run: each waits only for epoll and for the lock, which the
\* others release with every event.
FairSpec == /\ Init /\ [][Next]_vars
            /\ \A t \in Threads : WF_vars(Step(t))
            /\ WF_vars(Cleanup)

-----------------------------------------------------------------------------
(* What the repository says and the code does not do.                      *)

\* Server.h on Run, "wait until all the run threads are finished", and on
\* Cleanup, "Clean up after the server is finsihed": a server that is told to
\* stop cleans up.
StoppedIsCleanedUp == sigint ~> cleaned
=============================================================================
