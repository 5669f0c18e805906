------------------------- MODULE ExperimentHistory -------------------------
(***************************************************************************)
(* The life of an experiment as its status shows it to the reports: what   *)
(* the experiment reconciler promises to those who read it.  Reports takes *)
(* its environment from here and ReconcilerHistory shows that the          *)
(* reconciler implements it.                                               *)
(***************************************************************************)
EXTENDS Integers

CONSTANTS MaxGen,    \* bound on the experiments created under the name
          MaxDelay   \* bound on the time from the injection to the last startedAt

NoTime == -1

VARIABLES
    exp,         \* the experiment of that name in the API server
    injectedAt,  \* when the fault of each of them was first put in
    clock

vars == <<exp, injectedAt, clock>>

Terminal == {"Succeeded", "Failed"}
Time == Nat \cup {NoTime}

Experiment == [exists: BOOLEAN, gen: 1..MaxGen,
               phase: {"Pending", "Running"} \cup Terminal,
               startedAt: Time, completedAt: Time]

NewExperiment(g) == [exists |-> TRUE, gen |-> g, phase |-> "Pending",
                     startedAt |-> NoTime, completedAt |-> NoTime]

Init == /\ exp = NewExperiment(1)
        /\ injectedAt = [g \in 1..MaxGen |-> NoTime]
        /\ clock = 0

Unfinished == exp.exists /\ exp.phase \in {"Pending", "Running"}

Inject ==
    /\ exp.exists /\ exp.phase = "Pending" /\ injectedAt[exp.gen] = NoTime
    /\ injectedAt' = [injectedAt EXCEPT ![exp.gen] = clock]
    /\ UNCHANGED <<exp, clock>>

\* The Running patch: its startedAt is a time between the injection and now.  A
\* failed call, a crash or a second run makes it later than the injection.
Start ==
    /\ Unfinished /\ injectedAt[exp.gen] # NoTime
    /\ \E t \in injectedAt[exp.gen]..clock :
         /\ t - injectedAt[exp.gen] <= MaxDelay
         /\ exp' = [exp EXCEPT !.phase = "Running", !.startedAt = t]
    /\ UNCHANGED <<injectedAt, clock>>

\* A check of Pending turns the experiment down: Failed without completedAt.
Reject ==
    /\ Unfinished
    /\ exp' = [exp EXCEPT !.phase = "Failed"]
    /\ UNCHANGED <<injectedAt, clock>>

\* A verdict, decided at a time between the start and now.
End ==
    /\ exp.exists /\ exp.phase = "Running"
    /\ \E p \in Terminal, t \in exp.startedAt..clock :
         exp' = [exp EXCEPT !.phase = p, !.completedAt = t]
    /\ UNCHANGED <<injectedAt, clock>>

Delete ==
    /\ exp.exists /\ exp' = [exp EXCEPT !.exists = FALSE]
    /\ UNCHANGED <<injectedAt, clock>>

Recreate ==
    /\ ~exp.exists /\ exp.gen < MaxGen
    /\ exp' = NewExperiment(exp.gen + 1)
    /\ UNCHANGED <<injectedAt, clock>>

Tick == clock' = clock + 1 /\ UNCHANGED <<exp, injectedAt>>

Next == Inject \/ Start \/ Reject \/ End \/ Delete \/ Recreate \/ Tick

Spec == Init /\ [][Next]_vars
=============================================================================
