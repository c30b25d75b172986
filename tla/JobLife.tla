------------------------------- MODULE JobLife -----------------------------
(***************************************************************************)
(* What a row of processing_jobs promises whoever reads its verdict: a job *)
(* is opened once and settled once, and it is completed only when its bias *)
(* checks have read every post decided under it, which is then all there   *)
(* will ever be - unless the hard cap ended the wait for its slots.        *)
(***************************************************************************)
CONSTANTS Jobs, Posts

VARIABLES
    life,       \* "open" as long as somebody may still work for the job
    capped,     \* the hard cap ended the wait for its slots
    sample,     \* the posts decided under it
    read        \* those its bias checks have read

Lives == {"none", "open", "closing", "completed", "failed"}

Init ==
    /\ life = [j \in Jobs |-> "none"] /\ capped = [j \in Jobs |-> FALSE]
    /\ sample = [j \in Jobs |-> {}] /\ read = [j \in Jobs |-> {}]

Opens(j) ==
    /\ life[j] = "none" /\ life'[j] = "open"
    /\ UNCHANGED <<capped[j], sample[j], read[j]>>

\* A job that failed has no verdict, and nothing to keep its posts out of.
Decides(j) ==
    /\ life[j] \in {"open", "failed"} \/ (life[j] # "none" /\ capped[j])
    /\ sample[j] \subseteq sample'[j]
    /\ UNCHANGED <<life[j], capped[j], read[j]>>

\* A closer claims the job, or takes over that of a closer that died.
Claims(j) ==
    /\ life[j] \in {"open", "closing"} /\ life'[j] = "closing"
    /\ capped[j] => capped'[j]
    /\ UNCHANGED <<sample[j], read[j]>>

\* The job may have failed while the one who checks it was on its way.
Checks(j) ==
    /\ life[j] \in {"open", "closing", "failed"}
    /\ read'[j] = read[j] \cup sample[j]
    /\ UNCHANGED <<life[j], capped[j], sample[j]>>

Completes(j) ==
    /\ life[j] \in {"open", "closing"} /\ life'[j] = "completed"
    /\ capped[j] \/ read[j] = sample[j]
    /\ UNCHANGED <<capped[j], sample[j], read[j]>>

Fails(j) ==
    /\ life[j] \in {"open", "closing"} /\ life'[j] = "failed"
    /\ UNCHANGED <<capped[j], sample[j], read[j]>>

Stays(j) == UNCHANGED <<life[j], capped[j], sample[j], read[j]>>

\* One transaction may claim, or fail, several jobs.
Next ==
    /\ life' \in [Jobs -> Lives] /\ capped' \in [Jobs -> BOOLEAN]
    /\ sample' \in [Jobs -> SUBSET Posts] /\ read' \in [Jobs -> SUBSET Posts]
    /\ \A j \in Jobs : \/ Opens(j) \/ Decides(j) \/ Claims(j) \/ Checks(j)
                       \/ Completes(j) \/ Fails(j) \/ Stays(j)

Spec == Init /\ [][Next]_<<life, capped, sample, read>>
=============================================================================
