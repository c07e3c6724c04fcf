------------------------------ MODULE MCQueues ------------------------------
(***************************************************************************)
(* What waits in line, for TLC: frames of turns for the sender of a        *)
(* socket, background jobs for a slot, or for a worker of several servers, *)
(* and the symbols of a reply until it is known what they are.  They share *)
(* no state, so a behaviour is one of them.                                *)
(***************************************************************************)
EXTENDS FrameQueue, JobQueue, Streams

CONSTANTS p1, p2, j1, j2, j3

VARIABLE part  \* the one that runs

MCInit ==
    /\ part \in {"frames", "jobs", "redis", "streams"}
    /\ FrameInit /\ JobInit /\ RedisInit
    /\ StreamsInit /\ (part = "streams" \/ (sent = <<>> /\ purpose = "plan"))

MCNext ==
    /\ UNCHANGED part
    /\ \/ part = "frames" /\ FrameNext
       \/ part # "frames" /\ UNCHANGED frameVars
    /\ \/ part = "jobs" /\ JobNext
       \/ part # "jobs" /\ UNCHANGED jobVars
    /\ \/ part = "redis" /\ RedisNext
       \/ part # "redis" /\ UNCHANGED redisVars
    /\ \/ part = "streams" /\ StreamsNext
       \/ part # "streams" /\ UNCHANGED streamVars

\* What is fair of one is disabled in its initial state, where it stays while
\* another runs.
MCSpec ==
    /\ MCInit /\ [][MCNext]_<<frameVars, jobVars, redisVars, streamVars, part>>
    /\ FrameFairness /\ JobFairness /\ RedisFairness
=============================================================================
