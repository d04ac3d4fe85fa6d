---------------------------- MODULE MpmSettings ----------------------------
(***************************************************************************)
(* The directives of the multi-processing module: their defaults, what the *)
(* directives make of their arguments, and the check that ap_mpm_run makes *)
(* before it uses them.  What the check leaves is what module Mpm assumes. *)
(***************************************************************************)
EXTENDS Integers

CONSTANTS
    MaxThreadLimit,   \* MAX_THREAD_LIMIT
    Args              \* the numbers a configuration file may give

\* The compile-time limits: 16 threads, of which 4 by default.
DefaultThreadLimit == 4

ASSUME LimitAssumption ==
    /\ MaxThreadLimit \in Nat
    /\ MaxThreadLimit >= DefaultThreadLimit
    /\ Args \subseteq Int

VARIABLES
    limit,     \* mpm_thread_limit
    start,     \* threads_to_start
    min,       \* mpm_min_spare_threads
    max,       \* mpm_max_spare_threads
    requests,  \* mpm_max_requests_per_thread
    php,       \* mod_php5.c is linked
    stage      \* reading the configuration, or the settings are in use

vars == <<limit, start, min, max, requests, php, stage>>

Init ==
    /\ limit = DefaultThreadLimit
    /\ start = 1
    /\ min = 1
    /\ max = 1
    /\ requests = 0
    /\ php \in BOOLEAN
    /\ stage = "config"

\* mpm_pre_config, for every generation.
PreConfig ==
    /\ limit' = DefaultThreadLimit
    /\ start' = 1
    /\ min' = 1
    /\ max' = 1
    /\ requests' = 0
    /\ php' \in BOOLEAN
    /\ stage' = "config"

\* A number above the limit, or below 1, is replaced.
Clamp(arg, above, below) ==
    IF arg > MaxThreadLimit THEN above ELSE IF arg < 1 THEN below ELSE arg

SetThreadsToStart(arg) ==
    /\ start' = Clamp(arg, MaxThreadLimit, 1)
    /\ UNCHANGED <<limit, min, max, requests>>

SetMinSpareThreads(arg) ==
    /\ min' = Clamp(arg, MaxThreadLimit - 1, 1)
    /\ UNCHANGED <<limit, start, max, requests>>

SetMaxSpareThreads(arg) ==
    /\ max' = Clamp(arg, MaxThreadLimit - 1, 1)
    /\ UNCHANGED <<limit, start, min, requests>>

SetThreadLimit(arg) ==
    /\ limit' = Clamp(arg, MaxThreadLimit, DefaultThreadLimit)
    /\ UNCHANGED <<start, min, max, requests>>

SetMaxRequests(arg) ==
    /\ requests' = IF arg < 0 THEN 0 ELSE arg
    /\ UNCHANGED <<limit, start, min, max>>

\* A directive of the configuration file.
Directive ==
    /\ stage = "config"
    /\ \E arg \in Args :
          \/ SetThreadsToStart(arg) \/ SetMinSpareThreads(arg)
          \/ SetMaxSpareThreads(arg) \/ SetThreadLimit(arg) \/ SetMaxRequests(arg)
    /\ UNCHANGED <<php, stage>>

AtMost(value, bound) == IF value > bound THEN bound ELSE value

\* Wrong: the minimum is compared before the maximum is lowered.
CheckMinFirst ==
    /\ stage = "config"
    /\ limit' = IF php /\ limit > 1 THEN 1 ELSE limit
    /\ start' = AtMost(start, limit')
    /\ max' = AtMost(max, limit' - 1)
    /\ min' = AtMost(min, max)
    /\ stage' = "checked"
    /\ UNCHANGED <<requests, php>>

\* check_settings.  PHP allows one thread, which is the one to start and never
\* spare; then each setting is lowered to fit the one before it.
CheckSettings ==
    /\ stage = "config"
    /\ IF php /\ limit > 1
       THEN limit' = 1 /\ start' = 1 /\ max' = 0 /\ min' = 0
       ELSE /\ limit' = limit
            /\ start' = AtMost(start, limit)
            /\ max' = AtMost(max, limit - 1)
            /\ min' = AtMost(min, max')
    /\ stage' = "checked"
    /\ UNCHANGED <<requests, php>>

Next == Directive \/ CheckSettings \/ PreConfig

Spec == Init /\ [][Next]_vars

-----------------------------------------------------------------------------
\* Whatever the directives say, and in whatever order, the settings ap_mpm_run
\* uses are in range and fit one another, a pool of several threads keeps a
\* spare one, and PHP runs in one thread.
CheckedSettings ==
    stage = "checked" =>
        /\ limit \in 1 .. MaxThreadLimit
        /\ start \in 1 .. limit
        /\ max \in 0 .. limit - 1
        /\ min \in 0 .. max
        /\ limit > 1 => min > 0
        /\ requests \in Nat
        /\ php => limit = 1
=============================================================================
