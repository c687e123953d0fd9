--------------------------- MODULE EngineTestApp ---------------------------
(***************************************************************************)
(* engine_testapp (src/unnamed/part_003): main runs the test cases of a    *)
(* suite one after the other, each up to `attempts' times, and counts the  *)
(* failed ones in its exit code; execute_test starts an engine for an      *)
(* attempt and runs the test function, which calls the engine through the *)
(* mock engine (module MockEngine) on a cookie of its own.                 *)
(*                                                                         *)
(* `attempts' is atoi of TESTAPP_ATTEMPTS or of the -a argument, so any    *)
(* integer (a negative one acts as 0); AttemptValues are the values a run *)
(* may start with.  Loop mode (-l) and the test filters (-C, -n) are off.  *)
(***************************************************************************)
EXTENDS MockEngine, Integers

CONSTANTS
    NumTests,        \* test cases in the suite
    AttemptValues    \* values `attempts' may be given

Tests == 1 .. NumTests

\* test_result values execute_test can return: the prepare hook, the engine
\* start and setup (FAIL), the test function, an exception (FAIL for a test
\* expectation, DIED otherwise), PENDING for a test without a function.
ExecuteResults ==
    {"SUCCESS", "FAIL", "DIED", "SKIPPED", "PENDING", "SKIPPED_UNDER_ROCKSDB"}
Results == ExecuteResults \cup {"SUCCESS_AFTER_RETRY"}

VARIABLES
    attempts,        \* main's `attempts'
    terminateOnError,\* -Z: exit at the first failed test
    tc,              \* the test case being run; NumTests + 1 when done
    rstate,          \* main: "next", "attempt", "running", "done"
    attempt,         \* the attempt loop's counter
    ecode,           \* the attempt loop's result
    error,           \* report_test's return for the last attempt
    exitcode,        \* failed tests so far
    alarmState,      \* the SIGALRM timer: "off" or "armed"
    alarmed,         \* set by alarm_handler
    ran,             \* history: tests of which an attempt was started
    failed           \* history: tests counted in exitcode

runnerVars == <<attempts, terminateOnError, tc, rstate, attempt, ecode,
                error, exitcode, alarmState, alarmed, ran, failed>>
allVars == <<vars, runnerVars>>

\* report_test: 1 for FAIL, DIED, TIMEOUT, CORE and unknown results.
ReportRc(r) ==
    IF r \in {"SUCCESS", "SKIPPED", "PENDING", "SUCCESS_AFTER_RETRY",
              "SKIPPED_UNDER_ROCKSDB"}
    THEN 0 ELSE 1

\* Mutant: the loop runs while attempt <= attempts.
RetryWantedOffByOne(n, r) ==
    n <= attempts /\ r \notin {"SUCCESS", "SUCCESS_AFTER_RETRY"}

\* The condition of the attempt loop.
RetryWanted(n, r) ==
    n < attempts /\ r \notin {"SUCCESS", "SUCCESS_AFTER_RETRY"}

----------------------------------------------------------------------------
TestAppInit ==
    /\ Init
    /\ attempts \in AttemptValues
    /\ terminateOnError \in BOOLEAN
    /\ tc = 1
    /\ rstate = "next"
    /\ attempt = 0
    /\ ecode = "FAIL"
    /\ error = 0
    /\ exitcode = 0
    /\ alarmState = "off"
    /\ alarmed = 0
    /\ ran = {}
    /\ failed = {}

\* The loop over the test cases: set_test_timeout, then the attempt loop
\* starts with ecode = FAIL; past the last test the suite is torn down.
NextTest ==
    /\ rstate = "next"
    /\ \/ /\ tc <= NumTests
          /\ rstate' = "attempt"
          /\ attempt' = 0
          /\ ecode' = "FAIL"
          /\ error' = 0
          /\ alarmState' = "armed"
       \/ /\ tc > NumTests
          /\ rstate' = "done"
          /\ UNCHANGED <<attempt, ecode, error, alarmState>>
    /\ UNCHANGED <<vars, attempts, terminateOnError, tc, exitcode, alarmed,
                   ran, failed>>

(***************************************************************************)
(* One attempt: execute_test.  The prepare hook, the engine start or the   *)
(* test's setup may end it at once; otherwise the test function runs with  *)
(* a new engine and a new cookie (its mutex free, no notification due).    *)
(***************************************************************************)
StartAttempt ==
    /\ rstate = "attempt"
    /\ RetryWanted(attempt, ecode)
    /\ ran' = ran \cup {tc}
    /\ \/ \E r \in {"FAIL", "SKIPPED", "SKIPPED_UNDER_ROCKSDB", "PENDING"} :
             /\ ecode' = r
             /\ error' = ReportRc(r)
             /\ attempt' = attempt + 1
             /\ UNCHANGED <<rstate, vars>>
       \/ /\ rstate' = "running"
          /\ mutex' = "free"
          /\ pc' = "idle"
          /\ status' = "success"
          /\ pending' = <<>>
          /\ nblocks' = 0
          /\ calls' = 0
          /\ result' = "none"
          /\ UNCHANGED <<kind, handleEwouldblock, ecode, error, attempt>>
    /\ UNCHANGED <<attempts, terminateOnError, tc, exitcode, alarmState,
                   alarmed, failed>>

\* The test function returns between two engine calls (or throws); SUCCESS
\* after a retry becomes SUCCESS_AFTER_RETRY, and report_test's result is
\* kept in `error'.
TestReturns ==
    /\ rstate = "running"
    /\ pc = "idle"
    /\ \E r \in ExecuteResults :
          LET final == IF r = "SUCCESS" /\ attempt > 0
                       THEN "SUCCESS_AFTER_RETRY" ELSE r
          IN  /\ ecode' = final
              /\ error' = ReportRc(final)
    /\ attempt' = attempt + 1
    /\ rstate' = "attempt"
    /\ UNCHANGED <<vars, attempts, terminateOnError, tc, exitcode,
                   alarmState, alarmed, ran, failed>>

\* The attempt loop is over: clear_test_timeout, count a failure, exit at
\* once with -Z.
EndTest ==
    /\ rstate = "attempt"
    /\ ~RetryWanted(attempt, ecode)
    /\ alarmState' = "off"
    /\ alarmed' = 0
    /\ exitcode' = exitcode + error
    /\ failed' = IF error # 0 THEN failed \cup {tc} ELSE failed
    /\ tc' = tc + 1
    /\ rstate' = IF error # 0 /\ terminateOnError THEN "done" ELSE "next"
    /\ UNCHANGED <<vars, attempts, terminateOnError, attempt, ecode, error,
                   ran>>

\* SIGALRM: alarm_handler sets `alarmed', which nothing reads.
AlarmFires ==
    /\ alarmState = "armed"
    /\ alarmState' = "off"
    /\ alarmed' = 1
    /\ UNCHANGED <<vars, attempts, terminateOnError, tc, rstate, attempt,
                   ecode, error, exitcode, ran, failed>>

\* The test function's engine calls, only while it runs.
TestThread ==
    \/ rstate = "running" /\ \E k \in Kinds : Enter(k)
    \/ CallEngine \/ Wait \/ Woken

TestAppNext ==
    \/ NextTest
    \/ StartAttempt
    \/ TestReturns
    \/ EndTest
    \/ AlarmFires
    \/ TestThread /\ UNCHANGED runnerVars
    \/ (NotifyIOComplete \/ SpuriousWakeup) /\ UNCHANGED runnerVars

TestAppSpec == TestAppInit /\ [][TestAppNext]_allVars

----------------------------------------------------------------------------
\* The runner's variables keep their types; in particular the attempt
\* counter never passes `attempts' (the loop condition at 1676-1678).
TestAppTypeOK ==
    /\ TypeOK
    /\ attempts \in AttemptValues
    /\ terminateOnError \in BOOLEAN
    /\ tc \in 1 .. NumTests + 1
    /\ rstate \in {"next", "attempt", "running", "done"}
    /\ attempt \in 0 .. (IF attempts > 0 THEN attempts ELSE 0)
    /\ ecode \in Results
    /\ error \in {0, 1}
    /\ exitcode \in 0 .. NumTests
    /\ alarmState \in {"off", "armed"}
    /\ alarmed \in {0, 1}
    /\ ran \subseteq Tests /\ failed \subseteq Tests

====
