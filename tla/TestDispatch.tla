---------------------------- MODULE TestDispatch ----------------------------
(***************************************************************************)
(* The regression loop of the dispatcher VM: val_test_dispatch, with       *)
(* val_test_init, val_test_exit, val_get_last_run_test_info and the reboot *)
(* flag of val/src/val_framework.c.                                        *)
(*                                                                         *)
(* That file defines SKIP_NVM_PROGRAMMING and SKIP_WD_PROGRAMMING.  The    *)
(* non-volatile memory is the array g_nvmem of VM1's image, whose offsets  *)
(* are in bounds, so no access to it fails; it is zero after every reset,  *)
(* which is no test progress, so every boot is taken for a power-on and    *)
(* the code that takes up an interrupted test again is never reached.      *)
(* val_wd_enable and val_wd_disable do nothing: a test that hangs is left  *)
(* hanging, and a reset comes from the platform alone, on an access that a *)
(* test provokes.                                                          *)
(***************************************************************************)
EXTENDS Naturals, FiniteSets

CONSTANT LastTest   \* test_list[1 .. LastTest] between two empty entries

ASSUME DispatchAssumption == LastTest \in Nat \ {0}

Tests == 1 .. LastTest

\* What val_execute_test sets.  TEST_ERROR comes from val_handle_reboot_result
\* alone, which is never reached.
Verdicts == {"pass", "fail", "skip"}
Progress == {"START", "END", "FAIL", "REBOOTING"}

VARIABLES
    loop,       \* where the dispatcher is
    num,        \* its loop index i
    first,      \* test_num_start
    last,       \* test_num_end
    nvm,        \* the words in g_nvmem
    verdict,    \* the test state in the shared region
    report,     \* regre_report
    counted     \* history: what came of each test since the boot

range == <<first, last>>
dispatchVars == <<loop, num, range, nvm, verdict, report, counted>>

NoCount == [v \in Verdicts |-> 0]
Zeroed == [test |-> 0, end |-> 0, progress |-> "none", count |-> NoCount]
Nothing == [t \in Tests |-> "none"]

DispatchTypeOK ==
    /\ loop \in {"boot", "loop", "test", "done"}
    /\ num \in 0 .. LastTest + 1
    /\ first \in 0 .. LastTest /\ last \in 0 .. LastTest + 2
    /\ nvm \in [test : 0 .. LastTest, end : 0 .. LastTest + 2,
                progress : Progress \cup {"none"}, count : [Verdicts -> 0 .. LastTest]]
    /\ verdict \in Verdicts
    /\ report \in [Verdicts -> 0 .. LastTest]
    /\ counted \in [Tests -> Verdicts \cup {"none", "passedOver"}]

DispatchInit ==
    /\ loop = "boot" /\ num = 0 /\ first = 0 /\ last = 0
    /\ nvm = Zeroed /\ verdict = "fail" /\ report = NoCount /\ counted = Nothing

-----------------------------------------------------------------------------
\* The range is all of test_list, to its size with the two empty entries, or the
\* indices SUITE_TEST_RANGE names, sorted, where a name that is not found stands
\* for index 0.
Ranges ==
    {<<1, LastTest + 2>>}
        \cup {r \in (0 .. LastTest) \X (0 .. LastTest) : r[1] <= r[2]}

\* val_get_last_run_test_info and the start of val_test_dispatch: all words are
\* initialised, then the end of the range is stored.
Boot(from, to) ==
    /\ loop = "boot" /\ nvm.progress \notin Progress
    /\ nvm' = [Zeroed EXCEPT !.end = to]
    /\ num' = from /\ first' = from /\ last' = to /\ loop' = "loop"
    /\ UNCHANGED <<verdict, report, counted>>

\* Mutation: the end of the range is left out.
InListShort == num \in Tests /\ num < last

\* The loop ends at an entry without a test, too.
InList == num \in Tests /\ num <= last

LoopEnds ==
    /\ loop = "loop" /\ ~InList
    /\ loop' = "done"
    /\ UNCHANGED <<num, range, nvm, verdict, report, counted>>

\* val_check_test_abi_support: a test whose ABI is not supported is not counted.
PassOver ==
    /\ loop = "loop" /\ InList
    /\ nvm' = [nvm EXCEPT !.test = num]
    /\ counted' = [counted EXCEPT ![num] = "passedOver"]
    /\ num' = num + 1
    /\ UNCHANGED <<loop, range, verdict, report>>

\* The number is stored, and val_test_init clears the status.
BeginTest ==
    /\ loop = "loop" /\ InList
    /\ nvm' = [nvm EXCEPT !.test = num, !.progress = "START"]
    /\ verdict' = "fail"
    /\ loop' = "test"
    /\ UNCHANGED <<num, range, report, counted>>

\* val_execute_test sets the status of the client and server it ran.
val_set_status(v) ==
    /\ loop = "test" /\ nvm.progress # "REBOOTING"
    /\ verdict' = v
    /\ UNCHANGED <<loop, num, range, nvm, report, counted>>

\* A test is about to make an access the platform may reset on.
val_set_reboot_flag ==
    /\ loop = "test"
    /\ nvm' = [nvm EXCEPT !.progress = "REBOOTING"]
    /\ UNCHANGED <<loop, num, range, verdict, report, counted>>

val_reset_reboot_flag ==
    /\ loop = "test" /\ nvm.progress = "REBOOTING"
    /\ nvm' = [nvm EXCEPT !.progress = "FAIL"]
    /\ UNCHANGED <<loop, num, range, verdict, report, counted>>

\* The loop after the test entry: val_test_exit, val_report_status, and the
\* counters, read from g_nvmem, updated and written back.
CountTest(count, next) ==
    /\ loop = "test" /\ nvm.progress # "REBOOTING"
    /\ report' = count
    /\ nvm' = [nvm EXCEPT !.progress = "END", !.count = count]
    /\ counted' = [counted EXCEPT ![num] = verdict]
    /\ num' = next /\ loop' = "loop"
    /\ UNCHANGED <<range, verdict>>

\* Mutation: the counters start from what the loop read last, at zero.
TestEndsUnread == CountTest([NoCount EXCEPT ![verdict] = @ + 1], num + 1)

\* Mutation: the index is not advanced.
TestEndsAgain == CountTest([nvm.count EXCEPT ![verdict] = @ + 1], num)

TestEnds == CountTest([nvm.count EXCEPT ![verdict] = @ + 1], num + 1)

\* The platform resets on the access, and the image starts from the beginning.
Reset ==
    /\ loop = "test" /\ nvm.progress = "REBOOTING"
    /\ loop' = "boot" /\ num' = 0 /\ first' = 0 /\ last' = 0
    /\ nvm' = Zeroed /\ verdict' = "fail" /\ report' = NoCount /\ counted' = Nothing

Dispatch ==
    \/ \E r \in Ranges : Boot(r[1], r[2])
    \/ LoopEnds \/ PassOver \/ BeginTest

RunTest ==
    \/ \E v \in Verdicts : val_set_status(v)
    \/ val_set_reboot_flag \/ val_reset_reboot_flag
    \/ TestEnds

DispatchNext == Dispatch \/ RunTest \/ Reset

DispatchSpec == DispatchInit /\ [][DispatchNext]_dispatchVars

-----------------------------------------------------------------------------
(* Each counter in g_nvmem, and at the end of the regression the report    *)
(* that is printed, is the number of tests with that verdict since boot.   *)
CountsMatch ==
    \A v \in Verdicts :
        LET tests == Cardinality({t \in Tests : counted[t] = v})
        IN  nvm.count[v] = tests /\ (loop = "done" => report[v] = tests)

(* When the regression is over every test from the start to the end of its *)
(* range was counted or passed over, and no other test was; a start that   *)
(* was not found, index 0, leaves all of them out.                         *)
NoGaps ==
    loop = "done" =>
        \A t \in Tests : counted[t] # "none" <=> first # 0 /\ t \in first .. last

(* No test is begun, or passed over, a second time since the boot.         *)
TakenOnce == [][loop = "loop" /\ loop' # "done" => counted[num] = "none"]_dispatchVars
=============================================================================
