------------------------- MODULE TestDispatchProofs -------------------------
(***************************************************************************)
(* The safety properties of the regression loop, for every list of tests   *)
(* and every range of it; first for the dispatcher with any tests and any  *)
(* resets, then for a session with its partitions, messages and failures.  *)
(***************************************************************************)
EXTENDS TestSession, FiniteSetTheorems, TLAPS

Outcomes == Verdicts \cup {"none", "passedOver"}

\* What DispatchTypeOK says of the words in g_nvmem.
NvmType == [test : 0 .. LastTest, end : 0 .. LastTest + 2,
            progress : Progress \cup {"none"}, count : [Verdicts -> 0 .. LastTest]]

\* The loop index stays between the start of the range and one past its end.
InRange ==
    /\ loop = "boot" => num = 0 /\ report = NoCount
    /\ loop # "boot" => /\ first <= last /\ first <= num /\ num <= last + 1
                        /\ first = 0 => num = 0
    /\ loop = "test" => InList
    /\ loop = "done" => ~InList

\* From the start of the range every test behind the index is dealt with, and no
\* other.
Behind ==
    \A t \in Tests :
        counted[t] # "none" <=> loop # "boot" /\ first # 0 /\ first <= t /\ t < num

\* The counters in memory and the report agree between tests and during one.
Held == \A v \in Verdicts : /\ report[v] = nvm.count[v]
                            /\ nvm.count[v] = Cardinality({t \in Tests : counted[t] = v})

Inv == DispatchTypeOK /\ InRange /\ Behind /\ Held

-----------------------------------------------------------------------------
\* The number of tests counted with a verdict is at most that of the tests.
LEMMA CountedFinite ==
    ASSUME NEW f, NEW v
    PROVE  LET S == {t \in Tests : f[t] = v}
           IN  IsFiniteSet(S) /\ Cardinality(S) \in 0 .. LastTest
<1> DEFINE S == {t \in Tests : f[t] = v}
<1>1. IsFiniteSet(Tests) /\ Cardinality(Tests) = LastTest
  <2>1. 1 \in Int /\ LastTest \in Int /\ LastTest >= 1
    BY DispatchAssumption
  <2>2. IsFiniteSet(1 .. LastTest) /\ Cardinality(1 .. LastTest) = LastTest - 1 + 1
    BY <2>1, FS_Interval
  <2> QED BY <2>1, <2>2 DEF Tests
<1>2. S \subseteq Tests
  OBVIOUS
<1>3. IsFiniteSet(S) /\ Cardinality(S) <= Cardinality(Tests)
  BY <1>1, <1>2, FS_Subset, Zenon
<1>4. Cardinality(S) \in Nat
  BY <1>3, FS_CardinalityType
<1> HIDE DEF S
<1>5. Cardinality(S) \in 0 .. LastTest
  BY <1>1, <1>3, <1>4, DispatchAssumption
<1> QED BY <1>3, <1>5 DEF S

\* Counting one more test changes one number by one.
LEMMA CountOneMore ==
    ASSUME NEW f \in [Tests -> Outcomes], NEW t \in Tests, f[t] = "none",
           NEW s \in Verdicts, NEW v \in Verdicts
    PROVE  LET g == [f EXCEPT ![t] = s]
           IN  Cardinality({u \in Tests : g[u] = v}) =
                   Cardinality({u \in Tests : f[u] = v}) + (IF v = s THEN 1 ELSE 0)
<1> DEFINE g == [f EXCEPT ![t] = s]
           S == {u \in Tests : f[u] = v}
           T == {u \in Tests : g[u] = v}
<1>1. IsFiniteSet(S) /\ Cardinality(S) \in Nat
  <2>1. IsFiniteSet(S) /\ Cardinality(S) \in 0 .. LastTest
    BY CountedFinite
  <2> HIDE DEF S
  <2> QED BY <2>1, DispatchAssumption
<1>2. CASE v = s
  <2>1. T = S \cup {t} /\ t \notin S
    BY <1>2 DEF Verdicts
  <2>2. Cardinality(S \cup {t}) = Cardinality(S) + 1
    <3> HIDE DEF S, T
    <3> QED BY <1>1, <2>1, FS_AddElement
  <2> HIDE DEF S, T
  <2> QED BY <1>2, <2>1, <2>2 DEF S, T
<1>3. CASE v # s
  <2>1. T = S
    BY <1>3 DEF Verdicts
  <2>2. Cardinality(T) = Cardinality(S) + 0
    <3> HIDE DEF S, T
    <3> QED BY <1>1, <2>1
  <2> QED BY <1>3, <2>2
<1> QED BY <1>2, <1>3

\* Before anything is counted every number is zero.
LEMMA CountNone ==
    ASSUME NEW f, \A t \in Tests : f[t] = "none", NEW v \in Verdicts
    PROVE  Cardinality({t \in Tests : f[t] = v}) = 0
<1>1. {t \in Tests : f[t] = v} = {}
  BY DEF Verdicts
<1> QED BY <1>1, FS_EmptySet

-----------------------------------------------------------------------------
\* The invariant holds when g_nvmem is zero and nothing has run.
LEMMA InitInv == DispatchInit => Inv
<1> SUFFICES ASSUME DispatchInit PROVE Inv
  OBVIOUS
<1> USE DEF DispatchInit
<1>1. Held
  <2>1. \A t \in Tests : counted[t] = "none"
    BY DEF Nothing
  <2>2. \A v \in Verdicts : report[v] = 0 /\ nvm.count[v] = 0
    BY DEF Zeroed, NoCount
  <2>3. \A v \in Verdicts : Cardinality({t \in Tests : counted[t] = v}) = 0
    BY <2>1, CountNone
  <2> QED BY <2>2, <2>3 DEF Held
<1>2. DispatchTypeOK
  <2>1. Zeroed \in NvmType /\ NoCount \in [Verdicts -> 0 .. LastTest]
    BY DispatchAssumption DEF Zeroed, NoCount, NvmType
  <2>2. counted \in [Tests -> Outcomes]
    BY DEF Nothing, Outcomes
  <2> QED BY <2>1, <2>2, DispatchAssumption DEF DispatchTypeOK, NvmType, Outcomes, Verdicts
<1>3. InRange /\ Behind
  BY DEF InRange, Behind, Nothing
<1> QED BY <1>1, <1>2, <1>3 DEF Inv

\* What the types and the range give of the test the loop is at.
LEMMA AtTest ==
    ASSUME Inv, InList
    PROVE  /\ num \in Tests /\ num \in 0 .. LastTest /\ num + 1 \in 0 .. LastTest + 1
           /\ counted[num] = "none" /\ counted \in [Tests -> Outcomes]
<1>1. num \in Tests
  BY DEF InList
<1>2. num \in 0 .. LastTest /\ num + 1 \in 0 .. LastTest + 1
  BY <1>1, DispatchAssumption DEF Tests
<1>3. counted[num] = "none"
  BY <1>1, <1>2 DEF Inv, Behind
<1> QED BY <1>1, <1>2, <1>3 DEF Inv, DispatchTypeOK, Outcomes

\* val_test_dispatch up to its loop.
LEMMA BootStep == ASSUME Inv, NEW r \in Ranges, Boot(r[1], r[2]) PROVE Inv'
<1> USE DispatchAssumption
<1>1. r[1] \in 0 .. LastTest /\ r[2] \in 0 .. LastTest + 2 /\ r[1] <= r[2]
  BY DEF Ranges
<1>2. /\ loop = "boot" /\ loop' = "loop" /\ num' = r[1] /\ first' = r[1] /\ last' = r[2]
      /\ nvm' = [Zeroed EXCEPT !.end = r[2]] /\ UNCHANGED <<verdict, report, counted>>
  BY DEF Boot
<1>3. nvm' \in NvmType /\ nvm'.count = NoCount
  BY <1>1, <1>2 DEF Zeroed, NoCount, NvmType
<1>4. \A t \in Tests : counted[t] = "none"
  BY <1>2 DEF Inv, Behind
<1>5. Held'
  <2>1. report = NoCount
    BY <1>2 DEF Inv, InRange
  <2>2. \A v \in Verdicts : report'[v] = 0 /\ nvm'.count[v] = 0
    BY <1>2, <1>3, <2>1 DEF NoCount
  <2>3. \A v \in Verdicts : Cardinality({t \in Tests : counted'[t] = v}) = 0
    BY <1>2, <1>4, CountNone
  <2> QED BY <2>2, <2>3 DEF Held
<1>6. DispatchTypeOK'
  BY <1>1, <1>2, <1>3 DEF Inv, DispatchTypeOK, NvmType
<1>7. InRange'
  BY <1>1, <1>2 DEF InRange, InList
<1>8. Behind'
  BY <1>1, <1>2, <1>4 DEF Behind, Tests
<1> QED BY <1>5, <1>6, <1>7, <1>8 DEF Inv

\* The index goes on by one, past the test that has just been dealt with.
LEMMA Advance ==
    ASSUME Inv, InList, loop \in {"loop", "test"}, NEW o \in Outcomes \ {"none"},
           loop' = "loop", num' = num + 1, UNCHANGED range,
           counted' = [counted EXCEPT ![num] = o]
    PROVE  InRange' /\ Behind' /\ counted' \in [Tests -> Outcomes]
<1> USE DispatchAssumption
<1>1. /\ num \in Tests /\ num \in 0 .. LastTest /\ num + 1 \in 0 .. LastTest + 1
      /\ counted[num] = "none" /\ counted \in [Tests -> Outcomes]
  BY AtTest
<1>2. first \in Nat /\ last \in Nat /\ first' = first /\ last' = last
  BY DEF Inv, DispatchTypeOK, range
<1>3. first <= last /\ first <= num /\ num <= last /\ first # 0
  BY <1>1, <1>2 DEF Inv, InRange, InList, Tests
<1>4. InRange'
  BY <1>1, <1>2, <1>3 DEF InRange
<1>5. ASSUME NEW t \in Tests
      PROVE  counted'[t] # "none" <=> first <= t /\ t < num + 1
  <2>1. CASE t = num
    BY <1>1, <1>3, <2>1
  <2>2. CASE t # num
    <3>1. counted'[t] = counted[t]
      BY <1>1, <2>2
    <3>2. counted[t] # "none" <=> first <= t /\ t < num
      BY <1>3 DEF Inv, Behind
    <3>3. t < num <=> t < num + 1
      BY <1>1, <2>2 DEF Tests
    <3> QED BY <3>1, <3>2, <3>3
  <2> QED BY <2>1, <2>2
<1>6. Behind'
  BY <1>2, <1>3, <1>5 DEF Behind
<1> QED BY <1>1, <1>4, <1>6

\* A test that is passed over is counted nowhere.
LEMMA PassOverStep == ASSUME Inv, PassOver PROVE Inv'
<1>1. /\ loop = "loop" /\ InList /\ nvm' = [nvm EXCEPT !.test = num]
      /\ counted' = [counted EXCEPT ![num] = "passedOver"] /\ num' = num + 1
      /\ UNCHANGED <<loop, range, verdict, report>>
  BY DEF PassOver
<1>2. /\ num \in Tests /\ num \in 0 .. LastTest /\ num + 1 \in 0 .. LastTest + 1
      /\ counted[num] = "none" /\ counted \in [Tests -> Outcomes]
  BY <1>1, AtTest
<1>3. InRange' /\ Behind' /\ counted' \in [Tests -> Outcomes]
  BY <1>1, Advance DEF Outcomes, Verdicts
<1>4. nvm \in NvmType
  BY DEF Inv, DispatchTypeOK, NvmType
<1>5. nvm' \in NvmType /\ nvm'.count = nvm.count
  BY <1>1, <1>2, <1>4 DEF NvmType
<1>6. Held'
  <2>1. ASSUME NEW v \in Verdicts
        PROVE  {t \in Tests : counted'[t] = v} = {t \in Tests : counted[t] = v}
    BY <1>1, <1>2 DEF Verdicts
  <2> QED BY <1>1, <1>5, <2>1 DEF Held, Inv
<1>7. DispatchTypeOK'
  BY <1>1, <1>2, <1>3, <1>5 DEF Inv, DispatchTypeOK, NvmType, Outcomes, range
<1> QED BY <1>3, <1>6, <1>7 DEF Inv

\* A test that ends adds one to the counter of its verdict.
LEMMA TestEndsStep == ASSUME Inv, TestEnds PROVE Inv'
<1> DEFINE count == [nvm.count EXCEPT ![verdict] = @ + 1]
<1>1. /\ loop = "test" /\ loop' = "loop" /\ num' = num + 1 /\ report' = count
      /\ nvm' = [nvm EXCEPT !.progress = "END", !.count = count]
      /\ counted' = [counted EXCEPT ![num] = verdict] /\ UNCHANGED <<range, verdict>>
  BY DEF TestEnds, CountTest
<1>2. InList
  BY <1>1 DEF Inv, InRange
<1>3. /\ num \in Tests /\ num \in 0 .. LastTest /\ num + 1 \in 0 .. LastTest + 1
      /\ counted[num] = "none" /\ counted \in [Tests -> Outcomes]
  BY <1>2, AtTest
<1>4. nvm \in NvmType /\ verdict \in Verdicts /\ nvm.count \in [Verdicts -> 0 .. LastTest]
  BY DEF Inv, DispatchTypeOK, NvmType
<1>5. InRange' /\ Behind' /\ counted' \in [Tests -> Outcomes]
  BY <1>1, <1>2, <1>4, Advance DEF Outcomes, Verdicts
<1>6. nvm'.count = count
  BY <1>1, <1>4 DEF NvmType
<1>7. ASSUME NEW v \in Verdicts
      PROVE  /\ report'[v] = count[v] /\ nvm'.count[v] = count[v]
             /\ count[v] = Cardinality({t \in Tests : counted'[t] = v})
             /\ count[v] \in 0 .. LastTest
  <2>1. count[v] = nvm.count[v] + (IF v = verdict THEN 1 ELSE 0)
    BY <1>4, DispatchAssumption
  <2>2. Cardinality({t \in Tests : counted'[t] = v}) =
            Cardinality({t \in Tests : counted[t] = v}) + (IF v = verdict THEN 1 ELSE 0)
    BY <1>1, <1>3, <1>4, CountOneMore
  <2>3. nvm.count[v] = Cardinality({t \in Tests : counted[t] = v})
    BY DEF Inv, Held
  <2>4. Cardinality({t \in Tests : counted'[t] = v}) \in 0 .. LastTest
    BY CountedFinite
  <2> HIDE DEF count
  <2> QED BY <1>1, <1>6, <2>1, <2>2, <2>3, <2>4
<1>8. count \in [Verdicts -> 0 .. LastTest]
  <2>1. count = [v \in Verdicts |-> count[v]]
    BY <1>4
  <2> HIDE DEF count
  <2> QED BY <1>7, <2>1
<1> HIDE DEF count
<1>9. nvm' \in NvmType
  BY <1>1, <1>4, <1>8 DEF NvmType, Progress
<1>10. DispatchTypeOK'
  BY <1>1, <1>3, <1>5, <1>8, <1>9 DEF Inv, DispatchTypeOK, NvmType, Outcomes, range
<1>11. Held'
  BY <1>7 DEF Held
<1> QED BY <1>5, <1>10, <1>11 DEF Inv

\* The steps that leave the index and the counters alone.
LEMMA QuietStep ==
    ASSUME Inv, UNCHANGED <<num, range, report, counted>>,
           loop' \in {"loop", "test", "done"}, loop # "boot",
           loop' = "test" => InList, loop' = "done" => ~InList,
           verdict' \in Verdicts, nvm' \in NvmType, nvm'.count = nvm.count
    PROVE  Inv'
<1>1. first' = first /\ last' = last
  BY DEF range
<1>2. DispatchTypeOK'
  BY <1>1 DEF Inv, DispatchTypeOK, NvmType
<1>3. InRange'
  BY <1>1 DEF Inv, InRange, InList
<1>4. Behind'
  BY <1>1 DEF Inv, Behind
<1>5. Held'
  BY DEF Inv, Held
<1> QED BY <1>2, <1>3, <1>4, <1>5 DEF Inv

\* One step per action of the dispatcher and of the tests.
LEMMA DispatchStep == ASSUME Inv, DispatchNext PROVE Inv'
<1>1. nvm \in NvmType /\ verdict \in Verdicts
  BY DEF Inv, DispatchTypeOK, NvmType
<1>2. ASSUME LoopEnds PROVE Inv'
  BY <1>1, <1>2, QuietStep DEF LoopEnds
<1>3. ASSUME BeginTest PROVE Inv'
  <2>1. num \in 0 .. LastTest
    BY <1>3, AtTest DEF BeginTest
  <2>2. nvm' \in NvmType /\ nvm'.count = nvm.count
    BY <1>1, <1>3, <2>1 DEF BeginTest, NvmType, Progress
  <2> QED BY <1>3, <2>2, QuietStep DEF BeginTest, Verdicts
<1>4. ASSUME loop = "test" PROVE InList
  BY <1>4 DEF Inv, InRange
<1>5. ASSUME NEW v \in Verdicts, val_set_status(v) PROVE Inv'
  BY <1>1, <1>4, <1>5, QuietStep DEF val_set_status
<1>6. ASSUME NEW p \in Progress, nvm' = [nvm EXCEPT !.progress = p]
      PROVE  nvm' \in NvmType /\ nvm'.count = nvm.count
  BY <1>1, <1>6 DEF NvmType
<1>7. ASSUME val_set_reboot_flag PROVE Inv'
  <2>1. nvm' \in NvmType /\ nvm'.count = nvm.count
    BY <1>6, <1>7 DEF val_set_reboot_flag, Progress
  <2> QED BY <1>1, <1>4, <1>7, <2>1, QuietStep DEF val_set_reboot_flag
<1>8. ASSUME val_reset_reboot_flag PROVE Inv'
  <2>1. nvm' \in NvmType /\ nvm'.count = nvm.count
    BY <1>6, <1>8 DEF val_reset_reboot_flag, Progress
  <2> QED BY <1>1, <1>4, <1>8, <2>1, QuietStep DEF val_reset_reboot_flag
<1>9. ASSUME Reset PROVE Inv'
  <2>1. DispatchInit'
    BY <1>9 DEF Reset, DispatchInit
  <2>2. (DispatchInit => Inv)'
    BY InitInv, PTL
  <2> QED BY <2>1, <2>2
<1> QED
  BY <1>2, <1>3, <1>5, <1>7, <1>8, <1>9, BootStep, PassOverStep, TestEndsStep
     DEF DispatchNext, Dispatch, RunTest

-----------------------------------------------------------------------------
\* What a session does is, for the dispatcher, a step of its own or none: one
\* step per action of VM1 and of the partitions.
LEMMA SessionStep == ASSUME [Next]_vars PROVE [DispatchNext]_dispatchVars
<1>1. ASSUME UNCHANGED dispatchVars PROVE [DispatchNext]_dispatchVars
  BY <1>1
<1>2. ASSUME NEW v \in Verdicts, val_set_status(v) PROVE DispatchNext
  BY <1>2 DEF DispatchNext, RunTest
<1>3. ASSUME NEW s, PairEnds(s) PROVE DispatchNext
  <2> DEFINE v == CASE s = "ok" -> "pass" [] s = "skip" -> "skip" [] OTHER -> "fail"
  <2>1. v \in Verdicts
    BY DEF Verdicts
  <2>2. val_set_status(v)
    BY <1>3 DEF PairEnds
  <2> QED BY <1>2, <2>1, <2>2
<1>4. ASSUME NEW c \in Endpoints, Client3(c) PROVE [DispatchNext]_dispatchVars
  <2>1. ASSUME NEW s, ClientReturn(c, s) PROVE [DispatchNext]_dispatchVars
    BY <1>1, <1>3, <2>1 DEF ClientReturn
  <2>2. CASE ClientFeatures(c)
    BY <1>1, <2>1, <2>2 DEF ClientFeatures
  <2>3. CASE ClientEnds(c)
    BY <2>1, <2>3 DEF ClientEnds
  <2> QED
    BY <1>1, <1>4, <2>2, <2>3
       DEF Client3, ClientMap, Select, ClientLend, val_ffa_mem_handle_share, ClientShared,
           ClientTryShare, ClientReclaim, ClientUnmap
<1>5. ASSUME NEW s \in Sps, SpStep(s) \/ Interrupt(s) PROVE [DispatchNext]_dispatchVars
  <2>1. s \in Endpoints
    BY DEF Endpoints
  <2>2. CASE Server3(s)
    BY <1>1, <2>2 DEF Server3, ServerMap, ServerRetrieve, ServerRefuses, ServerRelinquish,
                      ServerEnds
  <2> QED
    BY <1>1, <1>4, <1>5, <2>1, <2>2 DEF SpStep, SpBoot, ServeClient, LoopLeft, Interrupt
<1>6. ASSUME VmStep PROVE [DispatchNext]_dispatchVars
  <2>1. CASE \E r \in Ranges : SyncEnds(r[1], r[2])
    BY <2>1 DEF SyncEnds, DispatchNext, Dispatch
  <2>2. CASE TestPassedOver \/ NextTest \/ RegressionDone
    BY <2>2 DEF TestPassedOver, NextTest, RegressionDone, DispatchNext, Dispatch
  <2>3. CASE AccessTest \/ AccessAborts \/ AccessResets \/ TestDone
    BY <2>3 DEF AccessTest, AccessAborts, AccessResets, TestDone, DispatchNext, RunTest
  <2>4. CASE FeaturesTest
    BY <1>2, <2>4 DEF FeaturesTest, Verdicts
  <2>5. ASSUME NEW v \in {"pass", "fail"}, NEW e \in BOOLEAN, InterruptTest(v, e)
        PROVE  DispatchNext
    BY <1>2, <2>5 DEF InterruptTest, Verdicts
  <2>6. ASSUME NEW v \in {"pass", "fail"}, AccessReturns(v) PROVE DispatchNext
    BY <1>2, <2>6 DEF AccessReturns, Verdicts
  <2>7. CASE ExecuteSkip \/ Executed
    BY <1>3, <2>7 DEF ExecuteSkip, Executed
  <2>8. CASE VmBoot \/ Resume \/ TestEntry \/ ExecuteHere \/ ExecuteThere
    BY <1>1, <2>8 DEF VmBoot, Resume, TestEntry, ExecuteHere, ExecuteThere
  <2>9. CASE Client3(Vm)
    BY <1>4, <2>9 DEF Endpoints
  <2> QED BY <1>6, <2>1, <2>2, <2>3, <2>4, <2>5, <2>6, <2>7, <2>8, <2>9 DEF VmStep
<1>7. CASE UNCHANGED vars
  BY <1>1, <1>7 DEF vars
<1> QED BY <1>5, <1>6, <1>7 DEF Next

\* A session drives the dispatcher the way val_test_dispatch runs, whatever the
\* partitions answer, however many there are and wherever a test is cut short.
THEOREM SessionDispatches == Spec => DispatchSpec
<1>1. Init => DispatchInit
  BY DEF Init
<1> QED BY <1>1, SessionStep, PTL DEF Spec, DispatchSpec

\* The inductive invariant of val_test_dispatch, with any tests and resets.
THEOREM DispatchInvariant == DispatchSpec => []Inv
<1>1. Inv /\ DispatchNext => Inv'
  BY DispatchStep
<1>2. Inv /\ UNCHANGED dispatchVars => Inv'
  BY DEF dispatchVars, range, Inv, DispatchTypeOK, InRange, Behind, Held, InList
<1> QED BY InitInv, <1>1, <1>2, PTL DEF DispatchSpec

\* val_test_dispatch: in a session the counters, and at its end the report, are
\* the numbers of tests that passed, failed and were skipped.
THEOREM CountersAreTrue == Spec => []CountsMatch
<1>1. Inv => CountsMatch
  BY DEF Inv, Held, CountsMatch
<1> QED BY <1>1, SessionDispatches, DispatchInvariant, PTL

\* val_test_dispatch: a regression that ends has taken every test of its range,
\* and no other.
THEOREM NothingLeftOut == Spec => []NoGaps
<1>1. ASSUME Inv PROVE NoGaps
  <2> SUFFICES ASSUME loop = "done", NEW t \in Tests
               PROVE  counted[t] # "none" <=> first # 0 /\ t \in first .. last
    BY DEF NoGaps
  <2>1. /\ num \in 0 .. LastTest + 1 /\ first \in Nat /\ last \in Nat
        /\ t \in 1 .. LastTest /\ LastTest \in Nat
    BY <1>1, DispatchAssumption DEF Inv, DispatchTypeOK, Tests
  <2>2. first <= num /\ num <= last + 1 /\ (first = 0 => num = 0)
    BY <1>1 DEF Inv, InRange
  <2>3. num \notin 1 .. LastTest \/ num > last
    BY <1>1, <2>1 DEF Inv, InRange, InList, Tests
  <2>4. counted[t] # "none" <=> first # 0 /\ first <= t /\ t < num
    BY <1>1 DEF Inv, Behind
  <2>5. first # 0 => (t < num <=> t <= last)
    BY <2>1, <2>2, <2>3
  <2> QED BY <2>1, <2>4, <2>5
<1> QED BY <1>1, SessionDispatches, DispatchInvariant, PTL

\* val_test_dispatch: no test of a session is begun or passed over twice.
THEOREM StartedOnce == Spec => TakenOnce
<1>1. Inv /\ [DispatchNext]_dispatchVars =>
          [loop = "loop" /\ loop' # "done" => counted[num] = "none"]_dispatchVars
  <2> SUFFICES ASSUME Inv, DispatchNext, loop = "loop", loop' # "done"
               PROVE  counted[num] = "none"
    OBVIOUS
  <2>1. InList
    BY DEF DispatchNext, Dispatch, RunTest, Boot, LoopEnds, PassOver, BeginTest, val_set_status,
           val_set_reboot_flag, val_reset_reboot_flag, TestEnds, CountTest, Reset
  <2> QED BY <2>1, AtTest
<1> QED BY <1>1, SessionDispatches, DispatchInvariant, PTL DEF DispatchSpec, TakenOnce

\* Of the session's state, what the dispatcher holds keeps its type: the index
\* never goes past the empty entry at the end of test_list.
THEOREM DispatchTypes == Spec => []DispatchTypeOK
<1>1. Inv => DispatchTypeOK
  BY DEF Inv
<1> QED BY <1>1, SessionDispatches, DispatchInvariant, PTL
=============================================================================
