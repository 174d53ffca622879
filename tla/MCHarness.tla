----------------------------- MODULE MCHarness -----------------------------
EXTENDS Harness

\* no Priority: validatePriority refuses negative ones
Refused == -1

Does(joins, stamps, sends, quits, plan) ==
  [joins |-> joins, stamps |-> stamps, sends |-> sends, quits |-> quits, plan |-> plan]

\* three ranks: two channels of group 1, and group 3
runParityTest(plan) == Does(TRUE, TRUE, TRUE, TRUE, plan)
runDropsTest(plan) == Does(TRUE, FALSE, TRUE, TRUE, plan)
runOrderingTest(plan) == Does(FALSE, TRUE, TRUE, TRUE, plan)
runBatch(plan) == Does(TRUE, FALSE, FALSE, FALSE, plan)
testSigValidator(plan) == Does(TRUE, FALSE, FALSE, TRUE, plan)

\* one client alone
NoCall == runBatch(<<>>)

TwoClients ==
  {<<runParityTest(<<11, 30>>), runOrderingTest(<<11>>)>>,
   <<runOrderingTest(<<11, 12, 30>>), NoCall>>,
   <<runDropsTest(<<11, 30, Bad>>), runBatch(<<11, Bad>>)>>,
   <<runBatch(<<11, Bad, 12>>), testSigValidator(<<11, 11>>)>>}
=============================================================================
