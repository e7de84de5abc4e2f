------------------------- MODULE MCRunnableController -------------------------
(***************************************************************************)
(* Small instances of RunnableController for TLC.                          *)
(***************************************************************************)
EXTENDS RunnableController, TLC

CONSTANTS t1, t2, t3

TwoThreads == {t1, t2}
ThreeThreads == {t1, t2, t3}
Symmetry == Permutations(Threads)

\* Three steps in runs of 2 and 1, by breakpoints; four steps in two runs of 2;
\* two steps in one run.
WithBreakpoints == [total |-> 3, steps |-> <<2, 1>>, ends |-> <<2, 3>>]
TwoRuns == [total |-> 4, steps |-> <<2>>, ends |-> << >>]

BrokenScan == {WithBreakpoints}
OneScan == {TwoRuns}

NoCalls == [f \in Operations |-> 0]

\* A scan that is run, paused, seeked and resumed, aborted and reset, and another
\* configured and run after it.
ScanCalls == [NoCalls EXCEPT !["init"] = 1, !["configure"] = 2, !["run"] = 2,
                             !["pause"] = 2, !["resume"] = 2, !["abort"] = 1,
                             !["reset"] = 1]

\* One of everything.
AllCalls == [f \in Operations |-> 1]

================================================================================
