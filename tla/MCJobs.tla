------------------------------- MODULE MCJobs -------------------------------
(***************************************************************************)
(* Instances of TashJobs: three children, two lines, two interrupts.       *)
(***************************************************************************)
EXTENDS TashJobs

Job(n) == [kind |-> "job", stages |-> n, reads |-> FALSE]
Reader(n) == [kind |-> "job", stages |-> n, reads |-> TRUE]
Async == [kind |-> "async", stages |-> 1, reads |-> FALSE]
WaitAll == [kind |-> "wait", stages |-> 0, reads |-> FALSE]
EvalOf(n) == [kind |-> "eval", stages |-> n, reads |-> FALSE]

MCScripts ==
  {<<<<Reader(2), Job(1)>>>>,
   <<<<Async, WaitAll>>, <<Reader(1)>>>>,
   <<<<Async, Reader(1)>>, <<WaitAll>>>>,
   <<<<EvalOf(1), Job(1)>>, <<Job(1)>>>>,
   <<<<Reader(1)>>, <<WaitAll, Job(1)>>>>,
   <<<<Async, Async>>, <<Reader(1)>>>>,
   <<<<Job(1), Reader(2)>>>>}
=============================================================================
