-------------------------- MODULE MCServerStartup --------------------------
(* Settings around the defaults, and what httpds.xml may make of them.     *)
EXTENDS ServerStartup

MCDefault == [stack |-> 1, minHeap |-> 1, maxHeap |-> 2]
Large == [stack |-> 2, minHeap |-> 3, maxHeap |-> 1]
MCValues == {Unset, Large}
MCXmls ==
    [override : BOOLEAN,
     settings : {Unset, [stack |-> 1, minHeap |-> 2, maxHeap |-> 3]}]
=============================================================================
