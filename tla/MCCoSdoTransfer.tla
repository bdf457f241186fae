-------------------------- MODULE MCCoSdoTransfer --------------------------
(* Transfers between CANopenNode's client and server: variables that fit    *)
(* one segment, several sub-blocks, and more than both buffers.             *)
EXTENDS CoSdoTransfer

RW == {"SDO_R", "SDO_W"}
MCEntries ==
    [i \in 1..4 |->
      [odObjectType |-> "VAR",
       sub |-> [x \in {0} |->
         CASE i = 1 -> [attribute |-> RW, dataLength |-> 4]
           [] i = 2 -> [attribute |-> RW, dataLength |-> 18]
           [] i = 3 -> [attribute |-> RW \cup {"STR"}, dataLength |-> 30]
           [] i = 4 -> [attribute |-> RW, dataLength |-> 21]]]]
MCInitialOd ==
    [mux \in {<<1, 0>>, <<2, 0>>, <<3, 0>>, <<4, 0>>} |->
      [i \in 1..MCEntries[mux[1]].sub[mux[2]].dataLength |->
         IF mux = <<3, 0>> /\ i > 28 THEN 0 ELSE i]]

Job(dir, mux, size, n, block) ==
    [dir |-> dir, mux |-> mux, size |-> size, data |-> [i \in 1..n |-> 100 + i],
     block |-> block, local |-> FALSE]

DownJobs ==
    {Job("down", <<1, 0>>, 4, 4, FALSE), Job("down", <<2, 0>>, 0, 18, FALSE),
     Job("down", <<3, 0>>, 0, 28, FALSE)}
UpJobs == {Job("up", mux, 0, 0, FALSE) : mux \in {<<1, 0>>, <<2, 0>>, <<3, 0>>}}
SegmentedJobs == DownJobs \cup UpJobs
BlockJobs ==
    {Job("down", <<2, 0>>, 0, 18, TRUE), Job("down", <<3, 0>>, 0, 28, TRUE),
     Job("down", <<4, 0>>, 0, 21, TRUE)}
    \cup {Job("up", mux, 0, 0, TRUE) : mux \in {<<1, 0>>, <<2, 0>>, <<3, 0>>, <<4, 0>>}}
\* size is the length of the data type; one attempt on a prompt bus; two attempts of which the first may be late
Plan(jobs, n, t, prompt) == [jobs |-> jobs, attempts |-> n, ticks |-> t, prompt |-> prompt]
RetriedJobs == {Job("down", <<2, 0>>, 0, 18, TRUE), Job("up", <<2, 0>>, 0, 0, TRUE)}
MCPlans ==
    [block |-> Plan(BlockJobs, 1, 3, TRUE), retry |-> Plan(SegmentedJobs, 2, 4, FALSE),
     blockRetry |-> Plan(RetriedJobs, 2, 3, FALSE)]
=============================================================================
