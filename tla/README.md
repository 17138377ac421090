# DDR_TLM: a TLA+ model of the DDR5 memory controller simulator

The program (`src/CHIPort`, `src/Controller`, `src/Common`, `src/DMU`) is a
SystemC/TLM simulator of a DDR5 memory controller with a CHI port.  This
directory holds TLA+ modules of its protocol logic, TLC configurations that
check them on small instances, and TLAPS proofs for every value of the
constants.  `PROJECT.json` lists the components, the runs, the hazards, the
findings, the theorems and the source lines behind every definition.

## The system

A CHI requester sends request, data and response flits over **links**; the
**CHI port** queues requests, arbitrates reads against writes and sends them
over an internal interface (UIF) to the **memory controller**, which keeps them
in two command CAMs, opens and closes banks through **bank slices**, injects
**refreshes**, and drives a PHY model.  Everything is a SystemC process: a
clocked process runs to its end without interruption, and the order of two
processes in one instant is not fixed.

| Part | State | Operations | Talks to |
|---|---|---|---|
| `CHILink` (4 channels) | rx/tx queue, credits held, credits given | `receive_flit`, `send_flits` | its peer, by flits and credits |
| `CHIPort` | pipeline registers `req_s1`, `wdat_s1` | `dfi_clock_posedge`, `noc_clock_posedge/negedge`, `peqCallback` | all the parts below, the controller |
| `WdataBufferArray` | free DBIDs, a beat count for each buffer | allocate, receive a beat, release | `TpwQueue` reads its readiness |
| `RdDataInfo` | free tags, entries | allocate, data ready, erase | the read queues read its fullness |
| `ResponseQueues` | six queues, last winner | insert, arbitrate | RSP channel |
| `P2cFifo`, `PaArbiter` | HPR, LPR, TPW queue, UIF credits, aging, RD/WR/IDLE | insert, pop, credit, state update | controller |
| `RetryResourceManager` | retry matrix, promised P-credits, arbiters | record a retry, test fullness, grant | `P2cFifo`, `WdataBufferArray` |
| `MemoryController`, `InputProcess` | pipe buffers, temp buffer, collision flag | accept, store in CAM, send a command | port, CAMs, PHY |
| `RdCam`, `WrCam`, `Scheduler` | entries, per-bank order, starvation counters | store, delete, critical state | bank slices |
| `BankSliceManager`, `BankSlice` | slices in use, page state, candidates, RAA counter | allocate, release, evaluate, update | CAMs, refresh |
| `RefreshMachine(Manager)` | pending refreshes, critical flag, next bank | evaluate, update | bank slices |
| `ModeSwitch`, `CmdSelect` | read/write state machine | switch, select | controller |
| `SdramConstraint` | the last time of each command by bank, bankgroup, rank and channel; two queues of four activates | `TimeToSatisfyConstraints`, `InsertCommand` | controller |
| `DDR5MemSpec`, `AddressDecoder`, `Configure` | times and address bits read from files | constructors, `decodeAddress` | all |
| `MemoryDevice` | | delays | PHY |

### What is hard

* **Promises made in one place and kept in another.**  Link credits, UIF
  credits, P-credits, DBIDs and read tags are each counted at two ends.
* **Values tested in one stage and used in a later one**: the room in the
  RetryAck queue, the room of a class when a P-credit is granted.
* **Events that nothing polls**: the head of the write queue is refilled only
  when a beat arrives or the head leaves.
* **Order of processes**: data beats, credits and controller answers arrive
  between any two clock edges.
* **Back-pressure across a boundary**: the controller refuses a request by a
  return value, in the cycle in which the port has already popped it.
* **Refresh against traffic**: banks are closed by one part on behalf of
  another, and released slices keep the flags of their last bank.
* **One time per command and place**: a table of times forgets all but the last
  command of a kind, and the rules of one command must do for what they replaced.

### What makes each component correct

| Component | Properties |
|---|---|
| link | no overrun of a receive queue; credits conserved; flits in order, once each; credits come back |
| write buffers | a DBID is free or names one buffer with its write in one place; beats left = beats under way |
| read tags | tags free and used are disjoint and complete |
| response queues | RetryAck queue within its depth |
| FIFO, arbiter | no complete write left behind; accepted requests are served; no pop without a credit |
| retry manager | one P-credit per retried request; a grant only where there is room; promises = outstanding credits |
| input process | an index has one owner; a request is accepted only when the pipe buffer is free; credits bound what is held; no two conflicting commands are in the CAMs; a stall has a cause |
| refresh | a critical refresh is sent; banks are refreshed only while closed; activations never exceed the threshold |
| bank slices | the two bank tables are inverse; candidates are stored commands of the bank; pages are opened in closed banks and accessed in their row |
| command CAMs | an index names one command; the order list, the allocation marks and the page-hit marks follow the store |
| mode switch | the fatal state is unreachable; the selected side is the one of the state |
| timing constraints | one burst at a time on the data bus; closed banks rest; four activates in a window; a rank under refresh is left alone |
| controller | a command is found in the CAM it is tagged with, takes one entry out, and every stored command is sent in the end, which fails beside writes (`ctrl_stranded`) |

## The modules

| Module | Models | Lines |
|---|---|---|
| `LinkFifo` | what a channel promises: an ordered queue | the specification |
| `WriteBuffers` | what the port promises of a write: a buffer of its own, sent once and with all its data | the specification |
| `CHILink` | one channel with both of its ends | `CHILink.hh`, `CHITrafficGenerator.cpp`, the takers in `CHIPort.cpp` |
| `PortBuffers` | `WdataBufferArray`, `RdDataInfo`, `ResponseQueues` | |
| `P2cFifo` | the three queues and `PaArbiter` | extends `PortBuffers` |
| `RetryResourceManager` | the retry bookkeeping and its arbiters | extends `P2cFifo` |
| `CHIPort` | the pipeline, its peers, the specification and the properties | extends `RetryResourceManager` |
| `MCCHIPort` | instances for TLC | |
| `InputProcess` | the way of a request into the command CAMs: index pools, pipe buffers, collision check, UIF credits | `InputProcess`, `nb_transport_fw`, `CqStore`, `CreditSend`, the store and delete of `RdCam` and `WrCam` |
| `MCInputProcess` | instances for TLC | |
| `CommandCam` | a command CAM, its filters and the collision check | `RdCam`, `WrCam`, `CamIF`, `CamEntry`, `CamFilter` |
| `BankSlice` | one slice: page, candidates, activation counter, next command | extends `CommandCam` |
| `ModeSwitch` | the read/write state machine | `UpdateGlobalState` |
| `DramBanks` | what a memory asks of the commands it gets | the specification |
| `Controller` | a run of `ControllerMethod`: slices, candidate updates, refresh, command, store | extends `BankSlice` and `ModeSwitch`; `BankSliceManager`, `Scheduler`, `RefreshMachine(Manager)`, `CmdSelect`, `CmdSend` |
| `MCController` | instances for TLC | |
| `SdramConstraint` | the tables of times, the rules, and a sender that keeps to them | `SdramConstraint.cpp`, the numbers of `decodeAddress` |
| `DDR5MemSpec` | a memory specification's times in cycles of the controller | `DDR5MemSpec.cpp`, `DDR5MemSpec3ds.cpp` |
| `MCSdramConstraint` | instances for TLC | extends both |
| `NatLemmas`, `CHILinkProofs`, `PortLemmas`, `CHIPortProofs`, `InputProcessProofs`, `ControllerProofs`, `SliceProofs`, `SdramConstraintProofs` | proofs | |

### How the model corresponds to the code

**Link.**  `CHILink` is one channel with a queue pair at each end, `"gen"` and
`"port"`; `Init` chooses which ends may receive, as the four channels of the
port do.  The two ends count their credits differently: the port counts the
credits it gave and the flits it still has queued (`CHILink.hh:61`), the
generator's `CHIChannelState` gets a credit back as a flit arrives
(`CHIUtilities.h:82`).  Each end acts on one edge of the clock, the negative
edge after the positive one; `ran` remembers who had its turn on an edge, and
within an edge the order is free.

**Port.**  A request is a *kind*: opcode, QoS, size, whether all bytes are
enabled, source and whether it is ordered.  Addresses and data do not matter to
the port.  `dfi_clock_posedge` is a SystemC method that calls six stages; the
model runs them in the same order, one action for each, under the variable
`stage`, and no other actor moves until the last one ended (a method runs to
its end).  `noc_clock_posedge` and the branches of `peqCallback` are single
actions.  Since the two clocks and the events of `peqCallback` are not ordered
within an instant, their actions interleave freely.

| Model | Code |
|---|---|
| `req_rx`, `dat_rx` | `channels[..].rx_queue`; a FIFO of at most `LinkCredits` flits, which is what `CHILink` was shown to implement |
| `tpw_queue`, `head_entry` | the keys of `TpwQueue::request_queue` and the DBID of its head; the payload is in `buffer_payload` |
| `beat_count[d] = -1` | no entry of `buffer_array` |
| `p_credit` | the four `*_send_upstream_p_credit` |
| `aging` | cycles left until `aging_expired_time` |
| `uif_wr` | how far the controller and `peqCallback` are with the data of a write |
| `uif_rd` | reads that the controller still works on, by the `cmd_id` of their UIF request: the tag of a read, the DBID of a read-modify-write |
| `rmw_sent` | history: a read-modify-write went to the controller |
| `fault` | the program stopped: an assertion, an exception, or undefined behaviour, each with its own name |
| `retried`, `grants`, `up_beats` | what the requester knows |

`req_s2` is written and popped but never read, so it is left out.  A response
reaches the requester when `resp_arbit_s1` picks it.  `req_decision_s2` reads
its request through a reference to an element that was popped
(`CHIPort.cpp:262-264`); the model reads the values it had, which is what a
`std::deque` leaves behind.

The requester keeps the CHI retry protocol: it sends a retried request again,
with `allow_retry` off, once it has a P-credit.  The port's PcrdGrant carries no
type (`CHIPort.cpp:521`), so any retried request may use it.  `UpResend` is
marked external: the repository's own generator ignores RetryAck.

The controller is an environment.  It returns a UIF credit at any time as long
as it does not exceed its total, delivers the data of a read it was sent, and
asks once for the data of a write.  A read-modify-write is two requests to it, a
read and a write, and both have the `cmd_id` of the write, since `SplitTrans` clones
its extension (`InputProcess.cpp:240`).  So the end of its read data
(`UifRdatEnd`) marks whatever read has the tag of that number, or the
`at()` of `set_entry_data_ready` throws (`UifRdatEndThrows`).  Storing either part
writes through a null pointer (`RmwStored`): the program stops or goes on.

**Input process.**  One controller cycle is a round of `stage`.  The timed event
of the controller runs `ControllerMethod`, whose parts that matter here are
`CmdSend` (a stored command leaves its CAM) and `CqStore` (the pipe buffer
enters it); the port sends its request on the posedge one delta later, and
`CreditSend` runs on the negedge.

| Model | Code |
|---|---|
| `rd_cam`, `wr_cam` | `cam_store` of the CAMs; an index that is not a key has `NoEntry` |
| `uif_credit` | the HPR, LPR and TPW credits of the port's FIFO |
| `cam_credit` | the three credit counters of `MemoryController` |
| an address's `row` | its row and its column: the check compares both |
| `Detected` | what `DetectAddrCollision` takes from the read buffer; for a plain write that buffer is empty, and `front()` of an empty deque is an earlier request or untouched memory, so any command or none |
| `last_allocated_rd_cam_index` | not initialised in the code: `Init` chooses it |
| `fault` | "no_index", "cam_depth": assertions; "impossible_scenario": the abort of `AcceptRequest` |

`RdCmdSend` and `WrCmdSend` take any stored command: the order in which the
scheduler sends them is not a matter of this module.  The read part of a
read-modify-write costs the port an LPR credit and returns a credit of the class
its QoS value has, so the two read pools are bounded together and not one by
one.  Write combining is absent because its condition in the code is never true.

**Controller.**  `Controller` starts where `InputProcess` ends, at the pipe
buffer, with the CAM indices already chosen.  A run of `ControllerMethod` is
three actions under `stage`: `Evaluate` (release of a slice, `AcTimingUpdate`,
mode switch), `CmdSend` (one command or none, then the candidate updates of the
run before) and `Store` (`ReqUpdate` and `CqStore`).

| Model | Code |
|---|---|
| a CAM's `store`, `order`, `collision` | `cam_store`, the order lists (per bank: the commands of the bank in that order), the busy set |
| `wait` of a write | rounds until its data; `data_ready` is 0.  With `WriteDelay` 2 the data comes in the round after the one that could first want it |
| `slices[x].ba`, `ba2bsc` | `bsc_table` and `ba2bsc_table` |
| `age` | the time since the ACT: before tRCD, after it, after tRAS_max |
| `ntt` | `ntt_store`: what `UpdateRdNttPip` and `UpdateWrNttPip` recorded for the next run, by kind and slice |
| `mode.rd_cnt`, `wr_cnt` | the counters of sent commands, which the code never resets; all values above the threshold act alike |
| `critical` | the classes found starving in this run: the counters behind it are a free choice within `CriticalClasses` |
| `wr_cam_expired` | `is_cam_expired`, which nothing initialises: `Init` chooses it from `CamExpired` |
| `late`, `idle` in `EvaluateRefresh` | five refresh intervals without a refresh; `IsSystemIdle` |
| `dfi` | the command sent in this run |

Which of the commands that are ready `CmdSelect` takes depends on JEDEC times,
so the model takes any: only what the times cannot change, an RFM before
everything else and no access before tRCD, is kept.  An RFM is for all banks, or, with
`FGR` and without `REFAB_ENABLE`, for those of the number of the slice that asked
(`RfmSb`); it answers the requests of all slices of the rank in both cases
(`RefreshMachineManager.hh:96-105`) but ends the wait of those it is for.  A refresh goes whenever
its banks were found closed, at some later run.  `at()` of a CAM throws for an index
that is not stored; the model does not send such a command, and `CommandsFound`
says where it cannot happen.  For a plain write `DetectAddrCollision` reads the
front of the empty read buffer: `Detected` is any request that may have been
there, valid or not.

**Timing constraints.**  `TimeToSatisfyConstraints` returns the time from which a
command may go; the controller sends it at that time or later
(`MemoryController.cpp:390`).  In the model it is the test whether the command
may go now.

| Model | Code |
|---|---|
| `since[cmd][place]` | now minus `previous_command_time4bank`, `4bg`, `4lrank`, `4prank` and `4channel`; `4prank_lrank` and `4channel_prank` hold the same times under other indices.  `MaxTime` (never) and everything from `Horizon` on are one value, because no delay is longer |
| `onbus` | `previous_command_time4channel_onbus`: one command in a cycle |
| `last_4Activates4lrank`, `4prank` | the two queues; an activate that never was is older than any |
| `After(commands, places, delay)` | one of the `if(previous_cmd_record_time != MaxTime)` blocks, or a loop of them |
| `open` | the pages, as the bank slices keep them: what `Controller` shows of the command stream (`DramSpec`) is the guard of the sender here |
| `trace` | history: the commands of the last `Horizon` cycles with their ages; no guard reads it |
| `BankAddress`, `RankAddress` | the address of a bank slice and that of a refresh machine, which holds no bank numbers |
| `timing` | the `_mc` times; `DDR5MemSpec!McTiming` computes them from the file's numbers |

`RefreshManagement` has no guard but the bus: `RefreshMachineManager.hh:59` gives
an RFM the present time without a question.  The precharges `PREsb` and `PREab`
have their rules (`PreSbAllowed`, `PreAbAllowed`) and no action: no part of the
controller makes one.

## The runs

| Run | Question | Answer |
|---|---|---|
| `CHILink` | Do both credit schemes conserve credits, and does a channel implement a FIFO that never starves? | yes |
| `port_retry` | Is the bookkeeping consistent under the whole retry protocol, is the port an array of write buffers, and what can stop it at an assertion, an exception or undefined behaviour? | yes, six invariants; yes, `WritesSpec`; `StopsExplained`: exhaustion takes a resend, a read without its entry takes a read-modify-write |
| `port_serve` | Does the port carry out every request it accepted, when the controller serves it and there are no read-modify-writes? | yes |
| `input` | Are indices, pipe buffers and credits consistent, do reads enter the CAMs free of hazards, and is a controller that stays busy waiting for a command that stays stored? | yes |
| `input_lost` | Is a request that the controller refuses kept somewhere? | no: a finding |
| `input_addr` | Does the collision check find an older write of the same address when bankgroup and bank differ? | no: a finding |
| `controller` | Do delayed candidate updates, marks and CAM tables stay right while indices and slices are used again, and is each command sent once? | yes |
| `ctrl_slices` | Do the tables of two slices agree, is the mode switch sound and the command stream one a memory accepts, under same-bank refreshes, same-bank refresh management and forced precharges? | yes |
| `ctrl_refresh` | Is a critical refresh sent and every read served? | yes, while there are only reads |
| `sdram` | Whatever the controller sends and when the constraints let it: do bursts meet on the data bus, do closed banks rest, does a fifth row open in a window, is a rank disturbed in its refresh? | the constraints hold |
| `ctrl_stranded` | Is every read served beside writes? | no: a finding |
| `ctrl_tag` | Are pages opened for reads only on the way from writes to reads? | no: a finding |

**Bounds.**  Two DBIDs are enough for the wrong one to be freed or found, and
one read tag for the tags to run out; queues of one or two requests are full
after few of them; `RetryAck` depth 1 puts the test one stage from the
overflow.  `MaxReq` and `MaxResend` bound what the requester sends, so that all
the rest is finite: three fresh
and two resent requests in `port_retry`, one or two elsewhere, more than a queue
holds.  The port's link has one credit, the link of `CHILink` two: a third adds
only waiting flits.  `PortAgingInit`
is 1, the shipped value.  In `input` each CAM has two entries and as many
credits as entries, so that it can be full with a third request waiting, and
two rows of one bank, whose bankgroup and bank numbers agree: the one case in
which the address comparison of the code is right.  `input_addr` takes the other
case, and `input_lost` leaves plain writes out, so that what is refused is
refused for a real collision.  In `port_retry` a kind of each class, one partial
write, one dropped and one unsupported opcode appear; deadlock is off there,
because the program stops at a fault and the requester at its bounds.

The controller runs have two CAM indices a side, two banks and one or two
slices.  Three requests make an index and a slice be used again (`controller`);
two requests for two banks use both slices at once (`ctrl_slices`).  `MaxPending`
1 keeps one refresh due at a time, `MaxRefresh` 1 lets it fall due once
while a command is still wanted (`Quiet`: the refresh interval is long beside
the service of a candidate) and as often as it likes otherwise; with
`POST_PONE_THRESHOLD` 1 (`ctrl_refresh`) it is critical at once, with 2 only when it is late.
`RAA_THRESHOLD` 2 asks for refresh management within two activations, with `FGR` (in
`ctrl_slices`) for the banks of one number.
`CommandsFound` and `DramSpec` are checked where no class starves, so that the mode never is
`Wr2Rd`; `ctrl_tag` shows what happens there.

In `sdram` there are two physical ranks of two logical ranks of two bankgroups
of one bank, so that each kind of neighbour exists: another bankgroup, another
logical rank, another physical rank.  The delays are those of `SmallSpec`, a
specification of two clocks a cycle; `SmallTimingAssumption` has TLC compute them
as the code does.  `Horizon` 6 is the longest delay.  A behaviour keeps to
one of six `Mixes`, some commands at some addresses, with at most `max` commands
in `Horizon` cycles: five for the windows of four activates, three where banks
close and are refreshed.  The proofs need none of this.

**Fairness.**  SystemC time moves on, so every clock has its edges and every
notified event its turn: weak fairness of `dfi_clock_posedge`, which holds the
port while it runs, and strong fairness of whatever runs between its edges.
Strong is right there because those actions are disabled only while an edge is
being worked off.  The controller is assumed to serve what it was sent and to
return credits, the requester to send the data it was asked for.  Nothing is
assumed of the arrival of requests.  So `WriteServed` and `ReadServed` of the port
are about its own arbitration: they say that nothing in the port holds a
request back, for finite traffic without read-modify-writes and a controller that serves
and pays back.  The controller does not always: `input_lost` loses a credit,
`ctrl_stranded` keeps a read, and a read-modify-write may stop the program.

`input` assumes that the clock goes on while a pipe buffer is occupied (weak fairness
of a step), and nothing of the scheduler, which may keep a command for ever
(`ctrl_stranded`).  A stall behind such a command does not end, and nothing
is stored meanwhile that could revive it; `StallHasCause` says that this is the
only way: with all commands gone the flag cannot stay set.  There is no liveness claim for retried
requests: `send_upstream_p_credit` is counted up by a grant and never down
(`RetryResourceManager.hh`), so promised credits leak, which in time turns every
fresh request of a class into a retry.

`Controller` assumes that its method runs again and again (the refresh timer
wakes it), that write data arrives, that tRCD passes, and, strongly, that the
timing of a command or refresh which stays wanted is met now and then: a timing
constraint delays a command, it cannot refuse it for ever.  That the timer fires
(`Evaluate(TRUE)`) is strong too, since the bound `MaxPending` disables it while a
refresh waits.

## The proofs

`CHILinkProofs` proves, for every capacity and configuration, that the
inductive invariant `LinkInv` holds, from which follow `TypeOK`, `PortCredits`,
`GenCredits`, `GenQueueBounded` and `NoInactiveFlit`, and that every step of the link is a
step of `LinkFifo` or stutters.  The types alone say nothing of the `uint8_t` counts,
whose arithmetic is modulo 256; `CreditsNeverWrap` does: no step changes one by more
than one, since an end that decrements has a credit and one that increments has
given fewer than its limit.

`CHIPortProofs` proves for every set of kinds, every depth and every setting
of the constants allowed by the assumptions of the modules:

* `PortTypeCorrect`, `RetryAckNeverOverflows`, `IdsNeverLost`,
  `BeatsNeverLost`, `ReadyWritesMoveUp`: the invariants that `port_retry` checks
  on its instance;
* `PortImplementsWrites`: the port implements `WriteBuffers`.  A buffer of the
  abstract array is a DBID with its entry in `WdataBufferArray`; a write is
  issued while `uif_wr` says that the controller works on it.  Four of the steps are
  visible there: the acceptance in `req_decision_s2`, a beat in `wdat_push_s2`, the
  pop of the head in `req_pop_s3` and the end of the data; the queues, the
  DBIDResps and the pipeline registers are not.  That the head is popped with all its
  data is *WritesComplete*, that a buffer is given out again only when nothing is
  on its way to it is `BeatsNeverLost`;
* `GrantsAlwaysMatchRetries`: `GrantsMatchRetries`, when every source has a row in
  the retry matrix (`SourcesKnown`).  The hypothesis is the code's: `cnt_inc`
  drops a retry of any other source without a word, and no P-credit will follow
  it.  The invariant is inductive beside `PortInv`, which keeps a grant to a
  cell of the matrix that holds a request.  Its sums are over sets, defined by
  folds; `NatLemmas` proves what a sum of a function over a finite set does when one
  value changes, by a least counterexample, since the library's induction theorems
  cannot be used;
* `GrantsNeverForgotten` and `UsedUpForGood`: what the code does with the
  P-credits it promised.  The four counters equal the grants under way
  and in use *and* every one that was used; so once the counter of the HPR, LGPR or
  TPW class has reached the depth of its queue, `is_full` says so for ever,
  and every later fresh request of the class is retried;
* `QueuesOverrunOnlyByResends`: `PushRequest` looks at no depth, and a P-credit may be
  granted to a class that is full.  A queue still holds at most one request more
  than its depth for each request that was resent; fresh requests alone never overrun
  one.  Its invariant (*RoomInv*) counts with a queue what is still coming to it:
  a decision taken but not pushed, and the resends under way;
* `BeatsFindTheirBuffer`: the `at()` of `receive_wdata_flit` never throws;
* `StopsAlwaysExplained`: `StopsExplained`, when `PA_RDWR_SWITCH_FAST` is true as
  `controller_config.json:105` sets it.  Without it the arbiter stays with the
  writes on a TPW credit alone (`IsWrHold`) and may pop an empty head.  Fresh requests
  never exhaust what the port keeps for them, whatever else happens, and a read's
  data finds its entry as long as no read-modify-write was sent; an opcode the port
  does not know and a read-modify-write without an LPR credit stop the program at any time.

The inductive invariant `PortInv` is the conjunction of the bookkeeping invariants (all but
the sums over retries, which are proved beside it) with four strengthenings.
*RetryAckReserved*: the RetryAck queue and the at most one request in `req_s1`
fit in it together, and at the stages where the decision was made `req_s1` is
empty; `RetryAckBounded` alone is not inductive, since the insert does not test.
*BeatsAccounted*: a DBID without a buffer has nothing under way; one with a
buffer has either its one DBIDResp queued, no beat under way and a full count,
or no DBIDResp and a count equal to the beats still to come, so that a beat
that is decremented finds a count above zero.  *WritesComplete*: a write at the head
or with the controller has no beat left, so releasing its DBID strands no beat.
*PayloadsKnown*: a buffer that exists names a kind.  Each action has a lemma
for each group of conjuncts it can disturb; `PortLemmas` holds the facts about
`Min`, the round-robin arbiters, counting occurrences in sequences and the
size table.

`InputProcessProofs` proves of the input process, for every CAM depth, every
credit configuration that fits it, and every set of requests:
`InputTypeCorrect`, `IndicesAlwaysConserved`, `PipIsNeverOverrun`,
`CreditsAlwaysBounded`, `InputNeverFaults`, and, for addresses whose bank and
bankgroup numbers agree, `ReadsEnterHazardFree`.  The invariants hold one
another up: a request is sent with a credit in hand; the credits and what is
held together never exceed the configured credits, hence the depth; so when a
request is accepted an index is free, and when the pipe buffer is stored the CAM
has room.  *OneWaits*, the added conjunct, says that a pipe buffer holds at most
one request; without it the store of its front would not empty it.
`OnlyRefusalLosesCredits` is the other half of the finding of `input_lost`: in a
behaviour that refuses no request, `CreditsConserved` holds, so a refusal for its size
or address is the only way to lose a credit.

`ControllerProofs` proves of the controller, for any banks, slices, CAM sizes
and policies:

* `ModeNeverFatal`: `ModeOK`, with either value of the uninitialised expiry
  flag.  Its invariant adds that the mode is a record of its fields.  The argument
  is that at most one of the two switches is pending, because `st` decides, and a
  real switch always selects the page commands of the side it goes to.
* `RaaNeverExceeded`: `RaaBounded`, when `RAAIMT <= RAA_THRESHOLD`.  The bound is
  not inductive; what makes it so is that a slice at the threshold has its
  request pending, through release, allocation to another bank, and the
  decrease by a refresh.  The assumption is needed for that last one: a larger
  `RAAIMT` lets `DecreaseRaa` take back a request the threshold made.  The proof
  uses the first theorem, since in the fatal state no list of commands is defined.

`SliceProofs` proves the tables of the controller consistent, for any banks, rows,
slices, CAM depth, traffic and refresh policy: `ControllerTypeCorrect`,
`SlicesAlwaysConsistent`, `CandidatesAlwaysStored`, `HitsAlwaysOfOpenPage`,
`EachServedOnce`, and under a condition `CommandsAlwaysFound` and
`ControllerImplementsDram`.  The invariant `SliceInv` has three layers:

* *CamInv*: a CAM's list names each stored command once, and a command that was found
  in the way carries the mark by which its deletion clears it.
* *TablesInv*: a bank and its slice know each other; the marks of a stored command fit
  the slice of its bank; a candidate is a stored command of that bank; and so is
  every update recorded for the next run (*Updates*).  This last part is what makes the
  candidates inductive: `NttUpdate` looks only whether the index is in use, not whose
  command it holds.  The command of an update may go in the `CmdSend` that applies
  the update, and is dropped then; an index is given out again only after that,
  since the request in the pipe buffer is stored in the step that comes next and
  its indices are free until then (*PipInv*).
* *RefreshInv*: a refresh about to be sent is due and its banks are closed; no
  command goes between the check (`Evaluate`) and the sending.

A refresh needs closed banks only and an access its candidate's row only, so `DramSpec`
follows action by action.  The condition on the two is the finding of `ctrl_tag`: in
Wr2Rd the row command of a read is looked up in the CAM of the writes, where the
index names another command, of any bank, or none.  `CommandsFound` is proved for
the other states of the mode switch, and the refinement for behaviours that send no row
command in Wr2Rd (`NoRowInWr2Rd`).  `controller` and `ctrl_slices` check both on
instances without starving reads, which stay out of Wr2Rd (see *The runs*).
`OnlyWr2RdMisplaces` says the same step by step: after a misplaced row command every
other command still goes to a bank, row and state that the memory accepts.

Two theorems are about what a refresh asks of the banks it is for.
`HeldBanksStayClosed`: a slice that was told to wait opens no page, in any mode and
even if it is released to another bank, until a refresh or RFM was sent.
`CriticalRefreshOpensNothing`: in a run that finds a refresh critical and one of its
banks open, all of them wait, and no command opens a page in one of them in that run;
by the first theorem, the slices that wait do not in the next ones either.  Its invariant
(`CriticalHolds`) speaks of the stage between the check and the command, since a
slice may be given to another bank between two runs.

`SdramConstraintProofs` proves everything `sdram` checks, for every geometry, every
set of delays and every `Horizon`: `SdramTypeCorrect`, `DataBusNeverShared`,
`ClosedBanksRest`, `RefreshIsUndisturbed`, `AtMostFourActivates`.  None of them is
inductive: they speak of the commands sent, the rules of the tables.  `SdramInv`
joins the two.  *Recent*: at each place where a command was recorded the
table knows it or a later one of its kind, so a rule that asks for a delay there
asks it of every such command.  *LrankQueues* and *PrankQueues*: a queue is in order
and holds every activate younger than its oldest, so the window of a new activate
is made of at most four ages.  *RefreshedClosed*: no bank of a rank
under refresh is open, which is what keeps column commands and precharges away,
whose rules do not mention refreshes.

`EveryCommandIsWaitedFor` says why one time per command and place is enough.  Five
tables (`BankWait` to `OtherPrankWait`) give the cycles the code has one command wait
for another, by where the two go; of any two commands of the last `Horizon` cycles the
later came so many cycles after the other, whatever came in between.  A refresh
management counts as a refresh for those that follow it and waits for nothing itself.
The same-bank refresh is not in `BankWait`: there the claim is false (see *Deviations*).

The one assumption on the delays,
`LatencyAssumption`, is itself proved of every specification the loader
accepts with at least two clocks a cycle (`LatenciesOfSpec`); `RoundingKeepsTime`
bounds what the rounding takes off a time.

Only model-checked: the properties that need fairness (`CreditReturns`,
`WriteServed`, `ReadServed`, `StallHasCause`, `RefreshServed`); every safety property of a
passing run is a theorem.  Of the row commands of Wr2Rd nothing is shown beyond the
finding.  Liveness
and ENABLED, induction over data and RECURSIVE operators are out of the prover's
reach.

## The plan

1. *Done*: link, port, retry, input process, controller behind the pipe buffer,
   timing constraints, with proofs of all of them.
2. Read-modify-writes in `Controller` (the read part, then the write part with its
   data), with the collision check between the parts.
3. The starvation counters and fill levels behind `critical`, the order in which
   `CmdSelect` takes commands of equal readiness, and who waits for whom then.
4. The port composed with `InputProcess` and `Controller` in place of its
   environment: credits from end to end.
5. The wake-up times of `ctrl_event`: does every wanted command have a
   wake-up?
6. Theorems: *done* for every safety property of a passing run; what remains true of
   the row commands of Wr2Rd.

## Deviations read in the code without a run of their own

* A P-credit may be granted to a class that is full, when another one has
  room: `RetryResourceManager` arbitrates over all retried classes once any has
  a resource (the header, line 39, says otherwise); the promised count is never
  taken back.
* Nothing bounds the two read queues together.  Each is given `RD_CQ_DEPTH` less its own
  minimum (`P2cFifo.cpp:141-143`), in the shipped configuration 64 - 12 and 64 - 8, so
  they may hold 108 requests of the 64; `IsRdQueueRemainOneSpace` (`P2cFifo.hh:353`)
  tests for exactly 63 only.
* A read-modify-write is popped without an LPR credit in hand, which
  `DecreaseLprCredit` asserts; the fault "lpr_credit" of `CHIPort`.
* A read-modify-write does not survive its way through the controller.  Its two parts are
  new payloads with a clone of the write's `UifExtension` (`InputProcess.cpp:217-247`)
  and no `StatisticExtension`, which `Scheduler.cpp:44`, `Scheduler.cpp:69` and
  `MemoryController.cpp:421` dereference.  If the program goes on, `UIF_RDAT_END` of the read
  part gives its DBID to `RdDataInfo::set_entry_data_ready` (`CHIPort.cpp:153-158`), which
  throws or marks the entry of another read as complete (`RdDataInfo.hh:87-90`).  The
  faults "no_statistics" and "no_entry" of `CHIPort`; `StopsExplained` says that
  they take a read-modify-write.
* `SendUifRequest` calls a write a read-modify-write if some byte is not enabled
  (`CHIPort.cpp:575`), whatever its opcode; `DecideRmw` (`P2cFifo.hh:55`) asks for
  `WRITE_NO_SNP_PTL` too.  A full write with bytes disabled costs the port no LPR credit, and
  the controller returns one for its read.  `CHIPort` has both tests (`UifRmw` and
  `IsRmw`); `InputProcess` takes only full writes with all bytes enabled.
* An RFMsb takes back the requests of all slices of the rank, also of those whose banks it does not
  manage (`RefreshMachineManager.hh:96-105`).
* The data of a two-beat write is delivered in the cycle of its first beat.
* A plain write is checked against the front of the empty read buffer, so it may
  enter beside an older read of its address.
* A same-bank refresh is recorded at the banks numbered 0 of logical rank 0,
  whatever it refreshes: the address of a refresh machine has `real_ba` and
  `real_bg` 0 (`ControllerCommon.cpp:27`), and `InsertCommand` starts from them
  (`SdramConstraint.cpp:982`).  An activate of a bank under such a refresh is not
  held back by tRFCsb, though the design note
  (`模拟器优化方案/刷新策略优化/HJ控制器刷新策略模拟器设计优化方案.md:329`) asks for it: a REFsb
  to logical rank 1 and an ACT of the bank one cycle later are allowed.
  `RefreshUndisturbed` therefore speaks of all-bank refreshes only.
* A precharge counts tWR from the write command (`PreAllowed`), where
  `模拟器优化方案/Precharge策略优化/PREAB_PRESB现有实现提取.md:243` adds the write latency and
  the burst; after an auto-precharge the code adds both (`AfterWra`).
* A REFsb does not wait for tRP after a precharge of the bank, and the
  window of its logical rank is read at the number of the physical rank
  (`SdramConstraint.cpp:628`).  `tDCAW` and `nDCAC` are loaded and never used.
* With one clock a cycle the write latency is two cycles below the read latency, so
  that a write one burst and a cycle after a read of another physical rank meets its
  data: `LatencyAssumption` excludes it, the loader does not.  The files of the
  repository have four clocks a cycle.
* An RFM is sent while pages are open (`RefreshMachineManager.hh:51`), and without asking the times.
* When the banks of a critical refresh are found closed, none of them is told to
  wait, so one may be opened again before the refresh goes (`RefreshMachine.hh`,
  `Evaluate`); it is told then, and `RefreshServed` shows that the refresh still
  goes in the end.

## Not modelled

The PHY delay model is commented out in the source (`PhyDelayModel.cpp`), and the
memory device is a fixed delay.  Loading the configuration files, choosing
the address bits and `encodeAddress` are pure functions of files; statistics and
printing have no protocol state; the test drivers are stimulus; third-party code
is used only for its flit fields.  Read-data flits are not modelled beyond the
release of their tag.
