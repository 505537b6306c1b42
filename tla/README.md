# The sDDF i2c driver in TLA+

TLA+ models of the seL4 Device Driver Framework's i2c driver for the ODROID-C4
(`src/i2c`), the TLC runs that check them, and theorems about them that TLAPS
checks.  Line numbers are those of the files under `src/`.

    tlc -config MCI2cSystem_safety.cfg MCI2cSystem.tla      a run
    tlapm I2cSystem_proofs.tla                              the proofs

`PROJECT.json` has the runs, the source lines of every definition (`map`), for
every property a mutant of the code that breaks it, the hazards and the findings.


## 1. The system

Two protection domains on one core and two i2c interfaces in hardware:

      i2c (server)   --- channel: notifications --->   driver
      priority 200   <-- channel: notifications ----   priority 201
           |                                             |   ^
           +------ 4 ring pairs in shared memory --------+   | 4 edge interrupts
                   (requests, returns; bus 2, bus 3)     v   |
                                              list processors of buses 2 and 3

| Component | State | Operations | Hard about it |
|---|---|---|---|
| Ring buffer (`sw_shared_ringbuffer.h`) | `write_idx`, `read_idx` (32 bits, free-running), 512 descriptors | `ring_empty`, `ring_full`, `enqueue`, `dequeue`, and wrappers | lock-free: each index has one writer, and each call reads the other domain's index between its own accesses; wrap-around; one slot stays free |
| Transport (`i2c-transport.c`) | eight rings in four pairs (request, return; each a free and a used ring), 4 x 511 buffers | `allocReqBuf`, `popReqBuf`, `getRetBuf`, `pushRetBuf`, `popRetBuf`, `releaseReqBuf`, `releaseRetBuf`, `*Empty` | a buffer is owned by whoever took it last; rings exactly as long as there are buffers, so that "full" is never handled |
| Driver: token loading (`i2cLoadTokens`, `i2cGetError`) | `remaining` and `ddr` of a bus; the token, write-data and address registers | one batch of at most 16 tokens and 8 written bytes from a request of up to 510 bytes | a request is cut anywhere, between a data token and its payload too; two limits end a batch; the direction outlives it |
| Driver: events (`notified`, `checkBuf`, `i2cirq`, `init`) | `current_req`, `current_ret`, `remaining`, `notified` of each bus | begin a request; after an interrupt report, load the next batch, or return the request; defer a notification | interrupts of two buses and notifications coalesce and come in any order; what was deferred must be taken up; every buffer pointer may be null |
| Driver: `setupi2c` | pin mux, drive strength, bias, clock, control and address registers | once, at start | fields of registers shared with other pins, cleared, set and checked with masks and shifts that do not all belong together; a failure is only printed |
| Server (`i2c.c`) | its place in `init` or `notified`; security lists | `init` makes the requests of a test program; `driverNotify` collects returns; `notified`, `protected` | preempted by the driver between any two accesses; one wake-up may stand for several returns |
| System description (`i2c.system`) | - | priorities, channel, interrupts, memory | the driver's higher priority is what makes its handlers atomic |
| List processor (hardware) | control, address, token and data registers | does a batch, then raises an interrupt; stops at a byte that is not acknowledged; times out | its timeout has an interrupt of its own and races the end of the batch |
| seL4 core platform | a notification word for each domain | signals coalesce; the event loop takes the whole word and calls `notified` channel by channel | a signal during a handler is seen only after it |
| `i2cDump` | - | takes the registers apart for printing | the offsets of two registers each |
| printf, client rings, echo sketch, Makefile | - | - | not part of the driver's logic |

**How they interact.**  The server takes a buffer from a request ring pair's
free ring, fills it, queues it on the used ring and notifies the driver.  The
driver's `checkBuf` takes one request for each idle bus, takes a return buffer,
marks it with the client and address of the request, loads a first batch and
starts the list processor.  An interrupt brings `i2cirq`: it stores the outcome
in the return buffer and loads the next batch, or, at the end and after an error,
queues the return, releases the request buffer and notifies the server.  The
server's `driverNotify` takes one return from each bus and releases its buffer.

**What makes each component correct.**

- Ring: a FIFO queue of SIZE - 1 descriptors, whatever the interleaving; never
  both domains at one slot.
- Transport: each buffer is in one place; none is lost; no ring overflows.
- Token loading: the batches of a request are the request, no more and no less,
  and fit their registers; loading ends.
- Events: each request is answered once, in order, to its caller, with what
  happened to it; none is forgotten; no bus stays busy for good.
- Server: every answer is collected.
- Set-up: each field holds the value meant for it, or a failure was reported; other
  devices' fields are left alone; what was set up outlives every batch.


## 2. Modules

| Module | Models | Correspondence |
|---|---|---|
| `BoundedFifo` | the promise of a ring | an enqueue or dequeue is one atomic step, refusing when full or empty |
| `RingBuffer` | `enqueue`, `dequeue` of `sw_shared_ringbuffer.h` | two processes, one step for each access to shared memory; indices modulo `IdxMod` (2^32) |
| `I2cTokens` | the loop of `i2cLoadTokens`; the execution of a batch by the list processor (external) | `LoadBatch` iterates `LoadTurn`, one turn of the loop, from the first remaining byte; slots of a register pair are a sequence; `Transaction` says which operations a client may ask for |
| `TokenBatches` | one request on one interface, batch after batch | `NextBatch` is a load and its successful execution, or a load that a bad token ends |
| `I2cRegisters` | `setupi2c`, with `gpio.h`, `clk.h` and the masks of `odroidc4-i2c-mem.h`; what `i2cLoadTokens`, `i2cStart`, `i2cHalt` and `i2cDump` do to the registers | a word is the set of its one bits: `\|` is union, `& ~` difference; an action for each stage of `setupi2c` between two checks, `told` the registers complained of |
| `I2cTests` | the requests of the test programs in `i2c.c` | |
| `I2cTransport` | `i2c-transport.c` | an operator for the effect of each call on its ring; a ring is a sequence |
| `Sel4cp` | notification words (external) | a set of channels; signalling is union |
| `ListProcessor` | the hardware as the driver relies on it (external) | `HwInit` is what `setupi2c` leaves of the boot loader's address bits (`BOOT_ADDR`); `HwDone`, `HwNack`, `HwTimeout` end a batch and signal an interrupt |
| `I2cDriver` | `i2c-odroid-c4.c`, handlers | an action for each path through `checkBuf` and `i2cirq`; `notified` and `serverNotify` are the calls that a channel stands for; `DriverWake` is the platform's event loop (external); access through null is a fault (`driverUp`) |
| `I2cServer` | `i2c.c` | an action for each ring access of `init` and `driverNotify`, with `pc` the place between them |
| `I2cSystem` | `i2c.system`: all of the above together | `ServerStep` is only enabled when the driver waits |
| `I2cService` | what the system promises, bus by bus | hand over, answer, collect |
| `RingBuffer_proofs`, `I2cRegisters_proofs` | theorems about these two modules | section 5 |
| `I2cTokens_proofs`, `TokenBatches_proofs` | what loader and list processor compute; theorems about batches | |
| `I2cSystem_proofs`, `I2cService_proofs`, `I2cTypes_proofs`, `I2cIrq_proofs` | theorems about `I2cSystem`: custody of buffers and the fate of requests; the refinement of `I2cService`; types, contents and addresses; interrupts, progress and outcomes | each extends the one before; `I2cTypes_proofs` also `I2cTokens_proofs` |
| `MCRingBuffer`, `MCTokenBatches`, `MCI2cRegisters`, `MCI2cSystem` | values of the constants for TLC | |

`RingBuffer` refines `BoundedFifo`; `I2cTransport` then takes each ring as a
sequence with atomic calls.  `I2cSystem` puts transport, driver, server, hardware
and platform together and refines `I2cService`.  `I2cRegisters` stands beside them: it
is the driver down to the bits of its registers, and takes requests and interrupts as
any order of loads, starts, halts and status reports; what `I2cTokens` loads into
slots, `I2cRegisters` packs into words.

**Grain of atomicity.**  A call that the driver's `notified` makes is one step:
the driver has the higher priority on the only core, so the server cannot run in
between; the hardware can, but what a handler reads of it (`ctl`) changes only
while a batch runs, and a handler reads it once.  Of several calls for one wake-up
each is its own step.  The server can be preempted anywhere, so each of its ring
accesses is a step; inside one such access preemption is `RingBuffer`'s matter.

**Pointers.**  Buffers are numbers, 0 is null.  Where the code goes through a
pointer that is null in that state the model has an action of its own, which
clears `driverUp`: the domain faults and runs no more.  There are three:
`checkBuf_NoRetBuf` (no return buffer left, line 511), `i2cirq_FinishNotified`
(`i2cLoadTokens` after `current_req` is cleared, line 631) and `i2cirq_NoRequest`
(an interrupt without a request, line 587).

**Left out of the data.**  Descriptor lengths in the transport (never read, or the
length of the contents); the read-data registers, because `i2cGetError` always yields 0
bytes read, so that nothing is ever copied from them; the security lists, which are
cleared and then never used.


## 3. Runs

| Run | What it shows | Bounds |
|---|---|---|
| `ring` | under every interleaving of the two domains' accesses a ring is a FIFO queue (`ImplementsFifo`), nobody reads a slot being written (`NoSlotRace`), a dequeued descriptor is the whole one (`Copied`) | 3 slots, indices modulo 6, which wrap twice around the slots; two descriptors tell a swap from a copy; no bound on the number of calls |
| `batches` | batches put together are the request, whatever direction the last request left; they fit the registers; loading ends; few enough batches. For a request of any bytes: batches fit, loading ends, and at most one byte from behind the request is taken, as the payload of a write token that ends it | 4 token slots and 2 bytes of write data, so that requests of up to 4 operations after the start and address take several batches and are cut at each possible place; writes of up to 6 bytes, three times what a batch holds; the requests of the test programs; all sequences of up to 5 bytes over four tokens, END and a byte that is no token |
| `registers` | see below | 5 contents of the pin registers at boot (none, all, even, odd bits, and the function of one pin of each pair), no, one or all registers deaf to writes; registers of the interfaces all 0 or all 1; two batches (all 16 tokens and all 8 bytes; nine and five), addresses 0 and 127, all status bits off or on |
| `safety` | two buses and three requests with every outcome of every batch: buffers, interrupts, forgotten requests, addresses, outcomes, the place of the ring's fence (`NoPopDuringPush`), and the refinement of `I2cService` | same registers: a request takes two batches; 2 buffers of each kind, so a buffer is used again; targets 104 and 16 on bus 2, 36 on bus 3; address bits 0 to 7 at boot 127 or 255 on each bus, so bit 7 set or not and all others set; `LATE_IRQ` off |
| `late` | buffers and requests stay accounted for when a batch that timed out may still end, there are more requests than return buffers, and clients send requests they should not: one with no token at all, which `checkBuf` calls invalid and starts, and one with an unknown token in its second batch | 5 requests, 3 on one bus, 2 buffers |
| `live` | each request is answered and each answer collected, with one request for each bus | 1 buffer of each kind |
| `deferred`, `error_code`, `address`, `returns_left`, `bad_address`, `false_alarm` | disagreements of the code with its comments and README (section 4) | as in `safety`; `false_alarm` as in `registers` |

**What `registers` asks.**  `FailuresTold`: when `setupi2c` is done, each field that
does not hold its value belongs to a register that was complained of.  There are
two ways out, for pin functions only, and the property says so.  A pin's function is
or-ed into its field, which is not cleared, so where the boot loader left bits in that
field it may silently become another one.  And the check asks for any bit of the two pins'
fields, so in a register that takes no write a function left at either pin satisfies
it.  X18's drive strength always
fails, and its check always says so.  `OthersKept`: the bits of other pins and clocks
keep what they held, except bits 4 and 5 of DS_2B, where X18's shift puts its value.
`ConfigKept`: clock divider, delay, filters and mode bits stay as set, although every
batch changes the address and the start bit in the same words and the hardware writes
its status there.  `DumpShowsBatch`: a batch comes out of the registers as it went in,
slot for slot, with END and 0 in the slots left over from a longer one.

**Why the bounds are enough.**  The driver's behaviour towards a bus depends on
whether its used ring is empty, whether a request is current, whether bytes
remain and whether a notification was noted down.  Three requests on two buses,
two of them on one, and requests of two batches reach each combination; the
smaller registers only make a batch boundary come sooner.  The proofs of section
5 have no bounds.

**Deadlock.**  The system runs of `I2cSystem` are not checked for it: when all
requests have been answered, or the driver has faulted, nothing more happens.
That it does not stop earlier is `NoBusStuck` and `NoRequestForgotten` as
invariants and `AllAnswered` as a liveness property.  In `TokenBatches` a request
ends too.  The ring and register runs are checked for deadlock.

**Fairness** (`LiveSpec`).  Weak fairness of `DriverStep` and `ServerStep`: the
scheduler runs a domain that is ready when no higher one is.  `ServerStep` is
disabled while the driver has anything to do; the hardware interrupts only once
for each start, so this ends.  Weak fairness of each interface's `HwStep`: a batch
that was started ends, if only with a timeout; without that no driver for this
hardware could promise an answer.

**Assumptions about the hardware and the platform.**  With `LATE_IRQ = FALSE` each start
of a batch raises one interrupt, main or timeout; with `TRUE` a batch may time out and
still end.  A timeout sets the error bit, because `i2cirq` looks for a timeout only
after `i2cGetError` was negative.  An error leaves the token that failed in the
current-token field.  When the driver starts, no list processor runs and no interrupt is
pending. Bits 0 to 7 of an address register are then whatever the boot loader left, one
of `BOOT_ADDR`, because `setupi2c` sets fields from bit 8 on and clears nothing below
(`i2c-odroid-c4.c:251-272`); the rest of its set-up is `I2cRegisters`' matter.  Driver
and list processor both start with the direction "write" in `I2cSystem`; `TokenBatches`
starts each request with every pair of directions, and a `Transaction` has an address
before its data in any case.  Interrupts are edge triggered (`i2c.system:75-88`) and
latched until taken.  One core, so that accesses take effect in program order.

**Properties and their circumstances.**  `SendsAddress`, the comment on `addr`, fails
and is only in `address`, where registers start clean (`BOOT_ADDR` is {0}), so that the
earlier target is the cause.  What does hold is `OnlyBit7Stale`, in `safety`: one bit
leaks and no other, only into an address below 64, and only from the boot loader or from
an earlier request of the same bus.  `ErrorsReported` says that an error ends its
request and is reported once, and as a timeout when it was one.  It does not fix which
error a refused ADDRR becomes: the code reports a NACK where its lines 588-589 mean "no
read", a consequence of finding `error_code` that is no specification.
`ErrorCodeMeaning`, `DeferredStarts`, `EveryRequestEnds` and `NoFalseAlarm` state
comments of the code that it does not keep, and are only in the runs that show so.
`ReturnsCollected` holds in `live`, with one request for each bus, and fails in
`returns_left`, with two on one.  `safety`'s invariants speak of a driver that is up,
because the fault of line 631 is reachable there: they say nothing of what is left
behind by a fault.  `NoBusStuck` speaks of transactions only; the bus that a bad token
leaves busy is finding `bad_address`.


## 4. Findings

| Run | The code says | It does |
|---|---|---|
| `deferred` | `i2c-odroid-c4.c:625`: a deferred notification starts the next request at once | `current_req` is cleared first, and `i2cLoadTokens` reads through the null pointer; reached by the program that `init` runs |
| `error_code` | `:279-281`: bytes read, or minus the failing token | fields of `ctl` are masked and not shifted: no read byte is ever returned, the token is 16 times too big, and a refused ADDRR is reported as NACK and not as NOREAD (`:588-589`) |
| `address` | `i2c-transport.h:72`: the 7-bit address to use | bit 7 of the register is never cleared: after a target at 64 or more, one below is addressed 64 too high; so it is from the start if the boot loader left bit 7 set, for `setupi2c` does not clear it either (`:251-272`) |
| `returns_left` | `README.md:59`: the server is notified to return data | two notifications may be one, and `driverNotify` takes one return from each bus |
| `bad_address` | `i2c-odroid-c4.c:611`: after an error, return and notify | the -1 of `i2cLoadTokens` is ignored: the bus stays busy for good |
| `false_alarm` | `i2c-odroid-c4.c:179`: "Check register updated" | X18's mask is bits 0 and 1 and its shift 4 (`gpio.h:32-34`): the check compares bits 0 to 3 with a value that has bits 4 and 5, and always complains; X18's strength ends up 0 |

Seen in passing, from reading or from short experiments, without a run:

- `README.md:57` speaks of ceil(n/16) operations for n tokens; the loop also ends a
  batch after 8 written bytes, so `testLong`'s 34 tokens take 4.
- `README.md:142` gives STOP as 0x7; `odroidc4-i2c-mem.h:57` and `i2c-token.h:35` have
  0x6, which the model takes.
- `i2c-token.h:38` calls the byte after a DAT token its payload, and `test()`
  (`i2c.c:75-87`) puts one after each DAT of a read; for `README.md:89` and the code only a
  write has one, so the read of `test()` loads those bytes as tokens.
- The doc of `enqueue` (`sw_shared_ringbuffer.h:87`) has "-1 when ring is empty", and it
  is when the ring is full; the same at the other calls that queue (`:138`, `:153`).
- `README.md:129-130` makes the read buffer eight bytes long; nothing limits a batch to
  eight reads.
- `i2cDump` masks with `REG_CTRL_CURR_TK` and `REG_CTRL_RD_CNT`, which have no
  parentheses around their `|`: what it prints as token and read count does not depend
  on the fields alone.
- The drive strength is 3, commented "3 mA"; `gpio.h:42` has `DS_3MA` as 2.
- `i2cirq` copies the top byte of `rdata0` for each byte read (its own FIXME); never
  reached, because of `error_code`.


## 5. Proofs

Each theorem is for every value of the constants that meets the modules' assumptions,
and each proof is checked to its leaves.  Every safety and action property of the
passing runs has one.  Some need more of the program or of the hardware than the
assumptions say, and state it as a hypothesis:

| Hypothesis | What it says | Why it is needed | Theorems |
|---|---|---|---|
| `EnoughReturns` | no bus is asked for more requests than it has return buffers | otherwise `checkBuf` may take a request off its ring, find no return buffer and fault: that request leaves the queue unanswered, which `I2cService` does not allow | `SystemImplementsService` |
| `ProgramFormed` | each request is a `Transaction` to a seven-bit address | finding `bad_address`; an unknown token leaves its bus busy for good in the same way; in a request with no address before its data, driver and list processor may disagree on the direction | `SystemNoBusStuck`, `SystemOkMeansDone` |
| `LATE_IRQ = FALSE` | a batch ends once | a batch that ends after its timeout raises a second interrupt, which meets the next request or none | `SystemIrqMeetsRequest`, `SystemErrorsReported`, `SystemOkMeansDone` |
| `RequestsFormed` | the requests in `Requests` are transactions | as `ProgramFormed` | `BatchesWireIsRequest`, `BatchesComplete` |
| `PastEndIsDistinct` | the value that stands for the byte behind a request is in none | the property could not tell it apart otherwise | `BatchesPastEndOnlyLast` |

They are defined beside the properties, and the MC modules assume them of the programs
and requests of the runs `safety` and `batches` (`SafetyProgram`, `RequestsAreFormed`,
`PastEndIsTold`), so TLC evaluates them there: the theorems' hypotheses are met by the
instances that the runs check, the test programs of `i2c.c` among them.  A transaction
is a sequence of operations in which each data token comes after an address, and brings
a byte exactly when that address is one to write to.

**The ring** (`RingBuffer_proofs`; assumptions: at least two slots, and `SIZE`
divides `IdxMod`, as 512 divides 2^32).  The inductive invariant is
`TypeOK /\ Copied`: at most SIZE - 1 descriptors are queued, fewer while the
producer is between its full check and its publication, and at least one while the
consumer is between its empty check and its advance, whatever the other has done
since; and what either has copied so far is what it was given or found (`RingCopied`).  (The
other side can only make room, or queue more, so a check once passed stays true;
that each index has one writer is used here.)  It gives `RingTypeCorrect` and
`RingNoSlotRace`, and, with the queue read off the slots between the indices,
`RingImplementsFifo`: `Spec => BoundedFifo!Spec`.  Modular arithmetic is confined
to lemmas on remainders (`ModUnique`, `ModShift`, `ModDistinct`) and on indices
(`SizeCases`, `BumpCases`, `WriteSlot`, `BumpSlot`, `EmptyFull`).

**Custody of buffers** (`I2cSystem_proofs`; assumption `TransportAssumption`: a
ring holds as many as there are buffers, as 511 and SIZE - 1 = 511 do).
`NoBufferTwice` is not inductive: that an `enqueue` does not fail needs room, and
room comes from every buffer being elsewhere at most once.  `CustodyInv` says that
the request buffers of a bus are on its free ring, on its used ring, in the
server's hand or in the driver's, each in exactly one of them and once; the same
for its return buffers; and where the server is when it holds one.  A ring without
repetition in a finite set that lacks the buffer just given to it has room
(`RoomFor`), so that each ring call succeeds and hands one buffer over
(`Take`, `Drop`, `Give`).  There is a lemma for each action, and it ends in
`SystemNoBufferTwice` and `SystemNoBufferLost`.

**No request forgotten.**  `checkBuf` takes one request and forgets the
notification, so a second one queued would be lost.  `SeenInv` says why it never
is: as long as no notification is noted down for a bus that is busy, at most one
request of it is queued, because the server makes one and notifies, and the driver,
having the higher priority, looks before the server can make another.  A request
that ends while a notification is noted down would break this, with requests queued
at an idle bus that nobody looks at; that path ends in the fault of line 631.
`SystemNoRequestForgotten` is thus a theorem about
the code as it is: a repair of line 631 has to keep it.  The mutant with equal
priorities (`ServerStep_AnyTime`) breaks it.

**While the server writes a ring.**  `SystemNoPopDuringPush` says why the place of the
fence in `enqueue` is harmless.  Its invariant `PushInv` is stronger and simpler: while
the driver has a look at the rings ahead of it, the server is at "allocate", where its
notification put it, and goes on only when the driver waits again.  At other times
only interrupts reach the driver, and their handler takes nothing from the rings that
the server adds to.

**Registers** (`I2cRegisters_proofs`; assumption `RegistersAssumption`: batches of at
most 16 tokens of four bits and 8 bytes, addresses of seven bits, status in bits 2 to
11).  `RegistersTypeCorrect` needs that no shift leaves the word (`TokenBit`,
`ByteBit`); `ConfigKept` follows from disjoint fields, `DumpShowsBatch` from the
uniqueness of a slot's bits in a packed word.  `FailuresTold` is not inductive:
`ToldInv` says after each stage of `setupi2c` which registers are as meant or
complained of, and that later stages touch none of them.  The theorems are for every
content of the registers at boot and every set of registers deaf to writes.

**The token loader** (`I2cTokens_proofs`).  `LoadBatch` and `Execute` are iterations,
functions defined by recursion on the number of turns.  That such a function exists,
what its values are and what they keep is shown by the least number for which it fails
(`LeastNat`, from the well-foundedness of < on the naturals): `LoadTurnsExist`,
`StepsExist` and `FlattensExist` for the functions, `LoadInduction` and `ExecInduction`
for their invariants.  `LoadBatchResult` is what holds of requests of any bytes: tokens,
bytes and direction have their types, the batch fits the registers, `remaining` goes down
if the batch is started, by `TK_SLOTS` or more if some is left (with twice as many token slots
as bytes, as in the code), and a byte from behind the request is the last one
written.
`BatchLoaded` and `BatchDone` are about transactions: a batch that starts after m of
the operations holds the next k of them (`Loaded`: tokens and payloads, each at the
place where the request has it), and the list processor does just these.  `RequestLayout` and
`RequestFirst` say where in the bytes an operation is.

**Batches** (`TokenBatches_proofs`).  From these lemmas: `BatchesProgress` and
`BatchesPastEndOnlyLast`; `BatchesBound` with the invariant that all batches but the last
use `TK_SLOTS` bytes each (`UsedInv`); `BatchesWireIsRequest` and `BatchesComplete` with
`FormedInv`: the first m operations are done, the rest remains, and both the
loader and the list processor know the direction once there was an address.  (Before
that they may disagree; a transaction transfers nothing then.)

**Types and contents** (`I2cTypes_proofs`).  `TypeOK` is not inductive: `i2cLoadTokens`
starts at the length of the request minus the bytes that remain, so `TypeInv` has to say
that no more remain than the current request has, and that an error bit comes with a
token.  It is proved for every program (`ProgramAssumption`: what goes into a buffer are
bytes), requests that are no transactions included.  `ContentInv` says that the buffers
on a used ring or at work hold what the program asks for, which is where custody pays:
nobody writes a buffer that is queued.   `SystemOnlyBit7Stale` is about every program
and every content at boot, late interrupts included.  A running list processor's address
is its request's up to bit 7, and its invariant `AddressInv` says where bit 7 comes
from, running or not: from the boot, from the request at work, or from an answered one
with a target at 64 or more.  So that a request at work becomes an answer which still
shows its target, the return buffer must bear its caller (`Marks`), and what is
collected must be what was on the ring (`Collected`).

**The service** (`I2cService_proofs`).  `SystemImplementsService` maps each step to a
step or a stutter of `I2cService`.  The invariant, on top of custody: the return buffer
at work bears the caller of the request at work (`Marks`); the requests of a bus that
wait or are at work and its answers, taken or not, are together as many as the server
has made (`Balance`). With `EnoughReturns`, a request that is queued then finds a return
buffer.

**Interrupts** (`I2cIrq_proofs`).  `IrqMeetsRequest` counts interrupts; the invariant `OneIrq`
says it in sets: at most one raised, at most one about to be handled, not both, none while a
batch runs, and in each case a request at work.  Stored on top of it, an error stays in
the registers until its handler reads it, which gives `SystemErrorsReported`: the
handler that takes the interrupt ends the request, queues one return and writes an error
into it, a timeout exactly if the interrupt was the timeout's.

**Progress and outcomes** (`I2cIrq_proofs`).  Each step leaves a bus alone, starts its
first batch, starts another, ends its request, or is the hardware's (`BusNext`).
`SystemNoBusStuck`: with bytes remaining `i2cLoadTokens` never fails on a transaction
(`LoadStarts`), and it is called only with some; it holds with late interrupts too.
`SystemOkMeansDone`: while a batch runs the bus has seen the first m operations and the
registers hold the next k (`UnderWay`); when it has ended without an error the bus has
seen m + k (`Halted`); at the end of the request that is all of them.

**The model, corrected on the way.**  A `CASE` chooses any arm whose guard holds.
`LoadTurn` and `Reported` had arms that overlapped, of which TLC takes the first; they
are nested IFs now, in the order of the code's tests.

**Only model-checked.**  Liveness under fairness (`AllAnswered`, `ReturnsCollected`,
`EveryRequestEnds`): out of this prover's reach.  The properties of the runs that expect
a violation, which are false.  What happens outside the hypotheses of the
table above: that buffers and requests stay accounted for there is
proved, the rest is in the runs `late` and section 4.


## 6. Not modelled

- Security lists and `protected()`: cleared, and empty branches.
- Client rings: described in `README.md`, commented out in `i2c.system`, not written.
- `printf.c` and what `i2cDump` prints of the control, address and read registers:
  output only.  The echo sketch and the Makefile.
- The return values of `i2cStart` and `i2cHalt`, which nobody looks at.
- Memory ordering between cores: both domains run on one, and the accesses of a call
  take effect in program order.  On one core the order that the compiler gives to
  index and descriptor matters only if the driver looks in between
  (`NoPopDuringPush`).
- More than eight reads in a batch: what the hardware then does the repository does not
  say, and no byte read is ever copied.
- The meaning of requests for which loader and list processor disagree on the
  direction (a data token before any address token, or tokens after an END): `batches`
  checks that their batches fit and their loading ends, not what they do on the bus.


## 7. Plan

Done: ring and its refinement; token loader, for requests of any bytes; driver, server
and transport together, also with requests no client should make; the service they
implement; `setupi2c` and the registers.  Every safety property of these is proved.

What would come next, in this order:

1. `TokenBatches` with `I2cRegisters`' words in place of slots, as a refinement.
2. `SystemErrorsReported` and `SystemOkMeansDone` with late interrupts, for the
   requests that none of them meets.
3. A ring with store buffers, for a build on several cores.
