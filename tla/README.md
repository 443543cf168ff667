# A TLA+ verification of MaOS

MaOS is a small x86 kernel in C, C++ and assembly. This directory holds TLA+
models of the parts of it whose correctness depends on long sequences of calls
or on the moment an interrupt arrives, TLC configurations that check them on
small instances, and proofs, checked by TLAPS, for instances of every size.

## The system

`kernel_main` initialises the devices and the memory managers in a fixed order
and then draws in a loop, calling `sleep(100)` after each picture. There is one
thread. Interrupt handlers run on top of it; the registered ones belong to the
timer (IRQ0) and to the serial port (IRQ4), and neither allocates memory.

| Component | State | Operations | Hard behaviour |
|---|---|---|---|
| Physical memory (`pmm.c`, `bitset.c`) | seven bitsets of free blocks | `pmm_init`, `pmm_alloc`, `pmm_free`, `mark_used` | splitting, no recombination; layout by estimate and rounding |
| Virtual memory (`vm.c`) | bucket list, waiting list, steal area, page tables | `vm_alloc_kpages`, `vm_free_kpages`, `vm_dma` | freeing may allocate; list surgery; three structures that must agree |
| Heap (`liballoc.c`, `stdlib.c`) | boundary tags, free lists, counters | `malloc`, `free`, `realloc`, `calloc` | splitting and joining over chains of tags |
| Timer (`timer.c`) | `ns_since_boot` | `timer_handler`, `sleep` | 64-bit clock read in halves, `sti`/`hlt` race |
| Interrupt dispatch (`isr.c`, `isr.asm`, `tables.c`) | handler table, PIC masks | delivery, EOI, return, registration | EOI before the handler runs |
| Serial port (`serial.c`) | UART, active port | `serial_init`, `serial_handler`, `serial_putchar` | echo inside a print; one read per interrupt |
| Console (`tty.c`, `putchar.c`) | cursor, screen | `tty_putchar`, `newline` | wrap-around; printing from a handler |
| Formatted output (`printf.c`) | – | `printf`, `vprintf`, `print_int` | edges of numbers and buffers; recursion on an unknown directive |
| Keyboard (`keyboard.c`) | controller | `keyboard_init`, `keyboard_handler` | handler races initialisation (not called today) |
| Graphics (`gfx.cpp`) | frame buffer mapping | `gfx_init`, `gfx_apply` | mapped without being reserved |
| PCI, strings, math, boot | – | – | sequential or device I/O |

The heap calls `vm_alloc_kpages` through `liballoc_alloc`; virtual memory calls
`pmm_alloc` and `pmm_free`; `sleep` waits for the timer's interrupts.
`PROJECT.json` lists every component, every hazard with its line, and which
lines each definition models.

## The modules

| Module | Models |
|---|---|
| `Buddies` | the bitsets of `pmm.c` and the functions on them, as operators on a value |
| `Pmm`, `MCPmm` | the physical memory manager with callers; `MCPmm` adds the recursion of `mark_used` for comparison |
| `PmmInit` | the address arithmetic of `pmm_init`: where bitsets and managed frames lie |
| `Buckets` | the linked lists of `vm.c`, as operators on a value |
| `VmBuckets` | reservation and return of virtual pages, on their own |
| `VmSpace` | what `VmBuckets` promises: a set of free pages and runs in use |
| `Vm`, `MCVm` | buckets, page tables, buddies and the frame buffer composed |
| `Sleep` | `sleep()` and `timer_handler`, instruction by instruction, with PIC and processor |
| `Serial`, `MCSerial` | serial port, interrupt dispatch and masks, from `idt_init` to the first printed lines, one step per port access |
| `Liballoc` | the heap |
| `Tty` | the text console, as operators on a value |
| `Printf` | the conversions of `printf.c`, as operators on texts |
| `Console`, `MCConsole` | `printf` on the screen: `vprintf` turn by turn, `putchar` character by character |
| `Keyboard`, `MCKeyboard` | `keyboard_init` against its handler and the controller; then the handler against a print of the main thread |
| `PmmProofs` | theorems about `Pmm` and `PmmInit` |
| `OperatorProofs` | lemmas about the operators of `Buddies`, for allocations of one frame and frees of a block, and of `Buckets`, up to `vm_init`, `vm_reserve_pages`, `vm_optimize` and `vm_return_pages` |
| `VmBucketsProofs` | theorems about `VmBuckets` and `VmSpace`, the refinement among them |
| `VmProofs` | theorems about `Vm`: frames, page tables and list nodes |
| `LiballocTagProofs` | lemmas about one step of the heap: linking, unlinking, joining, filing and taking a block |
| `LiballocProofs` | splitting, new and returned runs, the loops; theorems about `Liballoc` |
| `InterruptProofs` | theorems about `Serial` and, as an instance on the same processor and PIC, about `Sleep` |
| `KeyboardProofs` | theorems about `Keyboard` |

**Names.** Actions and operators carry the names of the C functions. A block of
the buddies is named by its first frame instead of its bit number; a list node
and a boundary tag are named by their address, counted in units in which a page
holds a few. A failed `ASSERT` or a `PANIC` sets `status` and the model then only
stutters by the action `hang`, as `kernel_panic` loops for ever. Operators
marked "Mutant" are plausible mistakes in one definition; replacing the
definition by them breaks the property they are listed with in `PROJECT.json`.

**Atomicity.** Memory management is called from the single thread only, so a
call is one step. `Sleep` and `Serial` are different: an interrupt can come
between any two instructions for which IF is set, so the steps of `Sleep` are
single instructions (the two halves of `ns_since_boot` are read in either order)
and those of `Serial` are port accesses. In `Keyboard` they are port accesses and,
inside `tty_putchar` and `newline`, loads and stores of the cursor; the default
build has no optimisation, so `++tty_column == TTY_WIDTH` stores, loads again and
compares. There the loop that clears a line is one step, although it reads `tty_row`
in every turn and a handler that prints may come in between; the cells it would
clear then are in no property of `Keyboard`, and the cursor it does not move. The
steps of `keyboard_init` begin with `irq_clear_mask` (`keyboard.c:53`);
`irq_register_handler` in the line before has happened.

**Devices.** The PIC and the UART are external. The PIC latches the rising edge
of a line, masked or not, and forgets requests when it is initialised. The UART's
line is high while its receive queue holds at least `Threshold` characters or one
has waited for a while; reading ends the wait. A read of an empty queue returns
anything. Spurious interrupts are left out. In `Serial` a request may wait for any
time before it is delivered. In `Keyboard` it is taken before the next instruction
of the main thread, as a processor with interrupts enabled does. `AnswersMatched`
rests on that: a request latched while the port was still on must not be delivered
later, when the handler would take an answer. A new one cannot come then, because
the line is down whenever an answer waits, first with the port off and later with the
interrupt bit off. The keyboard controller is the one of QEMU, on which the
repository runs: one output buffer for answers and keys, and a line that follows
"buffer full, interrupt enabled, port on".

**Numbers and texts.** A text is a sequence of characters. In `Printf` a word has
`WordBits` bits and arithmetic wraps at it; a read outside of `buffer` or `hexchars`
gives `Garbage`. A double is an exact decimal with two places, so rounding errors
of binary fractions are not covered. `vprintf`'s count of characters, which nobody
uses, is left out, and with it the early exit of `printf_try`: `putchar` has no
`return` statement, and in the default build the value left behind is not
negative. In `Keyboard` a byte is the set of its one bits. In `PmmInit` addresses
are numbers and subtraction wraps at `AddressLimit`.

**Virtual memory twice.** `VmBuckets` studies the lists with requests of several
sizes and assumes that nobody else writes to the nodes. `Vm` puts the nodes into
mapped frames, where the memset of `vm_alloc_kpages` and a caller's own writes
(`write`, external) reach them, and composes the lists with page tables and buddies.

`Vm` has two specifications. `Spec` is all that the code does. It contains three
faults, each of which is a finding: a reservation passes `managed_end` (`vm_end`);
a list node that was cut below `KERNEL_BOOT_MAPPED` lies in a frame that `pmm_alloc`
hands out, and the memset overwrites it (`vm_steal`); the frames of a run are not one
block of the buddies when `pmm_free` takes them for one (`vm_runs`). The kernel is
exposed to all of them: the image ends at about 5 MiB of the 8 MiB that are mapped at
boot (4 MiB of it are `KERNEL_PAGE_TABLES`, `boot.asm:52`), and the heap asks for runs
of 16 pages and more (`liballoc.c:31`). `SoundSpec` is the same kernel up to the first
such step: `RunsOver`, `Overwrites` and `Strays` name them by the state before the
call, and a call that would be one is not taken. Everything else is, runs of any size
included, and a run of several pages is freed when its frames are a block, as those
of the first runs are. So the properties checked and proved of `SoundSpec` say that
there is no fourth way for pages, frames and mappings to get out of step. `SoundSpec` may stop where every call that is left
would be a fault, so its run does not check for deadlock; `Spec` never stops.

The frame buffer of `gfx_init` lies at `managed_end`, is never reserved in the
buckets and stays mapped as long as reservations do not get there, the first of the
three. The TLB is left out. `vm_unmap_page` and `vm_map_page` invalidate nothing, so a
translation may be stale as soon as a page gets another frame than it had, which
happens when runs of different sizes come and go; no text of the repository says
otherwise, and the hazard is listed without a property.

## The runs

| Run | Instance | Distinct states | Shows |
|---|---|---|---|
| `pmm` | 3 levels, 8 frames, requests 1, 2, 4 | 2,888 | no frame twice or lost; one frame is refused only when none is left; `mark_used` returns the rest of a block; for each of the 128 ends of memory, blocks and bitsets are apart |
| `vm_buckets` | 6 pages in the first bucket, requests 1 and 2, 1 node per page | 130,966 | list shape; when a run cannot be taken back; `VmBuckets` implements `VmSpace` |
| `vm` | 4 frames, 3 levels, 6 pages below the frame buffer, requests of 1 to 4, one stolen page, frame buffer none, of 1½ or of 2 pages | 1,669 | until one of the three faults: owners of frames agree and no frame is lost; the frame buffer stays mapped; allocated node memory stays apart; why a free can fail |
| `sleep` | clock halves modulo 4, tick 3, durations 0, 1, 4, 5 | 10,224 | never early, never torn, always returns |
| `liballoc` | 3 pages of 16 units, tag 1, sizes 0, 4, 8, 20, 3 blocks held | 26,629 | blocks tile runs, lists and counters exact |
| `serial` | queues of 4, threshold 2, 3 characters received, a newline printed twice | 73,554 | handlers ready before their line is unmasked; echo and printing apart; every character taken unless the port is stuck for good |
| `console` | words of 8 bits, buffer of 4 digits, screen of 4 by 3, 10,517 calls of `printf` | 92,759 | output is what the format means but for four deviations, each delimited exactly; garbage appears exactly where a buffer overruns; the screen shows the last lines; which calls return |
| `keyboard` | 2 keys struck, of 2 scancodes, screen of 2 by 2, text of 3 characters and a newline | 23,753 | answers reach `keyboard_init`; it returns; keys are reported; the cursor stays on the screen, the row except for one window |
| `vm_pop`, `vm_end`, `vm_runs`, `vm_steal` | as above | – | counterexamples, see Findings |

**Why the bounds are enough.** Three levels give a split over two levels and an
exact fit at each. The range of `vm_buckets` is small enough to be used up, so that
the walk of `vm_return_pages` does end at `NULL`, and holds buckets with a neighbour
on no, one or both sides; with one node per page, frees steal often, also the very
bucket that the freed run is to be put in front of (`vm_pop` and `vm_end` use two
nodes per page). Four frames let `vm` run out of memory in an allocation and in a
free that needs a node, and give frees of runs of two and of four that are blocks,
those of two also after a page was taken for nodes. Of the three faults, each is the
next call in some state of the run; running out of the address space is not reached.
The clock's halves overflow three times before `Horizon`, and a tick of 3 against a base of 4 makes the carry fall at
different phases. The sizes of `liballoc` include one that needs two pages and
three that share a page, so that a block is joined while it has neighbours on
both sides; some remainders are split off and some are too small. The same
properties were also checked with four pages (370,887 states, five minutes).
Bounds that are not in the code are `MaxHeld`, `NPages`, `MaxKeys`, the length
of `Input`, and `Horizon`, where the clock stops and beyond which no deadline lies.

Three characters against a threshold of two are what it takes to get `Serial`
stuck, and two to have the line raised by the threshold and again by the time-out.

`PmmInit` runs with pages of 4 units, dwords of 2 bits and addresses below 128, so
that every end of memory can be tried; those from 48 to 91 give the eight frames of
the instance. `Console` takes every number of a word in each base with three widths,
and all sequences of up to three of eight pieces, which fill the twelve cells of the
screen more than once. As in the kernel, a decimal or hexadecimal number always fits
the buffer of `print_int` and a binary one need not. `MaxDepth` stands for the stack
that the recursion of the default case uses up; where it does, or `printf` has
returned, `Console` stops, and so does `Keyboard` when all is printed, so these two
runs do not check for deadlock. One of the two scancodes of `Keyboard` has bit 4 set,
which as a configuration byte turns the port off. Two keys are enough to
interrupt one character twice, and four characters on a screen of two by two go
through both of its wraps.

**Fairness.** In `Sleep`, the PIT raises its line again and again
(weak fairness of `Raise("timer")`); the PIC delivers a waiting request when the
processor accepts it, the timer first (weak, `Deliver("timer")`); a handler runs
to its end, since gates keep interrupts off (weak, `Isr`); the interrupted code
executes between two ticks, which are 55 ms apart (strong, `Main`, because each
delivery disables it for a while). Nothing is assumed of the serial line.
The last assumption excludes a serial line that interrupts without any pause.
In `Serial`, the UART transmits and times out, the timer is delivered and
handlers run to their end (weak); the main thread and the delivery of the serial
request, which other activity disables again and again, get their turn (strong).
No tick falls into the handler of the one before, as ticks are 55 ms apart.
In `Console` only the processor has to run (weak, `Next`). In `Keyboard` the main
thread, the handler and the controller do their work (weak); nobody has to strike a
key. The main thread is never kept out for ever there, because the keys are finitely
many (`MaxKeys`).

## Findings

Each is a run in which TLC reaches the violation from the initial state.

* `vm_pop`: `ll_pop_item` does not clear `prev` of the new head, so the second pop
  in a row fails `ASSERT(item->prev == NULL)` (`vm.c:83`).
* `vm_end`: the size of the first bucket is `managed_start - managed_end`
  (`vm.c:141`), which wraps; reservations pass `managed_end`. The wrapped size
  also keeps the failing assertion of `ll_append_notempty` out of reach, as it fails
  only when the last page of the range is in use (`AppendFailsOnlyAtTheEnd`):
  correcting one needs the other corrected.
* `vm_runs`: frames of a run are allocated one by one (`vm.c:217`) and freed as one
  aligned block (`vm.c:311`), of a size rounded down to a power of two
  (`pmm.c:140`). In the counterexample the frame of another page is offered, and one
  of the run's own leaks.
* `vm_steal`: list nodes are cut from frames the buddies manage (`vm.c:120`).

What `serial` shows beside its properties: the handler reads one character per
interrupt, so when a read leaves the receive queue at the threshold, the line stays
high, the PIC sees no further edge, and input stops for good (`Stuck` is reachable).
`InputTakenUnlessStuck` says that this is the only way. No text of the repository
promises otherwise, so it is not listed as a finding.

What `console` and `keyboard` show beside theirs, with the exceptions that their
properties name: `printf` never returns from an unknown directive, a lone `%`
included, since its message contains one (`printf.c:192`); `%b` of a number of more
than 15 digits and `%f` of a large one print a character from outside their arrays;
`%lx` reads as one number only when its high word is not zero and the low one shows
all its digits, by itself or by `%08lx`; a minus sign comes before the spaces of the
padding; `%f` cuts decimals off instead of rounding, shows at most six and a point
even for none. A key struck after the port was turned on
is taken for the configuration by the last `expect_data` (`keyboard.c:76`). A handler
that prints between the increment and the reset of the row (`tty.c:17`) moves the
cursor off the screen for good; at the column (`tty.c:55`) it only misplaces its own
characters and makes main skip a line break. All of these are reachable. No text
of the repository says otherwise, so they are not listed as findings. Neither is the
page fault of `gfx_init` with a frame buffer that is not a whole number of pages
(`vm.c:324`).

Seen while reading, without a run: `liballoc.h:62` promises `NULL` when no pages
are left, while `vm_alloc_kpages` stops the kernel; `pmm.c:56` compares a physical
with a virtual address.

## What is proved

For every value of the constants that satisfies the modules' `ASSUME`s:

* **Pmm** (`PmmProofs`). The inductive invariant is the conjunction of the type
  invariant, alignment, pairwise disjointness of all blocks, and coverage.
  Disjointness alone is not inductive: that the two halves of a block are apart
  from a block of another level needs alignment, and alignment needs the
  capacities to double. The lemmas say what `log2`, `mark_used`, `after_alloc` and
  `after_free` do to a set of blocks. That one frame is refused only when all are
  held follows from coverage.
* **PmmInit** (`PmmProofs`). With enough memory, every block handed out lies
  behind all bitsets and inside memory, and every bit used lies in its bitset
  (`AlwaysInMemory`). It follows from the type invariant and alignment of `Pmm` and
  from arithmetic: the length of a level is half that of the level below, because
  `n_frames` is rounded down to dwords of the top level; so level `i` begins
  `2 * len(0) - 2 * len(i)` dwords behind the image, which is also the witness that
  the recursive definition of `buddy_data` has a solution; and two bits per frame
  cover the sum. That part needs no assumption on the end of memory: `BitsetsAreSmall`
  says that no bitset ends 256 KiB or more behind the image (for 32-bit addresses),
  also where the subtractions wrap, because even then `n_frames` pages are less than
  the address space. The check at `pmm.c:56` cannot fail, as it compares with a virtual
  address; the theorem shows that it is not needed for an image that ends below
  7.7 MiB.
* **Sleep** (`InterruptProofs`, where it is the instance `Sleeping`; its `ASSUME` is a
  hypothesis of each theorem there). The invariant adds which steps run with interrupts
  off, that no handler is active there, and that a half of the clock once read is
  still current. From it follow `NeverTooEarly` and `DeadlineNotTorn` for every
  clock width, tick and duration, and every `Horizon`.
* **VmBuckets and VmSpace** (`OperatorProofs`, `VmBucketsProofs`). `VmBuckets`
  implements `VmSpace` (`BucketsImplementVmSpace`), for every size of the address
  space, every set of requests and every number of nodes per page: each call is one
  `Alloc`, one `Free` that keeps at most a page for nodes, or a `Halt`. On the way,
  each node is in exactly one list, the bucket list is sorted, without empty buckets
  and with nothing left to join, and every virtual page is in one place; and the
  assertion of `ll_append_notempty` fails only once the last page is in use
  (`AppendsFailOnlyAtTheEnd`), because a bucket behind the run stops the walk.

  A list is described by its rail, a function from `0..n+1` with the nodes in order
  at `1..n` and `NULL` at both ends; `Lists(v, n, c, m, d, out)` says that `c` and
  `d` are the rails of the two lists and that `out` are the nodes in neither. With
  rails a list operation becomes an insertion into or a deletion from a function,
  and no recursion over lists is needed: the walks of `vm_reserve_pages` and
  `vm_return_pages` stop at the least position with a property, which exists by
  well-foundedness of the naturals. Of the waiting list only `next` is asked,
  since `ll_pop_item` leaves a stale `prev`. A chain of merges in `vm_optimize` is
  two lemmas, one for the neighbour in front and one for the one behind.

  What these lemmas use of finite sets and of the naturals is the predicate
  `Counting`, a hypothesis of theirs. It is not assumed by any theorem:
  `VmBucketsProofs` and `VmProofs` prove it from the library (`CountingHolds`), after
  their lemmas and before their theorems, because the provers are slower with the
  library in scope. As `OperatorProofs` extends `Buddies`, so does `VmBucketsProofs`;
  the constants of the buddies do not occur in its theorems.

  The invariant `Inv` adds three things to the checked properties. The lists have
  rails and the buckets are apart; a returned run overlaps no bucket, without which
  the sorted insertion would not keep the order (this is `Conserved` of `VmSpace`,
  so the abstract invariant is needed to prove the concrete one); and the next slot
  to be cut in the steal area is no node yet, because the slots lie below the boot
  mapping or in pages that were free when they were taken. The assumption
  `StealPages + 1 < BootMapped` says that the steal area fits between the kernel's
  static node and the end of the boot mapping, as it does in `vm.c`.
* **Vm** (`VmProofs`). All properties of the run `vm`, of `SoundSpec`, for every size of
  the address space, of the boot mapping and the area stolen from it, of memory and of
  the frame buffer, every number of buddy levels and of nodes per page, and every set
  of requests. There is no further hypothesis.

  The argument keeps an account of frames. `Tidy` (in `OperatorProofs`) says that the
  free blocks of the buddies lie within memory and do not overlap, and `Offers(b, f)`
  that the frame `f` is in one of them. `pmm_alloc(1)` takes exactly one frame out of
  what is offered, although it may split blocks on several levels (`AllocTakesOne`),
  and `pmm_free` of a block that is not offered adds exactly its frames
  (`FreeGivesBlock`); which frame an allocation gets is left open, so nothing depends
  on the order in which runs come back. `Backing(b, pt, M, X, fb)` balances the
  account: every managed frame is offered, under exactly one page of `M`, or in `X`;
  the frame buffer is mapped to its own addresses, and no other page behind the boot
  mapping is mapped. `InStep(k, L, M, X, I, fb)` adds that the lists are those of the
  used pages `L` and that the pages `I` hold nodes. Between two calls `L` and `M` are
  the pages in use and `X` is empty; `VmInv` is that, with the runs of the callers
  apart from each other and from `I`. Inside `vm_free_kpages`, which unmaps, then
  changes the lists, then frees the frames, the run leaves `M` for `X`, then `L`, then
  `X`, and the page that `vm_kernel_stealmem` may allocate in between enters `L`, `M`
  and `I` at once. The loop of `vm_alloc_kpages` is an induction over its rounds, each
  of which moves one frame under one page (`RoundOne`).

  That the steps of `SoundSpec` are no faults is used where it matters and nowhere
  else: without `RunsOver` the new pages lie below the frame buffer, without
  `Overwrites` the lists are what `vm_reserve_pages` left, without `Strays` the frames
  in `X` are a block. The assumption that twice the managed area fits in the address
  space (`VmAssumption`; it is about a quarter of it) makes the page at `managed_end`
  a page of the first bucket that is always free, and keeps the assertion of
  `ll_append_notempty` out of reach.
* **Liballoc** (`LiballocTagProofs`, `LiballocProofs`). For all sizes of pages and
  tags, all exponents, limits and requests: blocks tile the runs, held blocks are
  apart and large enough, every free list is exact and linked both ways, and
  `l_completePages` counts the whole runs that stand by. `Sound(h, f, out)` is the
  invariant with some blocks `out` in the hands of `malloc` or `free`, and each C
  function keeps it: `remove_tag` and `insert_tag` move one tag between the lists
  and `out`; `melt_left` and `absorb_right` fuse two neighbours; `split_tag` divides
  one. The invariant between two calls is `Good`: `Sound` with nothing in hand, and
  the counters. It adds to the checked properties that runs are apart and any two
  blocks are, that `split_left` names a block whose `split_right` leads back, which
  fusing needs, that each list has a rail, and that every block is in a list, held
  or in hand. That no two neighbours are free is part of `RunsTiled` and of the
  invariant; because of it the loops of `free` end after one turn each. That `free`
  returns the very run that `allocate_new_tag` obtained is the lemma `WholeRun`. The
  counters need that a whole run in list `e` is counted at `e` both by `free`, which
  takes the exponent of the block, and by `malloc`, which takes that of the request.
  As above, the lemmas have what they use of finite sets and of the naturals as a
  hypothesis (`Counting` of `LiballocTagProofs`), and `LiballocProofs` proves it from
  the library before its theorems.
* **Serial** (`InterruptProofs`). That handlers are ready is about
  masks: a line that is unmasked has its handler and, for the port, the active port;
  and the line under service is unmasked, because only the main thread changes masks
  and it does not run then. That output is in order needs what is still to be written:
  the bytes that main or the echo have left fit behind those sent (`Fits`), and the
  next character of either has a higher number than all of its own before. The bound
  of two in the transmit queue needs that a test of main's is followed by at most one
  byte of an echo, since the echo waits for an empty queue before each of its own.
  `TypeCorrect` uses that bound: a queue of two or more (`SerialAssumption`; the UART
  has 16) never overflows.
* **Keyboard** (`KeyboardProofs`). The invariant for `AnswersMatched` follows the 17
  calls of `keyboard_init`: the configuration at each, what the input and output
  buffers can hold, and that no interrupt is pending between the second command and
  the last byte. That for `CursorOnScreen` says at which places a coordinate may be
  one too large and that one loaded to be incremented was on the screen; it needs what
  `tty_putchar` and `newline` do to the cursor, on a screen of any size. Both
  invariants, and those of `Serial`, were checked with TLC on the instances above.

Only model-checked:

* `SleepReturns`, `InputTakenUnlessStuck`, `KeysReported` and `ReturnsUnlessUnknown`
  (liveness under fairness is out of the prover's reach);
* `MarkUsedReturnsTheRest`, in which the recursion of `mark_used` is compared with
  its closed form, and what the conversions of `Printf` compute and `Console` shows:
  the prover cannot use `RECURSIVE` operators or induct over them.

## Not modelled

* Floating point and colours (`libmath`, `colors.cpp`): out of reach of TLC; the
  binary rounding of `%f` belongs here.
* PCI scanning, string functions and memory copies: sequential loops or single port
  accesses without state of their own.
* Boot code: its effect is in the initial states. `kernel_main`: the order of its
  calls is in the initial states and in `Serial`; its drawing loop is the caller of
  `sleep`.
* Exceptions other than the page fault of `gfx_init`, and spurious interrupts.
* `pmm_free` of more frames than twice the top level: `log2` then names a level that
  does not exist, and the effect is in the memory behind the array `buddies`.
  `pmm_alloc` of anything but a power of two, which nobody asks for. `calloc`, and heap
  sizes near 2^32.
* The TLB, see above.
* Proofs that would come next: the screen of `Console`.
