# A TLA+ model of the Alphix kernel

Alphix is a small x86-64 kernel in C: boot code that sets up tables, a heap, a
keyboard, a text console, a few interrupt handlers, a string library and a loop
that echoes keys. There are no threads. What makes it hard is that one thread of
kernel code shares plain `static` variables and I/O ports with interrupt handlers
that run between any two of its instructions, that its heap is used by callers
who trust it to keep their bytes apart, and that most of what the CPU is told
(page tables, descriptors, gates, stack frames) is data nobody checks.

The modules here are translated from the C and assembly sources. TLC checks
them on small instances; TLAPS proves the theorems in the `*Proofs` modules for
every value of the constants.

## The system

| part | source | state | operations | works with |
|---|---|---|---|---|
| kernel heap | `mem/heap.c` | `kernel_heap`, the block headers in the heap | `kmalloc`, `kmfree`, size functions, `heap_validate_integrity` | the string library (`malloc`, `mfree`) |
| keyboard ring buffer | `drivers/input/keyboard.c` | `kb_buf`, `kb_head`, `kb_tail` | `keyboard_buffer_push`, `keyboard_buffer_pop` | popped by `sys_read`; no code in the repository pushes |
| system calls | `cpu/syscall.c`, `cpu/isr.asm` | the register frame | `syscall_handler`, `sys_read`, `sys_write`, `sys_exit` | ring buffer, console, vector 0x80 |
| interrupt dispatch | `cpu/idt.c`, `cpu/pic.c`, `cpu/isr.asm` | `interrupt_handlers`, IDT, PIC masks | `isr_dispatch`, register, uninstall, EOI, `pic_remap`, `pic_set_mask` | every handler |
| key decoding | `cpu/cpu.c`, `cpu/kprintf.c`, `in/keys.h` | `shift`, `capslock`, `ctrl`, `alt` | `get_acsii_low/high`, the modifier switch | both keyboard handlers |
| kgetch | `cpu/kprintf.c`, `kernel/kernel.c` | `getch_end`, `getch_char` | `kgetch` (thread), `getch_handler` (IRQ 1) | vector 33, the loop of `kernel_main` |
| kscan | `cpu/kprintf.c`, `libc/string.c` | `kscan_buf`, `kscan_pos`, `enter` | `kscan` (thread), `kscan_handler` (IRQ 1) | vector 33, console; `kernel_main` does not call it |
| VGA console | `drivers/output/vga.c` | video memory, CRT cursor registers | `kputchar`, `scroll_line`, `kclear`, `get_cursor`, `set_cursor`, `kprintf` | printed to by the thread and by `kscan_handler` |
| APIC timer | `cpu/apic.c` | `blink_counter` | `apic_init`, `apic_handler` | the CRT ports of the console |
| string library | `libc/string.c` | `last_token` of `strtok` | `strtok`, `splitString`, `split`, conversions, comparisons, `memmove`, `strins`, ... | heap |
| formatting | `cpu/kprintf.c`, `drivers/output/vga.c`, `debug.c` | none | `kvprintf`, two `kprintf`, `qemu_debug_printf` | console, debug port |
| paging, GDT, TSS | `mem/paging.c`, `cpu/gdt.c`, `cpu/tss.c` | tables written once | `paging_init`, `gdt_init`, `tss_init` | the CPU |
| boot | `boot/boot.asm`, `kernel/kernel.c` | registers, first page tables, first GDT | `_start`, `kernel_main` | all of the above, in one order |
| user headers | `include/libc` | none | wrappers of system calls | nothing in the repository |

Where each part is hard, and what makes it correct:

* **Heap.** Only long sequences of legal calls reach the states that matter: a
  block that is too small to split, an expansion behind a free block, a merge on
  both sides. Correct means: the blocks tile the heap; links and counters say so;
  nobody's bytes contain a header or belong to somebody else; nothing leaks.
* **Ring buffer.** A pop is a comparison, a copy and an advance; pushes come
  between them. Correct means: a queue of `KB_BUF_SIZE - 1` characters.
* **System calls.** `sys_read` waits with `hlt` inside an interrupt gate, and the
  handler reads its arguments where the stub's pushes happen to have put them.
  Correct means: characters once, in order, in full; the call returns; the
  program gets its registers back.
* **Dispatch of IRQ 1.** The PIC is edge triggered, the controller raises no edge
  until port 0x60 has been read, and vector 33 has a handler only during a call.
  Correct means: every code gets one interrupt, and is read.
* **kgetch, kscan.** Handler and thread share flags without `volatile`; keys are
  handled between the end of the wait and the uninstall. Correct means: the call
  ends when it should and returns what was typed during it.
* **Console.** A cursor access is two port accesses, with interrupts enabled, and
  the timer handler uses the same ports. Correct means: the screen shows what was
  printed, however often the cursor blinks.
* **String library.** `strtok` keeps a pointer into a string it has cut up;
  `splitString` counts in one scan what it stores in another and has to undo half
  a result; the pure functions live at their edges. Correct means: tokens, words,
  digits and orders are those of the definitions.
* **Boot.** Fifteen calls depend on each other only by their order, keys are typed
  from the first one on, and paging is switched while it is in use. Correct means:
  when interrupts are enabled, everything the CPU looks up is there.

## Modules

```
Heap <- HeapWalk <- MCHeap                     Fifo (abstract queue)
HeapWalk <- HeapProofs <-------.                 ^ implements
Heap <- Split <---------.       \              KeyboardBuffer <- Syscall <- SyscallProofs
Text <- Format <---------+- Strings                              /
Text <- Strtok <--------'     ^ MCStrings              IsrFrame <-
          implements Tokenizer  ^ StringProofs <- FormatProofs

KeyboardIrq <- Keys <- Kgetch <- Boot <- MCBoot
                  \               |   ^ Tables
                   \              BootProofs
                    Kscan <- KscanProofs
                   /  implements LineEditor (abstract editor)
           Terminal <- Console <- ConsoleProofs
           Terminal <- TerminalProofs <- ConsoleProofs, KscanProofs
```
`A <- B` reads "B extends A".

**Heap.** `hdr` maps the address of each listed block to its header; `live` maps
each client to the allocation it holds. `KmallocFit`, `KmallocExpand`,
`KmallocGrowsAndFails` and `KmallocOutOfMemory` are the four ways through
`kmalloc`; `KmfreeMarked` and `KmfreeRejected` the two through `kmfree` with a
pointer that was allocated. `heap_split_block`, `heap_merge_adjacent_blocks` and
`heap_expand_heap` are functions of the header map. `WritePayload` is a client
using its memory: the headers inside it go to `clobbered`, after which nothing
is allocated or freed any more, since the code would act on destroyed headers.
`handedWhole` records that `kmalloc` once returned a block without splitting it.
**HeapWalk** runs the loops over the list as the code does, each a function of the
number of steps `current` has gone along the `next` links, and compares them with what `Heap` says of the set of blocks; it also has the size
functions and `heap_validate_integrity`.

**Split.** `splitString` and `split`, which are the same function, as clients of
the heap: the array of pointers is client 0, the words are clients 1, 2, ..., and
one more client is what else the program keeps. `AllocArray`, `AllocWord`,
`ReturnResult`, `NoWords` and the two `Unwind` actions are the call;
`ReleaseWord`, `ReleaseArray` and `UseHeap` the program around it. A behaviour
ends when two allocations overlap (`Overlap`): the program would then read
pointers that something else wrote.

**Strtok.** Strings are arrays with a NUL; `last_token` is a pointer into one of
them. A program has two strings, begins either one, in the middle of another or
anew, goes on with other delimiters, and asks for more tokens than there are.
**Tokenizer** is what it implements: a text from whose front tokens are taken.
The refinement maps the abstract rest to what `last_token` points to, so the NULs
that `strtok` writes must never show. **Text** holds the pure functions of
`string.c`; **Format** what `kvprintf`, the `kprintf` of `vga.c` and
`qemu_debug_printf` print and how many arguments they fetch: each is a turn of its
loop (`kvprintfTurn` ...), and `Printing` makes the turns. **Strings** is the
program that calls them: it scans, or splits, or makes one call and looks at its
result (`call`), which is compared with a definition that works differently: digits
are read back, orders are defined by the first difference, a directive is printed
from what C says of it. An argument is the slot of 8 bytes it is passed in: an `int`
is its lower half, and `Halves` is what callers leave in the upper one. `kvprintf`
fetches the whole slot (`LongArg`), the other two the lower half (`IntArg`).

**KeyboardBuffer.** Push is one step (it runs in an interrupt handler); pop is
three, at the points where an interrupt changes what it has read: the comparison
(`PopEmpty`, `PopNonEmpty`), the copy and the advance. **Fifo** is the queue it
implements: what pop takes is what was first in the queue when it advances.

**IsrFrame** is the stack frame: `PUSH_REGS` and `POP_REGS` as the orders in which
registers go to the stack, `cpu_registers_t` as the order in which C finds them,
and the stubs of exceptions with an error code, which pop that code into `rax`
before they save it. **Syscall** extends it and the buffer. `Int80` is the
program's instruction: an interrupt gate (type 0xEE), so it clears IF, which
`Return` restores. `syscall_handler` reads number, descriptor and count from the
frame and writes `rax` there. `Keyboard` is the handler that `keyboard.h`
describes and that the repository does not contain; it pushes while IF is set.
`DirectPop` is kernel code that pops by itself, with interrupts enabled, which
`keyboard.h` offers too. `Exception` is an exception that `isr_dispatch` has no
handler for.

**KeyboardIrq.** The controller's queue `port`, the PIC's `irr` and `inService`,
the table entry `handler` of vector 33, and where the CPU is (`context`): in the
thread, in a dispatch before the handler, or before the EOI. `unhandled` records
that a code was left behind: by `isr_dispatch` without a handler, or by `pic_remap`. **Keys**
adds the scan code tables and the modifier switch with which `getch_handler` and
`kscan_handler` both begin.

**Kgetch.** `pc` is the thread: `Reset`, `Register`, `Test`, `Uninstall`, `Load`,
and the loop of `kernel_main` around them, up to the `hlt` in `boot.asm` that 'q'
leads to. `Hoists` chooses between two builds: `getch_end` is not `volatile` and
the wait loop is empty, so a compiler may load it once. The Makefile's `-O2` build does.

**Boot** puts the way from `_start` in front of that loop: `step` is the place in
`Order`, the calls in the order of the sources, and each call is an action that
sets what it sets of the segment and table registers, the PIC, the masks and the
vectors; `tss_init` sets `rsp0` to the end of the 8192 bytes from `KernelStack`. The keyboard is there from the start; interrupts are taken only when IF
is set and the line is not masked. `Stop` is a check that fails, or a CPU that
faults. **Tables** has the contents: both sets of page tables and the CPU's walk
through them (`Translate`), the descriptors of `boot.asm`, `gdt.c` and `tss.c` and
the gates of `idt.c` with the bits the CPU reads. `MCBoot` chooses addresses
whose bytes or words all differ, so that a swap shows.

**Terminal** is `kputchar` as a function of the screen, with offsets that wrap at
16 bits; before `kclear` it holds whatever the firmware left (`PowerOn`). **Console** is the same code port access by port access, with
`apic_handler` between any two; `ideal` is the screen `Terminal` computes, and
`hit` records that a timer interrupt came between the select of the cursor's high
byte and the access that follows.

**Kscan.** `kscan_buf` is an array of chars that ends at its first NUL, edited by
`strins`, `memmove` and the terminators as the code does it, and drawn through
`Terminal`. The thread is `Begin`, `While`, `Register`, `If`, `Uninstall`,
`Result`, which prints the line once more. Drawing is atomic here because the handler
runs with interrupts off. `BufSize` is 512 in the code, which never looks whether
another char fits: `CharOverruns` is the insertion that writes behind the buffer, into
whatever variable is there, and ends the behaviour (`overrun`).
**LineEditor** is what it implements: a text before the cursor, one behind it.

Definitions named `<operation>_<what>` and marked "Variant" are the same
operation with a bug; no run uses them. They show that a property can fail.
Characters are one-letter strings in the keyboard and console modules (newline,
backspace and tab are "NL", "BS" and "TAB", the char 0 is ""), and codes in the
string modules.

## Runs

| run | module | result | what it shows |
|---|---|---|---|
| `heap_core` | MCHeap | holds | Tiling, counters, walks, size functions and the integrity check; exclusive, marked, leak-free blocks as long as every block was split off; two adjacent free blocks arise only by growth; small requests are served while the heap can grow. |
| `heap_headers` | MCHeap | violated | `HeadersIntact`: two clients get the same block and one destroys a header with its own bytes. |
| `syscall` | Syscall | holds | Pushes anywhere in a pop leave the ring a queue; `sys_read` and direct pops deliver in order, once; a read returns in full, and does return if enough characters wait; the program's registers survive calls, interrupts and exceptions (but for `rax` at the error-code stubs). |
| `syscall_hang` | Syscall | violated | `ReadReturns`: a read that has to wait never wakes. |
| `kgetch` | MCBoot | holds | From power-on into the loop, with `getch_end` loaded each time round: interrupts are enabled over valid tables and known sources only, switching page tables moves no page, every dispatch has its code, the keyboard is silent only over a code left behind, modifiers follow their keys, the right char, the end of the wait, all codes read. |
| `kgetch_hoisted` | Kgetch | violated | `AcceptedKeyEndsCall` in the build that loads `getch_end` once. |
| `kgetch_deaf` | Kgetch | violated | `PressEndsCall`: a key between two calls silences the keyboard. |
| `kscan` | Kscan | holds | The buffer is a line editor's; the typed line is returned unless a key came late; Enter ends the call; the screen shows the line until an arrow, a late key or the end of the window comes between them. |
| `console` | Console | holds | `kputchar` is a terminal's while the window has room and a scroll repeats the first row; behind the ends of the window everything is lost until backspaces lead back to its end; timer interrupts are harmless except behind the select of the high byte. |
| `console_torn` | Console | violated | `BlinkingIsHarmless`: there they are not. |
| `strings` | MCStrings | holds | Tokens of interleaved scans; words of a split, none stored behind their array, or everything freed; numbers, comparisons and `memmove` as defined; `kvprintf` prints the number it receives as C does or in its own way, and gives a directive it does not know no argument. |
| `kprintf_stack` | MCStrings | violated | `PrintsItsArguments`: the linked `kprintf` prints what its caller's stack holds. |

### What the violated runs say about the code

* `heap_headers`: `heap_split_block` returns early, without `used = 1`, when less
  than 64 bytes would remain (`heap.c:63`). The next `kmalloc` finds the block
  free. `kmfree` takes the first release for a double free (`heap.c:193`).
* `syscall_hang`: `hlt` with IF clear (`syscall.c:20`).
* `kgetch_hoisted`: the compiled loop jumps to itself (`kprintf.c:418`).
* `kgetch_deaf`: `kernel_main` prints between two calls, with no handler for
  vector 33. A key then gets its EOI but port 0x60 is not read (`idt.c:49`).
* `console_torn`: `apic_handler` leaves the index register at 15; a thread that
  had selected 14 reads or writes the low byte twice (`vga.c:88`, `:98`).
* `kprintf_stack`: `kprintf` is defined in `kprintf.c` and in `vga.c`, the linker
  may pick one (`--allow-multiple-definition`), and the one of `vga.c` walks the
  stack from the address of its own parameter (`vga.c:234`), where the x86-64
  calling convention puts nothing.

Further observations that have no run of their own:

* Keyboard: `kscan`'s arrows move `kscan_pos` and not the cursor, while a backspace
  redraws from the cursor, so that after an arrow key the second backspace draws
  the line in the wrong place (`ShownUnlessAstray` states when it is right, and from
  when on it is right again, and `KscanShows` proves it). The codes of F11 and F12
  (0x85, 0x86) have the release bit set, so `getch_handler` drops them although its
  switch names them; the chars 59 to 70 it stores for F1
  to F12 are also those of `;` to `F`. One variable serves both shift keys, so
  `ModifiersTrackKeys` fails once both are typed (the `kgetch` run types one).
  Caps Lock toggles again with every repeat while it is held.
* kscan: nothing asks whether another char fits. The 512th char of a line goes into
  the last byte of `kscan_buf` and its NUL behind it (`kprintf.c:267`, `string.c:581`;
  `CharOverruns`). In the image that comes with the repository the variable there is
  `enter`: this NUL clears a flag that is 0, and the next char sets it to a value the
  wait loop does not know.
* Interrupts: the keyboard's line is never unmasked by the kernel, which lives by
  the mask the firmware left (`CodesAreRead` says so). A key typed before
  `pic_remap` is forgotten with its request and blocks the port. An exception has
  no handler, and unless it is a trap its instruction is run again for ever.
  The stubs of exceptions with an error code lose `rax` (`isr.asm:69`).
* Boot: `kernel.c:52` and `paging.h:23` say that 1 GB is mapped, `paging.c` maps 4.
  The first tables use pages of 1 GiB without asking CPUID for them.
* Heap: `heap_expand_heap` does not count the header, so a request just below a
  multiple of the expansion grows the heap and still fails (`KmallocGrowsAndFails`).
* Console: `kputchar` writes behind the window when it is full, at the offset it
  read before `scroll_line`, and what follows is lost as well, until backspaces lead
  the cursor back to the end, where the window is found full and scrolled once
  more; `scroll_line` copies rows downwards, so all become the first; a backspace at the start of the window wraps behind its end.
  `get_cursor_x` gives bytes where `set_cursor_x` takes cells.
* Strings: a string without words makes `splitString` ask for 0 bytes and return
  NULL as if memory had run out. `contain` never advances. The negative of the
  least `int` is not an `int`, so the conversions have no answer for it. `istrncmp`
  takes '@' and '`' for one letter; `strcmp` compares signed chars, `strncmp`
  unsigned ones.
* Formatting: `kvprintf` fetches a `long` for `%d`, `%u` and `%x` without an 'l'
  (`kprintf.c:56`, `:80`, `:99`), so a negative `int` that its caller passes with
  zeros in the upper half, as compilers for x86-64 do, is printed as a large number
  (`Received`). It counts the sign as a digit and puts zeros in front of it, does not
  let a precision turn the zeros off, and prints 0 with precision 0 (`OwnField`). It
  knows one flag in the order "0-" and one 'l': after "ll", as in the "%llx" of
  `heap.c:34`, after "z" (`heap.c:145`) or at the '-' of "0-" it prints what it has
  not read and gives the argument to the next directive (`UnknownTakesNothing`). A format that ends in
  '%' is read on behind its NUL. `idt.c:41` prints with "%08X", which
  `qemu_debug_printf` does not have, so the address is not printed. In the linked
  image nothing calls `kvprintf`.

### Bounds

* Heap: three clients, one allocation each, requests of 8, 100 and 136 bytes,
  320 bytes that grow to 640, expansions of at least 160. The sizes are chosen so
  that blocks are split, returned whole and too small; merged with either or both
  neighbours; and the heap grows, grows in vain and is full. `UsedCap` bounds
  `used_blocks`, which only rises once blocks are handed out twice. Clients are
  symmetric: no run with symmetry checks liveness.
* Syscall: 3 slots, so the ring fills and wraps; 4 arrivals of two characters;
  reads of up to 2. The registers of the program begin with different values.
* KeyboardIrq: `MaxEvents` presses, repeats and releases (5 in `kgetch`, 4 in
  `kscan`). That is enough for a key before, between and after the steps that end a
  call and for the release of a modifier; q, Ctrl, A and Shift give an ending,
  modifiers and chars. The proofs have no such bound.
* Boot: the firmware left no line masked, or the keyboard's among others; nine
  pages at the ends of the first, second and last GiB and where the screen and the
  APIC are. `BootProofs` has every mask, page and address.
* Console: a 2 x 3 window, so that a scroll has a middle row, and 6-valued bytes,
  so that positions need both bytes and wrap; 5 characters, among them newline and
  backspace: the window fills, scrolls and is left at both ends. The timer blinks
  every second time.
* Kscan: a 3 x 2 window, which the prompt and the bounded lines fill and scroll, and a
  buffer of 4 with 4 events, so that lines reach its last byte and go behind
  it, where a behaviour ends.
* Strings: two strings of up to three characters, two of them delimiters, and two
  sets of delimiters; numbers from -130 to 300, which crosses each change in the
  number of digits that has a sign or a power of ten; words of up to two of six
  characters around the edges of the case range and above 127; five bytes of
  memory for `memmove`, with every overlap; every combination of one flag or two,
  width, precision, length and conversion, on numbers that have a sign, are zero,
  or have up to four digits, in slots whose upper half is 0, 1 or all ones. An `int`
  has 512 values and a `long` 512 * 512: TLC's own integers end at 32 bits, the
  numbers cross the sign of the smaller `int`, and the theorem has every multiple of 256.
  Splits: every string of up to four characters with up to two words (a "c" stands
  for 40 characters, so that a word can be refused while a smaller block is left),
  on 320 bytes that grow to 480, beside one other allocation.

### Fairness

`Spec` alone never assumes that anything happens. `FairSpec` adds weak fairness of
what the CPU executes: the dispatch of an interrupt (`isr_dispatch`) and the
thread (`kernel_main`, `kscan`, `sys_read`); `BootFairSpec` the calls of the boot
and the dispatch where IF and the masks allow it. A running CPU executes the next
instruction; a pending, enabled interrupt is taken at an instruction boundary.
Only in `Syscall`, where the subject is whether a waiting read returns, does
`FairSpec` also let keys keep arriving (up to the bound). Nothing else assumes
that the user types or that the timer ticks. Deadlock is not checked where the
system may stop: a check of the boot fails, `kernel_main` ends at 'q', `sys_exit`
halts, and the bounds on events, arrivals and printed characters end a behaviour.

## Theorems

**HeapProofs** (any number of clients, any sizes, any heap): `HeapTypes`,
`HeapStaysTiled`, `HeapExclusive`, `HeapUsedExact`, `HeapServesSmallRequests`,
`HeapFragments`, `HeapListFunctions`.
The inductive invariant is
`TypeOK /\ HeapTiled /\ UsedCovered /\ ExclusiveUntilHandedWhole /\ UsedBlocksExact`.
Tiling is needed to see that a split or a merge touches only the neighbours its
links name; `UsedCovered` (`used_blocks` is at least the number of blocks marked
used, also after a block was handed out whole) keeps the counter from going below zero.
The list operations have lemmas of their own: `SplitAt`, `Absorb` and
`heap_expand_heap` each map a tiled list to a tiled list and change its number of
blocks by one. `HeapListFunctions` (`ListFunctionsAgree`) goes along the list: in a
tiled heap `current` after k steps is the k-th block in address order (`Ascends`), so
the walk ends behind the last one (`ListWalked`) and finds the lowest fit
(`WalkFindsLowest`); the sizes are sums over a finite set, which the sum over one
block fewer determines (`Sums`, `Shrinks`), and the blocks up to each address
reach exactly to its end (`SizesAddUp`). `HeapFragments` (two adjacent free blocks arise only where the heap
was expanded) counts the pairs of adjacent free blocks: marking a block free adds a
pair for each free neighbour and the merge ends one for each neighbour it joins,
while a split trades a block for its rest. Assumed: `HeapAssumption`.

**StringProofs** (any requests, strings, words and texts). The heap's clients:
`SplitUsesHeap` (every behaviour of `Split` is one of `Heap`, so the theorems above
hold for it). `SplitStoresFitArray`, `SplitReturnsWords` and
`SplitFailureFreesAll` need `CallInv`, which says what the call holds at each place
in it, and that the first scan counts exactly the words the second stores
(`CountWords`); `LibrarySplits` carries `SplitUsesHeap` over to the library. `strtok`:
`StrtokTokensStay` from `TokensInv`, by which every token held ends before the saved
pointer if that is in its string, and `StrtokImplementsTokenizer` from it and
`HoldTexts`, by which a string that was cut holds one of the texts; both under
`StrtokAssumption`. The functions: `MovesAtOnce`, where `SafeOrder` says
that the order of `memmove`'s loop reads every byte before it is overwritten, and
`ComparisonsRight`, where each loop is reduced to the first position that decides
(`Decision`). `NumbersRight` goes by the quotients of the number: `Quotients` says what
is left after k digits have been taken off, `LowFirstIs` and `LeftIs` that both loops
store their remainders, `NumDigitsIs` that the loop that counts goes as often, and
`ReadBack` that reading the digits from the highest on goes through the same
quotients backwards. It assumes that a number is between -2147483647 and 2147483647
(`StringsAssumption`): the functions negate a negative `int`, which the least one does
not survive.

**FormatProofs** (any number but the least `int`, any multiple of 256 as the range of
an `int`, anything in the upper half of its slot, any of the flags, widths,
precisions, modifiers and conversions in `Directives` that `kvprintf` knows):
`FormatsRight`. What a loop prints is the last state of a run (`Runs`): the turns the
loop makes are one after the other those of the proof, and there are no more.
`FormatIs` says what stands where in the format, `DirectiveRead` that the parser reads
back the parts it was written from, wherever they stand, and so where the next turn
begins; `NumberFrom` does so for a width or a precision. Each field is then compared
with C's: `BetweenIs` the padding, `NumberFieldIs` a number with sign, precision and
zeros, `PlainText` and `UpperIs` a bare directive. The number in the field is the one
`Received` makes of the slot: the value that was passed for a `long`, and for an `int`
only when its upper half is that of the `long`; nothing assumes that it is. Where
`OwnWay` holds, the text is `OwnField`. The slot of the least `long`, which has no
negative, is not among the `Slots`. At the debug port, text without a newline goes out
as it is (`LinelessText`), and there is none in the digits of a number.
`UnknownTakesNothing` is model-checked only.

**SyscallProofs** (any buffer of at least two slots, any arrivals, counts of any
size). For the buffer on its own, `BufferConsistent` and `BufferImplementsFifo`: the
invariant `BufferInv` is the type invariant with `PopUndisturbed`, that the slot a pop
has copied from is still waiting and still holds what was copied; the refinement then
follows action by action. `SyscallBufferConsistent` and `SyscallImplementsFifo` carry
both over, since each step of the system is one of the buffer or leaves it alone.
`SyscallReadsInOrder` needs what a push, a copy and an advance do to the sequence
of waiting characters; its invariant `OrderInv` is `BufferInv` with the property
itself and the types of the two histories. For `SyscallKeepsRegisters` and
`SyscallReadNeverShort`, `GateInv` says that IF is clear outside the program, so
nothing changes the registers under a call; `FrameInv` that the frame is the one
`Int80` built; and the lemmas about `Enter` and `Leave` that the slot a register
is pushed to is the one it is popped from and the one C reads, which is where the
orders of the pushes, the pops and the struct come together.

**BootProofs**, the loop of `kgetch` (any keys, any number of events, both builds): `KgetchTypes`;
`KgetchIrqsMatchCodes` from the invariant `IrqInv`, which says that a request or a
dispatch means a waiting code and that waiting codes have one of the two unless a
code was left behind; `KgetchReturnsOwnKey` from `CharInv`, which ties `getch_end` and
`getch_char` to the chars accepted since the reset; and `KgetchModifiersTrackKeys`,
for any keys with at most one of the two shift keys among them. Its invariant
says that the modifiers, once the codes that still wait have been applied to them,
are as the keys are; the proof goes by the last code of each key in the port.

**BootProofs**, the boot (any page below 4 GiB, any address of the TSS and the
stubs, any firmware masks): `IdentityMapped`, arithmetic over both sets of tables, and
`BootMappingStays` from it; `BootOnlyKnownSources` and `BootTablesValid` from
`BootInv`, which says for each place in `Order` what the registers hold, and from
the bits of each descriptor and gate; `BootIrqsMatchCodes` and
`BootModifiersTrackKeys` carry the theorems about `Kgetch` over to the system from
power-on, each of whose steps is one of `Kgetch`, leaves the interrupts alone, or
is `pic_remap`.

**TerminalProofs** (any window, any text, any even number of values in a byte) has
the lemmas that `ConsoleProofs` and `KscanProofs` share: the arithmetic of byte offsets
and positions; what a scroll leaves, in closed form (each row but the last becomes a
copy of the first); that printing, a fold, goes character by character (`KprintSteps`,
the function the fold chooses exists for every text); and what plain text, a newline
and a clear window become. It has no theorem of its own.

**ConsoleProofs** (any window, any text, any even number of values in a byte, any
blink interval, any number of characters): `ConsoleTypes` and `ConsoleHarmless`. The
invariant reads the list of calls that wait as a function of the screen (`Run`) and
says that, as long as no interrupt hit, running it makes of the screen the one that
is due (`ideal`), that the accesses made so far of the call under way went where they
should, and that the offset is the cursor's whenever the next call uses it. Two parts
carry the proof: the arithmetic of a position in two registers (`Split`, `Join`: the
timer's get and set leave a position the program wrote as it was, which needs the high
byte below half its range and so an even `Byte`), and `PutCalls`, that the calls
`kputchar` is made of do together what `Terminal`'s `kputchar` does. `ConsolePrints`
and `ConsoleLoses` follow from what a run of `ideal` does: a print with room, a
scroll, and a backspace change one cell or one row of the due screen each. The
attempt to prove `LostBehindEnds` as it was first stated failed: a backspace at the
cell behind the window's end finds the window full and scrolls it, four characters
further than the run prints. The property now says so.

**KscanProofs** (any keys, any number of events, any window, a buffer of any size):
`KscanTypes`, `KscanImplementsEditor`, `KscanReturnsTypedLine`, `KscanShows`.
`LineInv` says that `kscan_buf` holds a string with its NUL and that `kscan_pos` lies
in it, for a buffer of any size: `CharKey` has asked for room, and the step that has
none changes neither; lemmas about `strins`, the `memmove` and the arrows then give
what each key does to the text before and behind the position, and each step is one of
`LineEditor` or leaves it alone.
`CallInv` says that the line is the one Enter was pressed on until
a key is handled after it. For the screen, `DrawInv` says that while the line is edited
the cells from `origin` on are those of `kscan_buf`, the cursor is behind the last
(`Drawn`), and the rest of the window is clear, and that between two lines the window
is clear behind the cursor: the redraw of a backspace overwrites its last character
with the terminator, a scroll clears the row it comes to, and `PlainKeys` (read off the
two tables) says that no key but Enter stands for a character that moves the cursor
elsewhere. `Drawn` needs the window clear behind the line because the property
speaks of the cell under the cursor.

The assumptions are those the modules state about their constants, and, for the
two theorems about modifiers, `OneShiftKey`. Where a definition recurs over its data
(a fold, a loop), the proof names the function it computes in closed form and takes
the least index at which the two could differ; no induction theorem is cited.

Proved and in no run: the types of `Console` (`ConsoleTypes`).

Only model-checked: liveness (`AcceptedKeyEndsCall`, `CodesAreRead`,
`ReadOfWaitingReturns`, `EnterEndsCall`), which is out of TLAPS's reach, and
`UnknownTakesNothing`.

## Not modelled

* Output without state: `heap_print_info`, `parse_multiboot2` (a step without
  effect), the code page table of `termfont8x8.h` and the wording of messages.
* Functions of `string.c` that no code in the repository calls and that keep no
  state (`strncpy`, `strcat`, `strncat`, `strrchr`, `join`, `startsWith`,
  `clearString`, `contain`, `memset`), `ftos` and the `%f` of `vga.c`'s `kprintf`
  (floating point), and the coordinate functions `get_cursor_x/y`, `set_cursor_x/y`.
* The EOI of the second PIC (all its lines are masked), `pic_clear_mask` (nothing
  calls it), the divider and counter registers of the timer.
* The user headers under `include/libc`: nothing uses them.
* `kmfree` with a pointer that was never allocated and the magic numbers it would
  find there: no caller in the repository does that. What happens
  after `kscan_buf` was overrun: it depends on the linker.
* The conversions of the least `int`, whose negation overflows.

## Plan

Done, in this order: Heap, Split and their proofs; the ring buffer, its abstraction
and proofs; Syscall; KeyboardIrq, Keys, Kgetch and proofs; Terminal and Console;
Kscan and LineEditor; the edges of the window; Strtok and Tokenizer, Text, Format
and Strings; IsrFrame and the system calls over it; Tables and Boot; the proofs of
Syscall, Boot, the modifiers, Console, Kscan, Split, Strtok and the functions of
Strings; the walks over the heap's list, the conversions of numbers and the formats.
