# PDP9X: a TLA+ model of the machine and its software

PDP9X is an 18-bit accumulator machine in the PDP-9 tradition. The repository
holds an instruction-level interpreter (`sim.py`), a microprogram with a
cycle-level engine (`ucode.py`), the same control store in Verilog (`rtl/`), a
device model (`machine.py`), the definition of its assembler (`gen_casm.py`), and
software written for the machine: a console driver (`asm/driver.s`), an
arithmetic library (`asm/arithlib.s`) and a FOCAL interpreter (`asm/focal.s`)
with a compiler for programs assembled in (`mkprog.py`).

What makes it hard is that nothing in it waits for anything else. An interrupt
may fall between any two instructions, or in the middle of a microprogrammed
fetch; handlers and the program they break into share one stack, two
accumulators and some words of the zero page; a blitter and a timer keep their
own time; and the same rules are written down twice, in Python and in assembly or
microcode. The unit tests (`run.py`) and the benchmarks (`bench.py`) run one
schedule of each. The specifications here run all of them, on small instances,
and the proofs cover every size.

## 1. Inventory

| Component | State | Operations | Talks to | What is hard |
|---|---|---|---|---|
| CPU interpreter, `sim.py` | AC, IX, L, PC, SP, I, memory, requests, mask, waiting, halted | one `step` per instruction, `check_irq`, `run` | memory, devices (`io`) | where an interrupt lands; one stack for calls, pushes and entries; SP wraps in its page; WAIT against mask and I |
| Microcode and engine, `ucode.py` | the same registers, IR, mask walk, DI, DO, AR, page latch, microaddress | one `cycle` | memory, devices | the fetch that also finishes the previous instruction; the interrupt noticed in it; the word order of push and pop |
| RTL, `rtl/pdp9x.v` | as the engine | one clock | memory | agreement with the engine |
| Devices, `machine.py` | framebuffer, scroll end, drawing end, timer count, armed, request, keyboard latches, flag, scanning | `tick`, `rd`, `wr`, `io`, `do_scroll`, `feed_keyboard` | CPU (requests); memory accesses advance the clock, other cycles do not | a write during a scroll or too soon after another vanishes; a keystroke is frozen until acknowledged |
| Console driver, `asm/driver.s`, `driver2.s`, draft and reference in `model.py` | LINE, INDX, BUSY, BUF/BUFP/CAP, SCR/NPEND/IDXT, CHR | PUTC, NEWL, DONE, WAITRDY, CLS | blitter, timer; mainline and handler share all of it | the handler lands inside PUTC; the replay runs PUTC itself |
| Keyboard path, `asm/focal.s` KBDISR, GETK, RDLINE, ASK, STEP | KQ, KQI, KQO, BRK, the mask bit | KBDISR, GETK, prompt loop | keyboard device | queue full, masking and unmasking, the look-then-wait of GETK, BRK seen late |
| FOCAL storage, `asm/focal.s` STORE, TDEL, TINS, HCARVE, SALLOC, SFREE, SGROW | text end, heap bottom, free lists, variable blocks | insert and delete a line, carve, allocate, free, grow | every command | text and heap collide; an address kept over a move; half-done updates |
| FOCAL control flow and evaluator, `asm/focal.s` CMDL, RUN, STEP, BODY | TXTP, IX, INPROG, DORF, FCUR, FLIM, FBODY, hardware stack | DO, GOTO, IF, FOR, RETURN, QUIT, EVAL, ERROR | storage, keyboard, console | leaving a DO or a FOR other than by its end |
| Arithmetic library, `asm/arithlib.s` | MRES, MREM, the pair, the digit buffer | MUL, MULS36, DIV, DIV36, DIVS36, ISQRT, DEC, DEC36 | evaluator | signs, zero, the most negative word, carries between halves |
| Line compiler, `asm/focal.s` COMP, WRITE, and `mkprog.py` | CTGT, CPQ, CDEP, the line | compile, list | storage | one set of rules written twice and inverted once, by counters and flags |
| Assembler definition, `gen_casm.py` | none at run time | text to words | interpreter and microcode, which decode them | three tables of the same encoding |
| Tests, benchmarks, samples, schematic | none | | | not part of the machine |

What makes each correct:

- **CPU**: an interrupt is invisible to the program it breaks into; every return
  finds its own call; a WAIT ends when any device asks; the first device is
  never starved; addresses and SP keep their ranges.
- **Microcode**: seen at instruction boundaries it is the CPU; every fetch finds
  AR equal to PC; every request is answered.
- **Devices and console**: what is printed appears once, in order, through any
  number of scrolls, no write is swallowed, the timer ends after the blitter,
  the handler never blocks, and a program that prints ends.
- **Keyboard**: nothing dropped, nothing duplicated, nothing reordered; masking
  never deadlocks with the reader; control C reaches the program it is meant for.
- **Storage**: text and heap never overlap, every word of the heap has one owner,
  no command disturbs a line or a string that is not its own.
- **Control flow**: the statements are done that the program's meaning asks for,
  in that order; the stack is balanced at every prompt; every line ends.
- **Arithmetic**: each routine computes its mathematical definition modulo its
  width, and refuses what the code says it refuses.
- **Line compiler**: both compilers make the same words, and WRITE gives back
  what was typed.
- **Encoding**: what is assembled is what is executed, on either machine.

## 2. Modules

| Module | Models | Composition |
|---|---|---|
| `Words` | words, addresses, decoded instructions, ALU, group 1, stack steps | used by all CPU modules |
| `Isa` | the instruction set: `CPU.step`, interrupt entry, WAIT | EXTENDS `Words` |
| `Sim` | `CPU.run`: when an interrupt is taken, with the history that states transparency | EXTENDS `Isa` |
| `Micro` | `ucode.py`: every microword and `Micro.cycle` | EXTENDS `Words`; implements `Isa` (INSTANCE with `arch`) |
| `Keyboard` | keyboard device, KBDISR, queue, GETK and its callers | own |
| `Console` | the unbuffered console, `reference` in `model.py` | abstract |
| `Driver` | `driver.s` with blitter, timer and framebuffer | implements `Console` (INSTANCE) |
| `Workspace` | what the arena holds for its user: lines by number, strings by name | abstract |
| `Arena` | FOCAL storage: program text, heap, descriptors, bodies, free lists | implements `Workspace` (INSTANCE), command by command |
| `Devices` | `machine.py` with its clock, a cycle at a time | EXTENDED by the programs on it |
| `Terminal` | FOCAL's console with its keyboard handler, the driver with its timer handler, a sleeping program | EXTENDS `Devices` |
| `Flow` | RUN, STEP, BODY and the commands that move the text pointer | own |
| `Script` | what those commands mean, with no pointer and no stack | abstract; EXTENDS `Flow` |
| `Lines` | COMP and WRITE as a machine, `compile_line` as a definition | own |
| `Arith` | `arithlib.s` | own |
| `Encoding` | `gen_casm.py`, the decoding of `sim.py`, the map ROMs of `ucode.py` | uses `Words` (INSTANCE) |
| `MC*` | the instances TLC runs | EXTEND the above |
| `Isa_proofs`, `Micro_proofs`, `Keyboard_proofs`, `Driver_proofs`, `Terminal_proofs`, `Flow_proofs`, `Arith_proofs`, `Arena_proofs` | theorems | EXTEND the component and TLAPS; `Isa_proofs` also `Encoding` |

### Words, Isa, Sim

An instruction is a record, as decoded by `CPU.step`, so that programs are sets
of functions from addresses to instructions; data words are integers. Word and
address sizes are constants: `AddrMod` addresses, `PageSize` words to a page,
and a word one bit wider than an address (18 and 17 bits in the code), so that
L rides above the address in the pushed return word as it does in `push_lpc`.
`Isa` has one action per instruction class (`Arith`, `Deposit`, `Compare`,
`Call`, `Jump`, `Count`, `MaskIo`, `SkipIo`, `WaitIo`, `Ack`, `Operate`,
`SkipOn`, `Push`, `Pop`), plus `Accept`, `Wake` and `Raise`. It leaves open when
an interrupt is taken; `Sim` takes it where `run` does, before each instruction
and lowest device first. Program memory is separate from data memory: no program
in the repository modifies itself, and the model's programs do not either.

`Sim` keeps two history variables: `frozen`, the state each interrupted program
was left in, and `calls`, the link words not yet returned to.

### Micro

One `Cycle` is one `Micro.cycle`, in the order of the code: memory, I/O, data
out, registers, flags, address mux, load of IR, sequencer. The control store is
a function from labels to sequences of microwords, written as the fields each
word sets; the two map ROMs are `Map1`, `Map2`, and the push and pop walk is
`MaskEntry`. `arch` is what an observer of the instruction set sees: it follows
the registers in every fetch that completes an instruction (and at I/O cycles),
and `ISA!Spec` with `arch` for the registers is the refinement (`ImplementsIsa`).
It fails in three places, each an action over what `Isa` sees: `LosesSkip`,
`AcceptsLate` and `PassesMask`. `PartsNowhereElse` is the refinement with these
added to `Isa`'s actions. The engine has no interrupt mask (`ucode.py` leaves
device 0's mask operations to a device model, which is why it passes over them),
so it is refined with the mask all ones; `MaskAssumption` says that all ones has
a bit for every device.

### Keyboard

The handler runs with interrupts off and is one action (`KBDISR`, with the
alternatives `KBRK`, `KDONE1`, `KFULL`); GETK is cut at every instruction that
touches what the handler touches. What RDLINE, a command or a program does with
a character depends on what was typed and is left open. The n-th character typed
is the number n, so loss, repetition and order are visible. `batch` chooses
between an interpreter with a prompt and one with a program assembled in, which
stops at an error (ERROR, `focal.s`).

### Console, Driver

The mainline prints characters and newlines in any order, at any time, no line
longer than a row (the driver does not wrap), and stops. PUTC and NEWL are cut
at each read or write of BUSY, CAP, BUFP and BUF; PCBUF is one action per
shared access (`LoadPlace`, `StoreChar`, `StepPlace`, `TakeRoom`). `DONE` is the
scroll-done handler up to the replay, one `FEED` is one replayed character, and
`RPDONE` the return; ticks of the blitter and the timer come between any two
steps, in the handler as well. `Unbuffered` is `Console` with a row the
handler is about to blank counted as blank.

`model.py` also holds a class `Console`, a pseudocode draft of an earlier
driver with a 32-character queue. The assembly is what runs and is modelled; the
draft is not.

### Workspace, Arena

Lines, blocks and free bodies are found by what the words of the arena hold, so
`mem` is the arena word by word, and the helpers are the routines: `TLEN`,
`TNEXT` (TNUM), `LFIND`, `TDEL`, `TINS` over the text, `HCARVE`, `VLOOK`,
`VDESC`, `SALLOC`, `SFREE`, `VBODY`, `SGROW`, `SDEST` over a record with the heap
in the middle of a command. No handler touches the arena, so each action is one
whole command: `STORE`, `DECLAR`, `SETSL` (a literal), `SETSV` (another string),
`SETSN` (a number spelled out), `ASKSTR`, `DOERAS`. A command refused with `?S`
keeps what it had done. `Held` reads the arena back the way the interpreter
does: lines by their lengths, strings through their descriptors.

Three things end a behaviour, with the reason in `spoilt`, because afterwards
the code itself no longer tells its data apart: text and heap meeting exactly
(the text's zero is then the first word of the heap), an ERASE while a free body
is linked (`FL8` is not reset), an answer longer than its body (`arena_ask`).
Arrays, numbers and strings read inside expressions are not in the model; a name
is a string once declared.

### Devices, Terminal

`machine.py` has two clocks, and the difference is the model's subject: every
cycle counts for the blitter and for the eight cycles a cell takes to draw, but
only the cycles of a memory access pass through `tick`, so taken branches, skips
and a WAIT do not move the timer. `Ticks` and `Branches` give both costs for each
kind of instruction; `Spend`, `Write`, `Scroll`, `LoadTimer`, `ArmTimer`,
`AckTimer`, `AckKey` and `Stall` are the device operations, each with the
instructions before it. Deadlines are kept as the time still to go.

`Terminal` writes three programs as paths of instructions between device
operations. `focal` is PUTC, PNL and SCRL, which ask the blitter themselves, and
KBDISR up to the character it makes of the two registers (KRAW, then KMOD).
`driver` is the driver's code again, this time for its timing: what the queue
holds is `Driver`'s subject, here its length is enough. `sleeper` arms the timer
and waits. A handler may come between any two actions, and whatever stands
before a framebuffer write is an action of its own, so a handler may come right
before the write. `ScrollAssumption`: a scroll is a whole number of the timer's
units, as 7680 cycles are thirty of 256.

### Flow, Script

A command is a record that keeps what it does to the text pointer and not what
it computes; SET, TYPE and the like are one command `x`, an expression that
fails is `fail`, and IF takes an arm the program names. The stack is a sequence
of return points and of the words DO and the group walk keep, its top first:
BODY calls a command, DO calls STEP, FOR calls BODY, and `DODOD`, `DOGRPN`,
`FORN` are the returns. `batch` distinguishes a program assembled in.

`Script` is the reference: `Rest`, `Each`, `Times` and `From` say which commands
a piece of program comes to, by structural recursion. `RunsAsWritten` compares
the commands done with it. Four things the interpreter has no provision for
(section 6) set `strayed`, and the comparison ends there.

### Lines

A line is a sequence of tokens. `COMPS`, `CCMD`, `CCOND`, `COMPX` and so on are
the parts of COMP, reading left to right with `ctgt` (how many line numbers the
command still takes), `cpq` (inside a quote) and `cdep` (open parentheses);
`DOWR3` is WRITE; `Retype` gives the listing back to COMP. `compile_line` is
`mkprog.py`, which cuts the line into segments first. They keep the same rules
for the lines that both compile (`Compilable`), that have no group of three digits
(`NUM`) and that `Plain` describes: section 6 has what it leaves out.

### Arith

Each loop that runs once a bit is its pass (`MulPass`, `Mul36Pass`, `D18Pass`)
iterated on a state of registers; comparisons are carries, as in the code. The
loops that run as long as they must, Newton's in ISQRT and the digits of DEC and
DEC36, are actions. The digit buffer keeps what an earlier call left in it.
`Call` is the set of legal calls (ISQRT is for numbers that are not negative);
`BufferAssumption` says that the buffer holds the longest number and its sign, as
its twelve slots do for 36 bits.

### Encoding

A statement or a bare word goes through `Assemble` and `Decode`; `word` is the
18-bit word, `sim` and `engine` what `CPU.step` and the map ROMs with the
fields read by the microwords take it to be, as a record. Words have their real
width. This is what lets the other modules start from decoded instructions.

## 3. Runs

| Run | Instance | Checks |
|---|---|---|
| `sim` | 64 words in pages of 16, two devices, six programs | `TypeOK`, `Transparent`, `ReturnsMatch`, `Woken`, `Served` |
| `micro` | the same memory, one device, some 450 programs | `MicroTypeOK`, `ArHoldsPc`, `PartsNowhereElse`, `Answered` |
| `micro_skip` | one program | `ImplementsIsa` fails |
| `keyboard` | queue of 4 slots, 7 characters, any number of control C | `KeyTypeOK`, `InOrder`, `MaskedHolds`, `Collected` |
| `driver` | 2 rows of 2, queue of 3, scroll of 2 ticks, 7 characters | `DriverTypeOK`, `NothingSwallowed`, `HandlerNeverSpins`, `Implements`, `Finishes` |
| `arena` | 17 words, two line numbers, two names in two classes, bodies of 2 and 3 words | `ArenaTypeOK`, `Ordered`, `Accounted`, `ImplementsWorkspace` |
| `arena_ask` | as `arena`, an answer of three characters | `AnswerIsCut` fails |
| `devices` | 2 rows of 3, a scroll of 120 cycles, 6 characters, 3 keystrokes, three programs | `NoCellLost`, `DoneMeansReady`, `Teletype`, `KeysWhole`, `Fires` |
| `flow` | some 1300 programs of three lines in two groups, two typed lines | `RunsAsWritten`, `Balanced`, `Ends` |
| `lines` | every line of up to four tokens, every condition of up to six, and long statements | `AsMkprog`, `ListsBack`, `Retyped` |
| `arith` | words of six bits, every operand | `Product`, `Quotient`, `Root`, `Spells` |
| `encoding` | real words: field edges, every I/O and operate word | `AsWritten`, `AsNamed`, `SameMachine` |

**Bounds.** *sim*: the six programs cross three mainlines (one computing with L
over calls and a wait, one with a critical section that closes and reopens a
device, one touring the rest of the instruction set) with two versions of the
second handler, one of which does not acknowledge and closes its own line. SP
starts at 0 and wraps at the first push. Two devices are what priority and
starvation need. *micro*: the programs put each instruction form, with each
addressing mode, after each kind of instruction that finishes in a fetch (an ALU
fold, a stack walk, a plain fetch, a comparison, a WAIT), with a device that may
ask in any cycle; jumps in the first and last word of a page test the page
latch. Where engine and instruction set may part (every skip, a bare DI, the mask
operations) a program is run with interrupts on and off, with an EI or a DI as
the word the skip is about, which shows which way it went. The handler saves two
registers, changes them, acknowledges, restores them and returns, with SP
wrapping at the first push. `micro_skip` is one skip with interrupts on.
*keyboard*: four slots hold three characters; seven let the queue fill, be held,
wrap and fill again. *driver*: two rows make every second newline a scroll; a
queue of three holds a newline with characters on both sides, so a replay starts
the next scroll and requeues the rest; it also fills. Seven characters are three
scrolls. *arena*: two names with their blocks, one grown and one growing, take
all but one of the seventeen words, so every carve, every growth and every line
is refused in some state and fits in another. The blocks keep the order of the
code's sizes (four words to a name, small below large), not their numbers. Line
bodies are a blank, one word and two, so a line is replaced by a longer and by a
shorter one; no line is ten words long (section 6), and no answer is longer than
a small body (`arena_ask`). *devices*: instructions, a cell's eight cycles and
an access cost what they cost in `machine.py`; only the screen, the scroll and
the unit of the timer are smaller (a scroll is six units of twenty cycles,
thirty of 256 in the code), because the distances that matter are those of
straight-line code. Six characters scroll such a screen more than once, and a
queue of two fills. The three keystrokes are one with control, one with shift
and one plain, of which two mistaken for each other give another character.
*flow*: a program has every command before and after every other, in a DO, a
group and a FOR; jumps go forward, so each program ends; two lines typed one
after the other let the second meet what the first left. *lines*: four tokens
are a number, a command, a separator and its target in every order; after IF
come all sequences of six from parentheses, a digit, a semicolon and a quote, so a
parenthesis may close before one opens and two conditions may follow each other;
the long statements hold nested parentheses, a fourth line number where three are
allowed, quoted semicolons and digits. *arith*: six bits are the fewest in which
ten is a divisor and a remainder may double; every pair of words is multiplied
and divided, every pair of words as one number is spelled, and a spelling
follows a longer one. *encoding*: nothing is narrowed but addresses, which stand
at the ends of each field and just beyond; AsNamed evaluates skips and
combinations for every AC of five bits.

**Deadlock** is not checked in any run, because each system may rightly stop:
HLT, a WAIT nobody ends, a finished program, a keyboard nobody touches, an arena
that is spoilt, a list of calls that is done. The liveness properties say where it
must not.

**Fairness.** `FairSim`: the interpreter's loop turns; a device owes nothing.
`MicroSpec`: cycles pass. `FairKeyboard`: the processor runs, in the handler,
out of WAIT and in the mainline; nobody has to type, and `Collected` assumes of
the program that it keeps reading. `FairDriver`: the clock ticks, the handler
runs, the mainline runs. `FairTerm`: the processor goes on, which makes the clock
go on. `FairFlow`: the interpreter does; nobody types and nobody presses
control C. All are weak fairness of a processor or a clock that is
never stopped; none orders a choice the code leaves open.

## 4. What the properties say

- `Transparent`: when a handler returns to the program it broke into, registers,
  L, SP, PC and every word that program can read are as they were.
- `ReturnsMatch`: every POP of the link goes to the newest unanswered call or
  entry, with its L, although calls, pushes and entries share the stack.
- `Woken`, `Served`: a WAIT ends, masked or not; the highest device is answered.
- `PartsNowhereElse`: the microprogram is a correct instruction set but for three
  departures, which do no more than they say (`ImplementsIsa`, without them, is
  what `micro_skip` refutes).
  `ArHoldsPc`: the condition that lets a fetch take one cycle. `Answered`: no
  loop is deaf to interrupts.
- `InOrder`: the latch, the queue and the characters already taken are the
  characters typed, each once and in order. `MaskedHolds`: the mask closes only
  with something to read. `Collected`: a held key gets in.
- `NothingSwallowed`: no framebuffer write falls into a scroll.
  `HandlerNeverSpins`: the replay always has room. `Finishes`: a program that
  prints ends. `Implements`: the screen is the unbuffered console's at every
  step, up to the first time the handler comes inside a PUTC that is queueing
  (`torn`); what happens then is told in section 6.
- `ImplementsWorkspace`: each command does to the lines and the strings what it
  says, or, refused, nothing (STORE may have dropped the old line), whatever was
  moved, grown, freed and carved for it. `Accounted`: blocks, bodies and free
  bodies tile the heap, and the text ends below it. `Ordered`: the two ways the
  code walks the text, by newline and by length, agree, and the lines ascend.
- `NoCellLost`: every framebuffer write lands. A cell is deaf for eight cycles
  after a write and the blitter for a whole scroll, and nothing says so to the
  program: each path from a write to the next, through a handler or not, has to
  be long enough. `DoneMeansReady`: the timer, which counts accesses, asks after
  the blitter, which counts cycles, has finished. `Teletype`: FOCAL's screen is
  the tail of the paper. `KeysWhole`: code and modifiers of one keystroke, never
  of two. `Fires`: an armed timer asks, unless the program sleeps in WAIT.
- `RunsAsWritten`: a line typed, or a program assembled in, does the commands it
  means, in order and as often; after control C a beginning of them; and the
  machine stops only for a QUIT that was typed. `Balanced`: nothing is left on
  the stack between lines, and what a DO or a group takes off is its own.
  `Ends`: every line ends.
- `AsMkprog`: the two compilers make the same words. `ListsBack`: WRITE prints
  what was typed, but for the spelling of a line number. `Retyped`: a listing
  compiles to the line it lists.
- `Product`, `Quotient`, `Root`: the numbers are those of arithmetic, signs,
  zero and the most negative word included. `Spells`: the buffer from DPOS on
  holds the digits, whatever stood there before.
- `AsWritten`: a statement decodes to what it says. `AsNamed`: a name does what
  it is called. `SameMachine`: `sim.py` and the map ROMs take every word to be
  the same instruction.

## 5. What is proved

For every value of the constants, from the assumptions on them that their
modules state:

- `TypeCorrect`: `Spec => []TypeOK` for `Isa`. TypeOK is inductive; the lemmas
  type the ALU, the rotations, effective addresses, stack walks and link words.
  It assumes of the bitwise operators that they map words to words, and of
  programs that they hold instructions.
- `PushPopIdentity`: PSH m then POP m restores registers, L, SP and the return
  word for all sixteen masks, wherever SP stands, over the wrap as well. It
  needs four slots to a page, so that the four pushed words are distinct.
- `ReturnFromEntry`: the word an entry pushes brings back L, PC and SP.
- `KeyTypeCorrect`, `NothingLost`, `MaskSafe`: `KeySpec` keeps `KeyTypeOK`,
  `InOrder` and `MaskedHolds` for every queue of three slots or more and any
  number of keystrokes. The inductive invariant adds what GETK has established
  at each of its points (that what it sampled is still there to take, that a
  masked line has a reader on its way).
- `DriverTypeCorrect`, `NoWriteSwallowed`, `ReplayHasRoom`: for every screen,
  queue and scroll time. The inductive invariant has three parts beyond the
  types: `ClockInv` (timer and blitter run down together, and BUSY is clear only
  when both rest), `RoomInv` (places taken and places left add up, give or take
  the one the mainline is paying for; a replay has always freed more than it
  fills) and `CharInv` (the character the mainline carries, on the handler's
  stack meanwhile).
- `NothingOvertaken`, `DriverImplementsConsole`: `DriverSpec => Implements`, for
  every screen, queue and scroll time. `OrderInv` is the account the refinement
  rests on: as long as no line is `torn`, what was printed is what is shown, then
  what the handler is replaying, then the queue, then the character in the
  mainline's hand. A step that shows something shows the first of these; every
  other step leaves what `Unbuffered` sees as it was.
- `StackBalanced`: `FlowSpec` keeps `Balanced`, for every stored program and
  every sequence of typed lines. `StackInv` says that the stack is a chain in
  which each kind of word lies on a kind it may lie on (`Proper`, with `Under`),
  and which kind is on top at each point of the interpreter (`Expected`); each
  action pushes, pops or jumps, and there is one lemma for each of these.
- `MicroTyped`, `FetchFindsPc`: for every program, memory and moment of an
  interrupt, the engine's state keeps its type and every fetch finds PC in AR.
  Types alone are not inductive: which words the sequencer can be at with which
  instruction (`Sane`, from the table of microwords) and what AR holds there
  (`ArFits`) belong to the invariant.
- `EnginePartsNowhereElse`: `MicroSpec => PartsNowhereElse`, for every program,
  with nothing assumed about it. The inductive invariant is `Stage \/ Late`.
  `Stage` says what the registers hold at each label of the control store in
  terms of `arch`, the state the instruction began in; one lemma for each label
  takes it to the next, and one for each way an instruction or an entry ends shows
  the step of `Isa`, or the departure (`EndMask`, `EndLost`, `EndLate`). A lost
  skip and a mask operation leave `Stage` as it was. An entry noticed in the fetch
  of a bare DI does not: `Late` follows it to its end. That no other stack
  instruction can be entered late is `IDone`: with a register to move, the I
  field is applied before the last fetch.
- `EngineImplementsIsa`: `MicroSpec /\ []Clean => ImplementsIsa`, from the same
  lemmas. `Clean` excludes the three situations.
- `ProductsRight`, `QuotientsRight`, `RootsRight`, `SpellingsRight`: the four
  properties of `Arith`, in words of any width that `ArithAssumption` allows and
  for all operands. Each loop has its invariant (`MulLoop`: the sum so far and
  what is left of the factors make the product; `D18Loop`: quotient so far and
  remainder make the dividend's leading bits; likewise for pairs of words), which
  one pass preserves. Newton's guess never falls below the root and stops
  falling at it (`Guessing`). `SpellInv`: the digits written and the number still
  to be spelled make the number, and there are slots left for the rest.
  Induction over a set of numbers (`UpTo`, from the library's least element) and
  over the run of a loop (`Iterated`) stand in for the library's induction
  theorems, which take an operator.
- `KeystrokesWhole`: `TermSpec => []KeysWhole`, for whatever is typed. The
  invariant adds `Placed` (where the mainline and the handler of each program can
  be) and `Keyed` (the latch holds the keystroke fed last, and what KBDISR has
  copied of it is still the latch's).
- `CompletionIsReady`: `TermSpec => []DoneMeansReady`, for every cost of an
  instruction. `Timed`, `Started` and `Completing` follow the timer from its load
  to its interrupt: armed, it never has less to go than the scroll, although
  each counts on a clock of its own.
- `WritesLand`: `MachineCosts => (TermSpec => []NoCellLost)`, for every screen,
  every scroll and everything typed and printed. `MachineCosts` is what
  `machine.py` charges (one cycle for a fetch or a branch, two for a datum) and a
  cell that takes at most twelve to draw; it takes eight. `Landing` says for each
  write how much of the cell before it can still be undrawn. Twelve is exact:
  TLC finds a lost write at thirteen.
- `ScreenIsTeletype`: `MachineCosts => (TermSpec => []Teletype)`, for every
  screen, every text and a keystroke handled between any two steps. `Paper` is
  where on an endless sheet the print head stands after each character; the top
  row of the screen, the cursor and the head are tied by `Printed`, which says for
  every label of PUTC, PNL and SCRL how much of the last character the screen
  has already. A printed character and a newline each move the head past
  everything inked (`BlankAhead`, `InkedNext`), and a scroll moves every row to
  the one above it (`TopMoves`). A write that a busy cell swallowed would leave a
  hole in the text, so the costs of `WritesLand` are needed here too.
- `ArenaTyped`, `HeapAccounted`: `ArenaSpec => []ArenaTypeOK` and
  `ArenaSpec => []Accounted`, for an arena of every size, any classes, lines and
  texts, and bodies of any two sizes. Types are no invariant on their own here: a
  pointer is one because of what the words of the heap hold. `Tidy` says what
  they hold: the free list is a chain of bodies without a repeat that ends in
  zero (`Chain`), every descriptor in use has one of the two capacities, and
  blocks, bodies and free bodies tile the heap (`Well`), with the text's zero
  below it. A body a routine has taken and not yet given to a name is a loose
  tile; each routine (`HCARVE`, `SALLOC`, `VLOOK`, `VDESC`, `VBODY`, `SGROW`,
  `SDEST`) leaves the heap `Well`, and no word below it changed, whether it
  succeeds or goes to `?S`. `STORE` writes nothing at or above the heap
  (`CutOut`, `MadeRoom`, `Filed`), and the walk of `LFIND` ends at the text's
  zero (`WalkEnds`). That the links from FL8 reach every free body takes the
  pigeonhole principle (`ChainIsShort`). As the property says, this is up to the
  three ends named in section 2.
- `LinesOrdered`: `ASSUME PlainLines PROVE ArenaSpec => []Ordered`, for texts of
  every length. `Neat` says that there is a set of line starts from which the
  text reads as a `Stretch`: from each start its length leads to the next, no
  newline or zero comes before the one that ends the line, and the numbers
  ascend. `LFIND` stops where the number belongs (`FindsPlace`), which parts the
  text into lower and higher numbers (`CutLine`, `CutNothing`); a stretch moved
  is a stretch (`Shifted`), and so is a line written (`OneLine`), and two that
  meet in the right order are one (`Joins`). The commands of the heap leave the
  text's words alone (`Kept`). `PlainLines`, no line of ten words, is the
  finding of section 6: in the code such a line is found by one walk and not by
  the other.
- `ArenaImplementsWorkspace`: `ASSUME PlainLines PROVE ArenaSpec =>
  ImplementsWorkspace`, the refinement of the storage, for every arena. Initial
  states map to `WorkInit`; `Faithfully` is what each command is of the abstract
  workspace, a line filed or dropped, a string assigned, copied or left, all
  forgotten. The inductive invariant is `Tidy`, `Neat` and `Shut`, every string
  with its zero within its body. For the strings: each routine leaves every
  body's words and descriptor alone (`AllIntact`) but those of the name it is
  called for, because owners of words are apart (`NoneShared`); a string grown
  is copied whole, its zero included, and a copy cuts nothing because `SGROW`
  was asked for room first (`HasRoom`, `StoreText`). For the lines: every line
  but the one with the number is afterwards a line with the same number and
  words (`Keeps`), moved up or down with its stretch, and a program is what is
  listed at its starts (`Lists`, `ProgramLists`). The three ends of section 2
  are outside it, as they are outside the property.
- `StringsEnd`: `ArenaSpec => []Shut`, without `PlainLines`.
- `OneInstructionSet`: `EncSpec => []SameMachine`, for all 2^18 words at every
  address, whether the assembler emits them or not; the run has those at the
  edges of the fields. One lemma for each class of instruction (`MemoryAlike`,
  `JumpAlike`, `OperateAlike`, `DeviceAlike`) compares what `CPU.step` tests in
  order with what MAP1 and MAP2 look up; they rest on arithmetic about the six
  bits MAP1 sees (`SixBits`) and the pulses (`PulseBits`).
- `OperandsAsWritten`: `EncSpec => []AsWritten`, for every operand, mode, mask
  and address the assembler accepts. The sum of shifted fields that
  `gen_casm.py` makes is taken apart again (`MemoryPacked`, `JumpPacked`,
  `StackPacked`); a mask weighs its registers if each is named once
  (`MaskWeighs`). The invariant under both is `Read`. They stand in `Isa_proofs`
  and use one assumption, `SourcesAssumption`, which says what a statement is.

Only model-checked:

- Liveness under fairness (`Woken`, `Served`, `Answered`, `Collected`,
  `Finishes`, `Fires`, `Ends`), which this prover does not reach.
- `Transparent` and `ReturnsMatch`, whose history is a stack of states, with
  assumptions about programs (handlers save what they use) that are about whole
  executions.
- `RunsAsWritten`, `AsMkprog`, `ListsBack` and `Retyped`, whose references are
  recursive over programs and lines: induction over data.
- `AsNamed`, which is about one finite set, the names the assembler knows: the
  run has all of them.

## 6. Where the code differs from what it says

A run shows the first two; the others were met while modelling and are kept out
of the properties at the places named.

- `micro_skip`: SPEC.md:285-288 has every instruction atomic with respect to
  interrupts. A skip folded into FETCH_S is dropped when an interrupt is noticed
  in that fetch. `sim.py` takes the skip first.
- `arena_ask`: ASK cuts an answer at the limit that stands in SLM1 (the one
  assembled in, or the one the last copy left), not at the body it writes
  (focal.s:2964), and runs over into the next block.
- *Microcode*. A bare DI folded into FETCH_I (ucode.py:462) does not keep out
  the interrupt noticed there: it is entered with interrupts already off
  (`AcceptsLate`, which the programs of `micro` reach). MICROCODE.md:418-421
  says that a handler which saves, acknowledges, restores and returns does not
  pass, because a push and pop of two registers "leaves `SP` one short". That is
  stale: the handler of `micro` is this one and passes, and
  `EnginePartsNowhereElse` has it for every program. In `ucode.py` PSH steps SP
  down once for each register and POP up once for each, in the cycle that reads
  (SPUP), but for SP itself, which is loaded.
- *Keyboard*. GETK looks at the queue and then waits, with interrupts on
  (focal.s:3100-3103): the keystroke it waits for may fall between, and is then
  slept on. A control C typed at the prompt stays in BRK and stops the next
  program (focal.s:432, 2257).
- *Driver*. A scroll that ends between PUTC's test of BUSY and its store
  (driver.s:97) leaves the character in the queue, to come out late, or never.
  `Implements` holds up to `torn`.
- *Storage*. A line of exactly ten words cannot be deleted or replaced: TNUM
  (focal.s:507) takes its length for the newline, and the body stays behind as a
  line.
- *Control flow*. A RETURN met outside any DO stays in DORF and cuts the
  next group to its first line (README.md:283-287); QUIT
  inside a DO is undone when the DO ends; QUIT inside a FOR stops the machine,
  which focal.s:3127-3130 keeps for a QUIT that was typed; a FOR inside a FOR,
  and a jump out of one, lose the outer one's place. These set `strayed`. An IF
  without an arm goes on with the next command of the line; the comment at
  focal.s:2674-2676 says the next line. The model does as the code.
- *Line compiler*. focal.s:1762 says the rules are those of `mkprog.py`. A step
  written as zeros (`DO 1.0`) marks a group in COMP and a line in
  mkprog.py:56-59. After `1.` with no step both mark a group, but RDLNT takes
  the point into the number and mkprog.py keeps it as text. In `IF )(A)2` COMP's
  count of parentheses goes below zero and never says that the condition is over
  (focal.s:1966), so the `2` stays text; `close` counts from the first opening
  one (mkprog.py:62-73) and makes a line number of it. Numbers in quotes, quotes
  in a condition and an IF without one differ too, and 002 is a group to RDLNT
  and none to the expression of mkprog.py:47. `Plain` and `NUM` leave these out;
  a bare point is not a token of the model.
- *Arithmetic*. DEC of the most negative word says it fills the buffer
  (arithlib.s:540-541) and fills slots 1 to 7 of twelve; PNUM (focal.s:371-382)
  prints to the end: after `TYPE 12345,!`, `TYPE -131071-1,!` prints
  `-1310722345`. `Spells` leaves that word out of DEC (DEC36 has it right).
  ISQRT is for numbers that are not negative (arithlib.s:342), and FNSQT
  (focal.s:1359-1364) gives it what ABS1 returns, which for the most negative word
  is negative still: `FSQT(-131072)` is 57, not 362. `Call` leaves it out.
- *Devices*. `machine.py` advances its clock with memory accesses only, so a timer
  armed before a WAIT does not run during it; bench.py:183-186 says the clock
  runs. `waittest.s` uses the timer of the bare harness, which does. `Fires`
  leaves the WAIT out.
- *Encoding*. MICROCODE.md:111 and 455 say reserved opcodes trap; `ucode.py`
  passes over them and `sim.py` takes them for operate instructions. The CLA bit
  in a word that is WAIT, SKI or SKNI is cleared by `sim.py` only. `SameMachine`
  leaves both out. A jump to address zero is accepted from any page
  (gen_casm.py:75); a register named twice in PSH or POP adds up to another mask
  (gen_casm.py:196); ONEX is assembled to CLA and IXC, which is not the IX := 1
  of SPEC.md:154-156. `AsWritten` and `AsNamed` say where they leave these out.

## 7. Not modelled

- FOCAL: arrays, numbers in the arena, the expression evaluator (a
  recursive-descent reader of tokens whose result is a number; where control flow
  depends on it, the model leaves the value open), the text of messages.
- The LEDs, the harness print port, the instruction counters.
- ROM images and microwords no map reaches; the T register.
- The Verilog (`rtl/`): the control store again, with I/O and the mask not yet
  in it.
- Reading and writing of files in `mkprog.py`, assembler syntax in
  `pdp9x.casm`.
- `run.py` and `bench.py`, which test and measure, the sample programs, the
  schematic, `build.sh`. `arith.s` and the `Console` class of `model.py` are
  earlier drafts of code that is modelled.

## 8. Plan

Modelled: the processor in both forms and its encoding, the devices, the
keyboard, the console, the arithmetic, the line compiler, and of FOCAL the
storage of lines and strings and the control flow. What is left, in order:

1. `Arena`: numbers and arrays, a program assembled in rather than typed, and
   what follows an ERASE, with `Tidy` carried over to them.
2. The evaluator: precedence and the stack it borrows while a comparison, a
   call or an array index is open, composed with `Flow`'s stack.
3. `Rtl`: the Verilog next-state functions as a second engine for the words of
   `Micro`, the two shown to agree cycle by cycle.
