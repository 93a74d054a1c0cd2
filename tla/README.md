# HAL-OS: a TLA+ verification of the kernel

HAL-OS is a 32-bit x86 kernel for one CPU: three terminals that share a keyboard and a
screen, six processes, a round-robin scheduler driven by the PIT, a read-only file
system and a real-time clock.  All paths below are under `src/student-distrib/`.

## 1. Inventory

| Component | Source | State | Operations |
|---|---|---|---|
| Process control | `system_calls.c` 38-325, 623-652 | PCBs (slot, parent, caller's frame, saved context), `current_pcb`, `tss.esp0`, the 128MB page | `execute`, `halt`, `get_pid` |
| Scheduler, PIT | `scheduler.c` 67-138, `devices/pit.c` | `scheduled_terminal`, `scheduling_esp_val`/`ebp_val`, cursor of each terminal | `pit_handler`, `scheduler` |
| Terminal switch | `scheduler.c` 20-56 | `active_terminal`, `initialized_terminals` | `terminal_switch` |
| Exceptions, IDT | `interrupts.c`, `intr_asm_linkage.S` | the gates, `exception_in_child` | `init_interrupts`, `exception_handler` |
| Video mapping | `paging.c`, `scheduler.c` 26-44, 113-125, `devices/terminal.c` 234-248, 266-284 | video page, vidmap page, screen, back buffers | remapping and copying in the switch, the scheduler, backspace and Ctrl-L |
| Terminal | `devices/terminal.c` | line buffer, flags and cursor of each terminal | `terminal_read`, `terminal_write`, `update_kb_buffer`, `clear_terminal` |
| Keyboard | `devices/keyboard.c` | modifier flags | `keyboard_handler` |
| Real-time clock | `devices/rtc.c` | `rtc_interrupt_flag`, index register, rate | `rtc_read`, `rtc_write`, `rtc_handler`, `rtc_open` |
| File descriptors | `system_calls.c` 335-557 | `fd_array` and argument of each PCB | `open`, `close`, `read`, `write`, `getargs` |
| File system | `devices/filesystem.c` | the image in memory, read only | `read_data`, `read_dentry_by_*`, `directory_read` |
| Interrupt controller | `i8259.c` | masks, requests, lines in service | `enable_irq`, `disable_irq`, `send_eoi` |
| Boot | `kernel.c` | order of the initialisations | `entry` |

### How the components interact

* A user program traps into a system call by `int 0x80`.  All gates of the IDT are trap
  gates (`interrupts.c` 119-139), so **interrupts stay on in system calls, exceptions and
  interrupt handlers**; only code between `cli` and `sti` is atomic.
* The PIT interrupt runs `scheduler`, which saves the frame of the interrupted thread in
  `current_pcb`, picks the next initialised terminal and continues the frame saved for that
  terminal's `active_pid`.
* The keyboard interrupt edits the line buffer of the terminal on the screen, or calls
  `terminal_switch`.  The first switch to a terminal calls `execute("shell")` from inside
  the interrupt handler and does not come back.
* `execute` leaves its caller's frame in the child's PCB, `halt` returns into it.  A parent
  does not run while its child lives, so a terminal is a chain of processes of which only
  the newest runs: one kernel thread per terminal.
* All of it shares globals: `active_terminal`, `scheduled_terminal`, `current_pcb`,
  `exception_in_child`, the MMU and the TSS.

### What is hard, and what would make each component correct

| Component | Hard | Correct when |
|---|---|---|
| Process control, scheduler, switch | a timer or keyboard interrupt between any two steps; globals read again after the user has switched terminals; frames resumed after they died; the slots reserved for shells | the processes form one chain per terminal, ids are unique, every terminal is resumed where it was interrupted, user code runs on its own page and stack, a launch ends and every terminal is served |
| Video | split comparison and remap; handlers that remap behind the scheduler | what a process writes goes to its own terminal's screen |
| Terminal, keyboard | every reader watches the buffer of the terminal on the screen; input while a line is read; full buffers; tables indexed by scan code | a line goes to the process that reads it, once, complete, within its buffer, and arrives |
| Console | the place of the next text is counted apart from the cursor that `putc` moves; wrapping and scrolling at the last row | the screen shows the end of what was written and typed |
| Clock | one flag for all readers; index/data port pairs | `rtc_read` returns only after an interrupt that follows the call |
| File descriptors, file system | dispatch by a shared inode number; boundaries | successive reads return the file; a descriptor is what `open` made it |
| Interrupt controller, boot | end-of-interrupt after `sti`; interrupts before paging | no line stays blocked; no handler runs before what it needs exists |

The hazards, each at its line, are in `PROJECT.json` (`hazards`), with the properties that
watch them, or the reason why none does.

## 2. Modules

| Module | Content |
|---|---|
| `Processes` | `execute`, `halt`, `scheduler`, `terminal_switch`, `exception_handler` and their interleaving; the properties |
| `ProcessesInv` | the inductive invariant `PatientInv`; `ResumeInv`, which strengthens it |
| `MCProcesses` | the values of `Preemptible` for the runs |
| `Processes_proofs` | facts about the constants; type correctness; where alone the scheduler's search hangs |
| `LeastFacts` | a non-empty set of numbers has a least element: what every search of the kernel returns |
| `ProcessTree_proofs` | `PatientInv` is inductive; what follows from it; no context is lost |
| `ScreenText` | text on a screen of `NUM_ROWS` lines: appending with scrolling, removing |
| `Screens` | abstract specification: a screen of its own for every terminal |
| `Video` | the mapping and copying of the video pages by `scheduler`, `terminal_switch`, backspace and Ctrl-L; the refinement to `Screens` |
| `MCVideo` | the values of `Windows` for the runs |
| `Video_proofs` | no process writes to another terminal's back buffer, whatever happens; the invariant of the mapping; the refinement |
| `FileImage` | the image in memory; `read_dentry_by_name`, `find_dentry_by_inode_num`, `read_data`, `directory_read`; what a file holds |
| `Descriptors` | abstract specification: what the file calls promise a program |
| `FileCalls` | `open`, `close`, `read`, `write`, `getargs`, and what `execute` and `halt` do to descriptors and argument; the refinement to `Descriptors` |
| `MCFileCalls` | a small image |
| `FileCalls_proofs` | the invariant of the descriptors; `read_data` against what a file holds; the refinement |
| `Devices` | `i8259.c`, `rtc.c`, the handlers' ends of interrupt, the IDT and the boot from the point where interrupts are on |
| `Devices_proofs` | its types; the lines in service, the clock's line, its flag and its registers |
| `Keyboard` | scan code tables, modifier flags and the tests of `keyboard_handler`, as operators |
| `Lines` | abstract specification: each program reads the lines of its own terminal |
| `LineInput` | `keyboard_handler`, `update_kb_buffer`, `clear_terminal`, `terminal_read` and the timer between them; the refinement to `Lines` |
| `LineInput_proofs` | the tables; the buffer; the refinement |
| `Console` | rows and columns: `terminal_write`, the echo, the editing keys, `putc`, scrolling |
| `MCConsole` | the texts of the runs |
| `Console_proofs` | folds step by step; its types; the counted place is where the text ends, and nothing is put behind the last row; the screen |

`Keyboard` is part of `LineInput`, `FileImage` of `FileCalls`, `ScreenText` of `Video`.  The
modules cut the kernel where one question ends: a process table that works in
`Processes`, a handler in `Devices`, a page in `Video`, a line in `LineInput` and a row in
`Console` share no variable but `active_terminal` and `scheduled_terminal`, which every module that
depends on them lets change at any point the code does.

### Processes

*State.* A variable per global of the kernel that process control reads or writes, named in
the comment next to it.  Pids and terminals are the numbers of the source.  A thread is named
by its terminal; `pc[t]` is the next kernel step of the thread, `run` the thread on the CPU.
The saved `esp`/`ebp` of a PCB is the pair of the thread whose frame it points to and whether
that frame is still the latest of its thread: that is all the scheduler's `leave; ret`
depends on.  A PCB's `ebp_val`/`esp_val` is the process whose `execute` frame it points to.
`home`, `left` and `how` are history variables.

*Steps.* `execute` is cut where an interrupt between two assignments makes a difference:
`AllocPid` (209-220), `MapPage` (233), `LoadImage` and `LoadRest` (237, the copy of the image, which
the timer may cut in two), `CreatePcb` (243-282), `SetStack` (285-291), `SwitchPcb` (294), `Activate` (297), `Announce` (300-301) and `Spin` (305-313).
`halt` is `Exit` or `Fault` (entry), `HaltStatus` (52-67) and `RestartShell` or
`ReturnToParent` (69-119, one step: `cli` holds until 88 or 107).  A run of the scheduler is
one step (`Tick`, `TickStale`, `TickHangs`): its quantum is 50 ms, far longer than it takes.
`ReturnToParent` goes on with the `process_id` in the parent's PCB, as the code does: it is 0 in a
PCB that was freed.

*Undefined behaviour.* Where the kernel continues an old frame, or user code runs on
another program's image or kernel stack, the outcome depends on what happens to be in memory.
`TickStale`, `ReturnToParent` and `Astray` choose between going astray (`cpu = "derailed"`)
and the lucky outcomes the compiled code has: a thread left behind by a first terminal
switch was interrupted at the same stack depth, so its old frame may still lead back to it.  A
derailed or hung kernel stops (`Stopped`), which keeps the deadlock check meaningful for
all others.

*Parameters.* `MAX_TERMINALS` and `NUM_PIDS` as in the source.  `Preemptible` is the set of
steps before which the timer may interrupt: all of them in the code, and in the runs but one.
`ContextSwitch`, which asks what holds apart from the windows of an `execute`, takes them out
(`Undisturbed`).  `Patience` bounds the user: `"patient"` lets a command act while its
terminal is on the screen and switches terminals while nothing starts; `"hasty"` waits for
shells but not for commands; `"none"` does not wait.  The two are assumptions about the
environment, not about the code.

*Left out.* The ELF header; an `execute` that returns -1 before `get_pid` (it changes
nothing); a keyboard interrupt inside the scheduler, which `Video` has.  The argument and the
descriptors of the new process are in `FileCalls`, the video pages in `Video`.

### Video

*State.* `active`, `sched` and `ready` are `active_terminal`, `scheduled_terminal` and
`initialized_terminals`.  The kernel writes through one page-table entry and programs with
`vidmap` through another; neighbouring statements always give both the same value, so `vmap`
stands for the two.  `page` is the text in the screen and in the back buffer of each terminal,
a sequence of lines, each named by the terminal whose process wrote it.  `phase` and `choice`
are where the scheduler is and which branch it took.

*Steps.* `Write` is `terminal_write`, the echo or a write to a vidmapped page.  The
scheduler runs with interrupts on and is cut where a key may come: `Select` (95-111), `Choose` (the comparison, 114) and
`Remap` (115-122).  `Switch` is `terminal_switch` without the first
launch (that is in `Processes`), `Backspace` and `Clear` are the editing keys with their
remapping, `Announce` is a terminal's first shell, `Relaunch` a base shell that starts
again.

*Parameters.* `Windows` names the four unguarded windows: a key at `"choose"` or
`"remap"` inside the scheduler, an `"edit"` key while the terminal on the screen is scheduled,
and the `"relaunch"` of the shell of terminal 0 while another terminal is shown.  The code has
them all.  `ScreenPages` closes them to ask what else could go wrong; section 3 says what each of them
breaks, and `OwnPageKept` proves what holds with all of them open.

*Abstraction.* `Screens` gives each terminal a screen, written and edited only through it;
the refinement maps the screen of terminal `t` to the page `Home(t)`.

### File calls

*State.* `fds[s]` is the `fd_array` of the PCB in slot `s`: an element has the name of its
table, inode number, position and flags.  `arg[s]` is the PCB's argument and outlives the
process, as the memory does.  `given` and `reply` are history: the argument of the command,
the last call with the bytes it delivered.  The image is a constant, since nothing writes it.

*Steps.* Every call works on the PCB of its own process, which no other process and no
interrupt touches, so a call is one step.  `read` is split by what it dispatches to:
`ReadTerminal`, `ReadFile`, `ReadDirectoryEntry`, `ReadClock`, `ReadFails`.  `ReadTerminal` delivers a
line of any length (`LineLengths`), for `terminal_read` ignores how much was asked for.  As in the code,
the table of the descriptor says which function is called and the *first entry with that
inode number* says with which arguments; the directory and the clock share inode 0 in the
kernel's image, so the clock is read as a directory.  Positions and the end of a read are 32-bit numbers (`% WORD`).

*Assumptions.* `KindsAssumption` holds for the kernel's image (`filesys_img`): an inode number
tells the type of its entries, except that the directory and the clock may share one, and the
directory comes first.  Were the clock first, `ReadDirectoryEntry` would pass the descriptor for
the position.  `LengthsAssumption` keeps lengths that make `offset + length` wrap out.
*Bound:* `ReadDirectoryEntry` takes place fewer than `WORD - 1` times per open.

*Abstraction.* `Descriptors` knows open files only: what `open` found and how much of it
was delivered.  `Found`, `Contents` and the delivered part are the refinement mapping; the
contents of a file are defined without `read_data` (`Text`: the byte whose block and place
make up its position).

*Left out.* Null and out-of-range pointers, names longer than 32 bytes (not found), the
buffers of programs, what the terminal and the clock do in a call (`LineInput`, `Devices`).

### Devices

*State.* `mask`, `irr` and `isr` are the registers of the two controllers, `index`, `regA` and
`raised` those of the clock chip (of register A, the rate and whether the time base, which the
kernel must keep, is still there).  `frames[t]` is the stack of handlers on thread `t`: all
gates are trap gates, so a handler may be interrupted, and the PIT takes the whole stack
off the CPU with its thread.  `op[t]` is what the thread does outside its handlers: boot,
run, wait in `rtc_read`, or one of the port accesses of `rtc_write`.  `seen` and `last` are
history: was an interrupt handled since a reader began to wait, and who wrote register A last.

*Steps.* A handler is three steps: entry (interrupts still on), what `cli` protects
(`HandleClock`, `HandleKey`, `FirstSwitch`) and, after `sti`, the end of interrupt (`SendEoi`).
`rtc_write` is cut at every port access, because interrupts are on.  The controller is fully
nested: `Deliverable` compares priorities; `send_eoi` of a line of the slave also ends line 2.
The end of interrupt that `rtc_write` sends (116) and that of the first switch
(`scheduler.c:51`) are in.  A thread a first switch left behind has no saved context; whether it
is found again is open, as in `Processes`.  `Boot` is `entry` from the loaded IDT on;
before `InitPaging`, a first switch leads astray.

*Parameters and bounds.* `Windows = {"select"}` lets an interrupt come between a port select
and its access, as in the code; the run has it.  `RateSet` and `TickWakes` fail
(section 3): `rtc_handler` selects register C in between, and one reader clears the flag another one
waits for.  `MaxFrames` bounds the handlers on a stack: 2 is a handler inside a handler, after whose end of
interrupt the outer one goes on.  The proofs hold for every bound.

### LineInput

*State.* One record of `terminals[]` is spread over `line` (its length is `current_char`),
`enter`, `reset` and `lastc`; `active` and `sched` as in `Video`; `mods` are the
modifier flags; `clearing` is the thread on which a Ctrl-L handler is behind its `sti`.  `pc[t]`, `lastt[t]` and `spot[t]` are where the program of terminal `t` is in
`terminal_read` and its locals.  `read` and `got` are history: how much of a buffer was
passed on, and what a program got.

*Steps.* The handler runs between `cli` and `sti` and is one step with everything it calls, but
`clear_terminal` enables interrupts before it is done: `ClearEnds` (281-283) is a step of its own, until
which the keyboard is silent and the timer may switch.
`terminal_read` is cut where a key or the timer matters: `Notice` and `Blank` (one turn of the
loop at 71 and the store at 90), `Echo` (behind the loop at 93), `SeeEnter` (the test at 71),
`ClearEnter` (105, which reads `active_terminal` again) and `TakeLine` (113-119).
`Write` is what `terminal_write` does to the buffer, which it leaves alone if it refuses the text.

*Assumptions.* An interrupt in one of the three short windows of `terminal_read`, `"blank"`, `"seen"`
and `"take"`, comes only if a configuration has it in `Windows`; the runs have none.  `Careful` is about the user: no program starts to read in the
background, and no Enter is left pending on the screen while another terminal's reader
is between the loop at 71 and the one at 93 (`Waits`), where it would take that line.
`Prompting` is about programs: they write before they read, as the shell does.  Without the first
the code breaks `OwnLines`, without the second `InBuffer`.

*Abstraction.* `Lines` knows drafts, ended lines and answers.  What was typed and not
read, `enter_flag` or a reader behind it, and the line without its newline are the mapping.

### Console

*State.* The fields of `terminal_info_t` and the locals under their names; `cells` is video
memory, `x`, `y` the cursor.  There is one terminal, on the screen and scheduled;
`scheduler` saves its cursor.  `vmap` is the page `video_mem` is mapped to: Backspace and Ctrl-L leave
the back buffer there until the scheduler runs, and what is drawn meanwhile does not reach `cells`
(`Seen`).  `strayed` is history: `putc`, which does not limit the row, wrote behind the last one.  A cell tells what a program wrote from what was typed, not which
character.  `paper` and `open` are history: the last `NUM_ROWS` rows of the sheet an ideal printer
would have, newest first, with the `ink` in the newest, and whether Enter ended that row.  The
paper knows no screen: it feeds, and never scrolls or wraps at the bottom.

*Steps.* `Write`, `MakeRoom` (a turn of the loop 177-182) and `PutText` are
`terminal_write`, `WriteRefused` its early return (137); `Echo` is a turn of the loop of `terminal_read`,
`TakeLine` its end.  `clear_terminal` ends with its `sti` (279); the scheduler may run before `ClearEnds`
(281-283).  Interrupts are off in the rest of the handler, so nothing finer matters there.

*Parameters.* `Usage` names what the run `Console` leaves out, each of which breaks `ScreenShows`:
`"early"` (keys faster than the echo: Enter ends a line that is not drawn yet), `"burst"` (keys faster
than the scheduler: backspace erases at the cursor the scheduler saved last), `"wide"` (a text that does not fit behind what stands in its row: the second wrap is not
counted), `"long"` (a prompt and a full buffer of more than two rows: the echo makes room for one
wrap only), `"clear"` (Ctrl-L behind a typed part of a line, whose echo goes to the back buffer, or
behind a prompt: `prev_char_in_line` is stale) and `"empty"`
(backspace with nothing typed erases the prompt).  Keys are pressed while a program reads.
`Tidy` is the condition of the proofs: `Usage = {}`, and every text has its newlines at its end, no
more of them than rows.  `MCConsole` assumes that the run's texts are of that kind.

*Invariant.* `PlaceInv` has a part per phase.  `UserInv`: between two calls the newest row of
the paper is at `current_line`, and the ink ends at `char_in_line`, unless a line was typed and
not yet left.  `WriteInv`: the same in `terminal_write`, for a text that fits behind the ink.  `ReadInv`: the line is
on the paper and, once `Settled`, on the screen, at `prev` and behind, wraps at most once, and a row was
made for the wrap.  A line is settled when it is echoed or while the back buffer is mapped: then a
backspace has only shortened what is drawn, and what the next echo draws out of sight is there already.
`ClearInv`: between the two parts of `clear_terminal` the screen and the line are empty.

## 3. Runs

| Run | Bounds | Shows |
|---|---|---|
| `ProcessTree` | 3 terminals, 4 slots, all steps preemptible, patient | `TypeOK`, `ProcessTree`, `ForegroundIsNewest`, `BaseSlotsKept`, `ParentsStay`, `HangsOnlyAtBoot` and the inductive invariant `PatientInv` |
| `ContextSwitch` | 3 terminals, 4 slots, `Undisturbed`, patient, fair | `ContextsSurvive`, `OwnMachineState`, and the liveness properties `LaunchEnds`, `TerminalsServed` |
| `ScreenPages` | 3 terminals, 3 lines, no window | `MapInv`, `OwnText` and the refinement `LogicalScreens` |
| `FileCalls` | 1 slot, 4 descriptors, 4 entries, no blank command | `FdInv` and the refinement `KeepsPromise` |
| `Devices` | 2 terminals, both read and write the clock, 2 frequencies, 2 nested handlers, interrupts anywhere | `TypeOK`, `InServiceOwed`, `ClockArmed`, `WaitsForTick` |
| `LineInput` | 2 terminals, buffer of 2, 8 keys, careful user, no window | `TypeOK`, `InTable`, `InBuffer`, the refinement `OwnLines` |
| `ReadEnds` | as `LineInput`, with 6 keys (Enter, L, the modifiers and the switches), fair | the liveness property `LineArrives` |
| `Console` | 3 rows of 4, buffer of 6, bytes of 16 values, fair | `TypeOK`, `ScreenShows`, its inductive invariant `PlaceInv`, the liveness property `WriteEnds` |

In each of the following the code does not do what a comment or a document of the repository says
(`findings`); every run checks the one property and TLC finds it violated.

| Run | Bounds | Violated | Because |
|---|---|---|---|
| `ImageElsewhere` | 2 terminals, 3 slots, all steps | `StartsOwnProgram` | the image of a program is copied into another process's page |
| `ExceptionStatus` | 2 terminals, 4 slots, all steps | `StatusTold` | the 256 of an exception is told to another process's parent |
| `StaleArgument` | as `FileCalls`, with the blank command | `OwnArgument` | a program gets an earlier process's argument |
| `LongWrite` | 3 rows of 6, a text of 4 newlines, fair | `WriteEnds` | `current_line` goes round below zero, and the room it leaves with it |

The passing runs are bounded by assumptions, most of which the code does not enforce.  What breaks
without them is no run of its own: change the configuration as given, check the one property, and TLC finds
it violated.

| Configuration | Change | Violated | Because |
|---|---|---|---|
| `ProcessTree` | none | `SchedulerFindsOne` | a timer interrupt in the first launch, after `current_pcb` is set and before its terminal is announced, finds no terminal and loops; `HangsOnlyAtBoot` says that it is the only place |
| `ContextSwitch` | `Preemptible <- AllSteps` | `ContextsSurvive` | between 294 and 297 the frame is saved in the PCB of the new process and the parent's old one is resumed |
| `ContextSwitch` | `Preemptible <- AllSteps` | `OwnKernelStack` | between 285 and 294 the scheduler sets `esp0` back to the parent's stack |
| `ContextSwitch` | `Patience = "hasty"` | `PidIsFree` | two launches get one process id: `get_pid` (214) and `in_use = 1` (245) are apart |
| `ContextSwitch` | `Patience = "hasty"` | `ProcessTree` | a command started in the background gets a parent of the terminal on the screen |
| `ScreenPages` | `Windows <- KeyInScheduler` | `OwnScreen` | a switch inside the scheduler leaves the wrong page mapped |
| `ScreenPages` | `Windows <- EditScheduled` | `OwnScreen` | a process writes out of sight after backspace or Ctrl-L |
| `ScreenPages` | `Windows <- EditScheduled` | `OwnText` | the switch after the backspace copies the back buffer onto itself |
| `ScreenPages` | `Windows <- ShellRestarts` | `OwnScreen` | the restart of a shell changes `active_terminal` and no page |
| `Devices` | none | `RateSet` | the clock interrupt selects register C between select and access |
| `Devices` | none | `TickWakes` | a reader clears the flag that was set for another one |
| `LineInput` | `Careful = FALSE` | `OwnLines` | the reader of a hidden terminal takes the line on the screen |
| `LineInput` | `Prompting = FALSE` | `InBuffer` | the newlines of lines that nobody answers pass the end of the buffer |
| `LineInput` | `Windows = {"blank"}`, buffer of 3 | `OwnLines` | the blank behind the line overwrites a new key |
| `LineInput` | `Windows = {"seen"}` or `{"take"}` | `OwnLines` | a key is added to a line that Enter has ended |
| `Console` | `Usage` one of its six members | `ScreenShows` | see the parameters of `Console` |

With `Windows <- EveryWindow`, and one line, TLC confirms `OwnPage`, which has a theorem.

`OwnMachineState` has no theorem: with all steps preemptible it fails as `OwnKernelStack` and
`StartsOwnProgram` do, and with `Undisturbed` it says only that a launch the timer spares
sets the machine up.

*Bounds.* Three terminals are the code's number: two are enough for every race found, the third
lets the scheduler skip an uninitialised terminal between two initialised ones.  With one slot
more than terminals, the pool runs out (`NoPidLeft`); with two more, a chain has a grandchild and
`halt` returns to a parent that is not a base shell.  A patient user has one launch in flight, so no run has two
launches at a time.  Pids and terminals are compared as numbers (`<`, `Min`), so there is no symmetry.
No variable grows without a bound, so no counter is cut.
Three lines are enough for a screen to scroll and for a line to be removed after that; three
terminals for one that is neither shown nor scheduled.  The file calls of two processes share
nothing, so one slot, used again and again, shows what two would.  Blocks have two bytes and
one file has two blocks that are not neighbours, the last one half full: reads of 1, 2 and 4
bytes start and end inside, on and across the boundary and beyond the end.  Four descriptors
leave two for `open`, one at a time and full.  `WORD` is 8: the directory's position passes its
four entries and stops below it.
Two readers and two writers are the least that can share the clock's flag and registers; one
frequency is known to the kernel, one is not.  A buffer of 2 takes one character and its
newline: a tab overfills it, and a second line would not fit behind an unread one.  The keys are a
letter, tab, backspace, Enter, the two modifiers and the two switches.  `ReadEnds` does without tab and backspace:
with all keys its check takes too long.
The screen has a first, a middle and a last row (two rows are the least the proofs allow: a line that
wraps needs both).  A prompt of two columns and a full buffer wrap once and never
twice; with the kernel's sizes that is so for prompts of up to 32 columns, and longer ones are
`"long"` use.  A byte of 16 values is larger than either dimension, so `current_line` wraps only below zero.
Texts of more than `MAX_INPUT_BUF_LEN` = 3 are refused, and the run has one of 4; prompts of one and two
columns, lines, and two newlines at the end are written.

*Fairness.* `SF(Timer)`: the PIT is periodic and never masked after boot.
`SF(Kernel(t))`: a thread takes kernel steps only while it is on the CPU, which it is
again and again, and a quantum of 50 ms leaves it time for many.  User programs owe nothing: a program
may run for ever or never.  `ContextSwitch` assumes that the timer keeps out of the launch window,
else the launch may hang in the search.  In `LineInput`, `SF(Tick)` is the same timer and
`SF(terminal_read(t))` and `SF(ClearEnds(t))` the quantum; strong, because each is disabled again and
again, by the unguarded steps and by the timer.  The user need not press anything: `LineArrives` starts when Enter was
pressed.  In `Console` weak fairness is enough: the one terminal is scheduled,
and no other step disables the loops.  `Devices` has no liveness: `rtc_read` returns only if
handlers get the CPU back from one another, which the nesting of handlers on threads
the first switch abandoned does not grant.

## 4. Proofs

`TypeCorrect`: `Spec => []TypeOK`, for every number of terminals and slots, every
`Preemptible` and every user.  `TypeOK` is inductive by itself; the arithmetic is in
`NextTerminalType` (the search stays among the terminals), `GetPidType` and `MinIsLeast` (from well-foundedness).

`SearchEnds`: `HangsOnlyAtBoot`, for every `Preemptible` and a user who waits for the shells: the search
hangs in the first launch, between `current_pcb` (294) and `initialized_terminals` (301), and nowhere
else.  Its invariant: until a terminal is initialised, `current_pcb` is null outside those two steps.

`PatientCorrect`: `Spec => []PatientInv` for a patient user and **every** `Preemptible`.
The properties of the tree are not inductive: that a parent is alive depends on the process
being the newest of its terminal (`ForeInv`), which depends on the thread that halts being the one
of `scheduled_terminal` (`RunInv`), which the scheduler keeps only if the context it finds is of
a thread of that terminal (`ContextInv`, `LeftInv`), which a launch keeps because its slot is
nobody's (`LaunchInv`, `BaseInv`) and because one launch runs at a time (`ScreenInv`).  The
invariant is the conjunction of these, one lemma per action (`AllocPidKeeps`, ...) with one
step per conjunct.  `TreeCorrect`, `ForegroundCorrect` and `BaseSlotsCorrect`
follow, and `ParentsCorrect`: no step reclaims a process with a live child (`ParentsStay`).
The assumption `Patience = "patient"` is needed: see the hasty user in section 3.

`ContextsCorrect` (`ContextsSurvive`), if the timer spares the one step between `current_pcb`
(294) and `active_pid` (297) of `execute`.  `ContextsSurvive` speaks of terminals that are not scheduled,
but `run` and `sched` differ while a first shell starts; `ResumeInv` says the same of every
terminal that does not run, and is inductive with `PatientInv`: the timer parks a thread in the
process of its own terminal and never over a frame that is still needed (`ParkedResumes`).
`Undisturbed` satisfies the condition, and section 3 shows that it is needed.

`OwnPageKept`: `Spec => []OwnPage` for every `Windows`, any number of terminals and lines: the page that
is mapped, or that the scheduler has chosen, is the screen or belongs to the scheduled terminal, through
switches between the steps of the scheduler, edits and restarts.
`ScreensCorrect`, the refinement `LogicalScreens`, assumes that no window is open.  Its
invariant `MapInv` follows the scheduler through its phases: where the page table points, given
who is shown, who is scheduled and which branch was taken.  It shows that every write, edit and copy acts on `Home` of one
terminal.  `TextsCorrect`: no page ever has a line of another terminal (`OwnText`), because no
step of `Screens` brings one there.

`FdCorrect`: `Spec => []FdInv` for every image that satisfies the assumptions, any number of slots, descriptors and lengths.
`PromiseKept`: the refinement `KeepsPromise`, if no command is blank, the assumption that `StaleArgument`
violates.  Its core is `ByteOfText`: the division
and remainder of `read_data` find the one block and place of a byte (`OnePlace`), and
`DirectoryKind`: what was opened as a directory is read as one.

`Devices_proofs`, for any number of terminals and any depth of nesting.  `TypeCorrect` needs lemmas
on stacks (`Owes` changes the last frame, `Return` drops it).  `ServedLines` (`InServiceOwed`)
and `ClockNeverMute` (`ClockArmed`) follow each line in service, and the clock's raised line, to
a frame on some stack through every push, pop and lost context.  `ReadWaits`
(`WaitsForTick`): a set flag has been `seen` by every waiting reader, although any reader may clear it.
All of them hold with interrupts between the select of a register and its access.

`LineInput_proofs`.  `KeysInTable` (`InTable`) and `TypeCorrect` hold for every user; `TypeOK` bounds no
count.  `BufferKept` (`InBuffer`) and
`LinesKept` (the refinement `OwnLines`) assume `Orderly`: `Careful`, `Prompting` and no window.  `IInv` says
whose Enter a reader can see (`HeldInv`), that a thread between two unguarded steps has the CPU and is
on the screen (`SoleInv`), that between a write and the end of the next read nothing of the buffer was read (`FreshInv`) and that
only a line that was read has used the room of its newline (`RoomInv`).  The refinement rests on
lemmas about the unread part of a line when a character is added (`PartAdded`) or erased (`PartErased`).

`Console_proofs`.  `puts` folds `putc` over a text of any length, and the fold of the library is
a recursive function, on which no induction with a predicate is possible here.  `UpTo` is
induction over the numbers in a *set*, from the least number that is not in it (`MinIsLeast`);
`FoldDefined` unfolds the fold by it, and `PutsSteps` and `PrintedSteps` give the screen and the
paper after each character.  `TypeCorrect`: `Spec => []TypeOK`, for every `Usage`, every `Texts` and every
size.  `PlaceCorrect`: `Tidy` implies `Spec => []PlaceInv`.  Its core: scrolling the screen
moves the paper's row (`ShiftShows`), a character or a newline at the end of the paper
keeps screen and paper equal (`CharShows`, `FeedShows`), so does a text that fits its row (`TextInStep`),
the echo draws the typed line and nothing else (`LineDrawn`), and the one row that the echo
makes is there when the line wraps (`EchoRoom`).  After an edit the echo may draw on the back buffer: `LineEdited`
asks of each key what is then on the screen already, and the place that a backspace blanks is one of the
screen (`PlaceOnScreen`).  One lemma per action (`WritePlace`, ...) has one step per part.
`ScreenCorrect` (`ScreenShows`) follows.  `PlaceCorrect` also has the safety half of `WriteEnds`: a turn of the
loop 177-182 leaves `current_line` among the rows, so the byte does not wrap and every turn brings
the end nearer.  `~ strayed` is a part of it: `putc` would write behind the page (`lib.c:185`), and tidy use never
takes it there.  `Tidy` is needed: each member of `Usage` breaks `ScreenShows`, and more newlines than rows break `WriteEnds` (`LongWrite`).

Only model-checked are the liveness properties `LaunchEnds`, `TerminalsServed`, `LineArrives` and
`WriteEnds` (fairness and `ENABLED` are out of the prover's reach) and `OwnMachineState`.  `MapInv` is a lemma.
Every other property of a passing run is stated by a theorem.  Nothing is proved about the properties that the code violates.

## 5. What is left

* The kernel stack that `halt` runs on after `sti` (107), and a terminal switch while a base shell
  restarts: both need the contents of kernel stacks as state.
* `Console` for several terminals, where the back buffer of a hidden terminal scrolls.

## 6. Not modelled, and why

* `lib.c`: formatting and string functions keep no state and are used as their results; `clear`, `putc`,
  `puts`, `set_cursor`, `backspace_called` and the scrolling are in `Console` and `ScreenText`.
* `terminal_open`, `terminal_close`, `keyboard_close` and with it `disable_irq` are never called.
* Boot before the IDT is loaded: alone on the CPU, once, without interrupts.
* `char_in_line` of a program that writes more than a row without a newline (it is a byte, and
  the subtraction at `terminal.c:189` then goes negative), writes of exactly `NUM_COLS` characters,
  reads of 0 bytes.  Text behind a newline may fall below the last row (`>` at 177): `Tidy` keeps such texts out of
  the proofs, and the run has none.
* The index of a directory after 2^31 reads, an index equal to the number of entries (no caller
  passes one), and lengths that make `offset + length` wrap: the buffers they overrun are not modelled.
* `tests.c` is compiled but not run, the user programs may do anything, and the host tools and
  disk images have no source in the repository.
* Memory contents other than the ones named: images of programs, stacks below the saved
  frames, buffers of programs.
