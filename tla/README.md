# A verification project for Operating-Systems-and-System-Programming

The repository holds four C programs of an operating-systems course: a
multi-threaded **spooler**, an **HTTP server** in four versions, a **shell**,
and a **word counter** in four versions with a linked-list library.  This
directory models them in TLA+, checks the models with TLC and proves what
matters most with TLAPS.  Every program is modelled and checked on small instances,
and nearly all of the safety properties are proved for every size: those of the spooler in
all its executables, of the HTTP servers and the handling of a request, of the word
counters, of the list library, of the shell and of the counter exercise.  What is only
model-checked is listed under "Proofs".

## Inventory

| Component | State | Operations | Interaction and what is hard | What makes it correct |
|---|---|---|---|---|
| Spooler ring buffer (`spooler_shared.c`) | two indices, free-slot counter, array of strings | init, empty, full, insert, remove | no locking of its own; overwrites when full | indices and counter agree; first in, first out |
| Spooler synchronisation (`spooler_safe.c`, `spooler_one_cv.c`, `spooler_two_cv.c`, `spooler.c`) | mutex, one or two condition variables, shutdown flag | insert, remove, shutdown, in three implementations chosen at build time | polling; lost and misdirected wake-ups; shutdown without the lock | bounds; no lost wake-up; NULL only when drained |
| Spooler threads (`producer.c`, `consumer.c`, `main.c`, `main_killed.c`) | one local string per thread, counts, join state | create, produce, print and free, join, shut down | creation fails half-way; order of joins and shutdown; program ends with work left | every string printed once; termination |
| Single-threaded spooler (`spooler_unsafe.c`, `api_tests.c`) | the buffer | insert, remove | full and empty edges | bounded queue that refuses when full |
| HTTP work queue and pool (`wq.c`, `httpserver_pool.c`, macros of `utlist.h`) | doubly linked list, size, mutex, condition variable, workers | push, pop, handle, close | broadcast with re-test; item freed outside the lock; descriptor numbers reused | each connection served and closed once; list and size agree |
| HTTP dispatch (`httpserver_basic.c`, `_thread.c`, `_process.c`) | descriptors, threads, children | accept, spawn, close, reap | fork or thread creation fails; zombies | no connection or child is forgotten |
| HTTP requests (`server.c`, `libhttp.c`) | request, response progress | parse, classify, serve file or directory | file removed between stat and open; partial writes; the client sends in pieces or leaves | one complete response per request |
| Shell (`shell.c`) | words, descriptors, process groups, the terminal's foreground group | built-ins, run, redirect, wait | terminal hand-over race; a stale descriptor between commands; an array of arguments without an end | output goes where the line says; shell regains the terminal |
| Tokenizer (`tokenizer.c`) | mode, buffer | tokenize | quotes and escapes | tokens equal a reference definition |
| Counter exercise (`Shell/threads.c`) | shared and per-thread counts | count to a limit | limit tested outside the lock | per-thread counts add up |
| Word counts (`word_count*.c`, `word_helpers.c`, `words.c`) | a word that is read; list of words with counts | cut words from a text, add, find, sort, print | words at the end of a file, of one letter; insertion sort in a linked list | counts equal occurrences; sorted |
| `pwords.c`, `fwords.c` | shared list with a lock; pipes and children | count per file, join, merge | races on the list; pipe ends left open, full pipes | same result as the sequential program |
| List library (`list.c`) | doubly linked list with sentinels | insert, remove, splice, reverse, sort, unique, min, max | pointer surgery; natural merge sort | links stay symmetric; stable sort |
| `debug.c`, `pthread.c`, `gutenberg/`, `files/`, PDFs | - | - | demonstration code and data | not modelled |

The hazards of each, at their lines, are in `PROJECT.json`.

## Modules

| Module | Models | Role |
|---|---|---|
| `Pthreads` | a POSIX mutex and condition variables, as they are used here | external; extended by every threaded model |
| `SpoolShared` | `spooler_shared.c` | the ring buffer; each function is one step, its callers decide what may interleave |
| `SpoolerUnsafe` | `spooler_unsafe.c` | the single-threaded calls |
| `Spooler` | `spooler*.c`, `producer.c`, `consumer.c`, `main*.c`, Makefile | the threaded program; extends the two above |
| `SharedQueue` | the promise of `spooler.h`, `consumer.h` and `wq.c` | abstract first-in first-out queue; `Spooler` and `HttpServer` implement it |
| `WorkQueue` | `wq.c` with the macros of `utlist.h` it uses | the list's pointers, its size and its malloc'ed nodes |
| `HttpServer` | `httpserver_*.c`, `serve_forever` and the ways a handler can end | the four servers; extends `Pthreads` and `WorkQueue` |
| `HttpRequest` | `handle_files_request`, `serve_file`, `serve_directory`, `libhttp.c` | one request from `read` to the last `write` |
| `PintosList` | `list.c` | pointers, and the loops step by step |
| `WordList` | `word_helpers.c`, `word_count*.c`, `less_count` | words cut from characters; lists of words as sequences of entries |
| `WordCount` | `words.c`, `pwords.c`, `fwords.c`, `count_words` | the four counters; extends `WordList` |
| `Tokenizer` | `Shell/tokenizer.c` | a fold over the characters of a line |
| `Shell` | `Shell/shell.c` | words, descriptors and terminal of the shell and its children; extends `Tokenizer` |
| `CountThreads` | `Shell/threads.c` | the counter exercise |
| `MC...` | - | constants for TLC, symmetry |
| `SpoolerProofs`, `HttpServerProofs`, `HttpRequestProofs`, `WordListProofs`, `WordCountProofs`, `PintosListProofs`, `ShellProofs`, `CountThreadsProofs` | - | TLAPS proofs |

### How `Spooler` corresponds to the code

One step is one pthread call, or the code between two of them.  `pc[t]` says
where a thread is: `call` before `pthread_mutex_lock`, `test` at the loop's
condition, `resignal`/`wait`/`asleep` in the loop's body, `access` before
`spool_insert_unchecked` or `spool_remove_unchecked`, `signal` and `unlock`
after it, `loop` back in `producer` or `consumer`.  The helpers (`Lock`,
`Test`, `Signal`, `Sleep`, `WakeUp`, `Unlock`, `Store`, `Take`) each stand for
one such line, and `spool_insert_safe`, `_cv1`, `_cv2` and their removals are
built of them line by line.  `build` is the executable that runs; it is chosen
in `Init`, so that every property is about all four threaded executables.
`spooler1` and `unit_tests` are single-threaded by their documentation; what
they call is `SpoolerUnsafe`, where any sequence of insertions and removals on
any buffer takes the place of the few in `api_tests.c`.
`main` walks through `run_threads`: `create` (one thread per step, which may
fail), `join`, `shutdown`, `broadcast`, `reap`, `exited`.  `heap` holds the
malloc'ed strings, so that freeing twice or losing a string is visible.

Strings are pairs `<<producer, number>>`, the two things `producer.c` prints
into them.  `shutdown` is written without the lock and read under it: it is an
atomic flag in the model, and the write and the broadcast are two steps that
anything may interleave with.

`overlap` is about the Makefile: `main.o`, `consumer.o` and `producer.o` are
compiled without `-DPARTn`, so `main.c` reserves a shorter `spool_t` than
`spooler_safe.c` initialises.  Where a linker puts `nprods`, `ncons` and
`nstrs` right behind it, initialising the mutex zeroes them.  `overlap` is
whether it does.

### How `HttpServer` corresponds to the code

`build` is again the executable.  `serve_forever` is `main`: it accepts (the
lowest free descriptor, as the kernel hands it out), and then one of the four
`dispatch_...` runs.  A handler is three steps: `http_request_parse` (blocks
until the client said something), `Answer` or `Crash`, `close`.  `table[p]` maps
the descriptors of process `p` to connections; threads use the server's, a child
has a copy.  So a descriptor closed twice, or used after it was closed and
accepted again, hits a different connection in the model as in the system.
`wq_push` and `wq_pop` are taken apart at every pthread call and at the access
to the list; `WorkQueue` has `DL_APPEND` and `DL_DELETE` pointer by pointer, and
`calloc` may return a node that was freed before.

A client says one of three things: a *request*, to which some response is sent;
something *unreadable*, a file that `stat` finds and `fopen` does not open, so
that `serve_file` works on NULL; or it *hangs up*, whatever it sent, so that the
connection may be aborted before `accept` or a `write` may raise SIGPIPE.  What
happens inside a handler is `HttpRequest`.  `Scarce` lets `fork` and `pthread_create`
fail.  An interrupt reaches the server process and not its children.

### How `HttpRequest` corresponds to the code

One call of `handle_files_request`.  `http_request_parse` takes what one `read`
returned, the first `LIBHTTP_REQUEST_MAX_SIZE` characters of what has arrived,
and walks over it with `past`, which stands for each of its pointer loops.
`handle_files_request` decides (`parsed`, `strstr`, `stat`), and then each
`dprintf` of the head is a step (`http_send_header`), and each `write` of
`http_send_data` is one that takes as much of the data as it likes.  The items of
a response are a status line, a length, bytes numbered by their position.

The file system moves in between: `Replace` gives the path, or `index.html` in
it, a new meaning between `stat` and `fopen` or `opendir`, and `Resize` changes
the open file between `ftell` and `fread`.  Then the length is the old one; bytes
that are not there any more are what the stack held (`junk`).  A file that cannot
be opened and one longer than the stack crash the process, `ftell` of a directory
may be anything, and -1 makes `write` fail.  The client sends in pieces and may
close or reset the connection at any moment; the first `write` to it may still
work, or fail, or kill (SIGPIPE).

### How `PintosList` corresponds to the code

Nodes are the elements and each list's head and tail; `next` and `prev` are
total functions that keep the stale links of removed elements.  `list_insert`,
`list_remove` and `list_splice` are single steps with the assignments of the
code in their order; pushing and popping at an end are insertions and removals
there.  Functions with loops take a step per iteration.  All a comparison
function can tell is the order, so keys are ranks without gaps (`Rankings`):
four elements then have every pattern of equal and different keys.  `was` holds the
lists at the call and `passed` the one at the start of a pass, for the properties that
compare them with the result.  `Contents` follows `next` from a head and is defined for
any links, also those that lead nowhere.  `find_end_of_run`, a loop that changes nothing, is
the first node of the list's `Row` that is the tail or less than the one before.
Two assumptions say what addresses are: the elements are finitely many and none is the
head or tail of a list, and NULL is neither a node nor a list.

### How `WordCount` corresponds to the code

A text is a sequence of characters: `k` is a letter, `-k` its capital and 0
anything else, so that `get_words` is the loop of `get_word` with its buffer, and
`strcmp` is what C has.  `words` and `lwords` run
in `main`, `pwords` in a thread per file (`add_word` in four steps: lock,
`find_word`, update, unlock), `fwords` in a process per file.  `pipe` takes the
two lowest free descriptors and a child copies the table, which is what decides
when a reader meets the end of a pipe; a pipe holds `Capacity` lines.  `fopen`,
`fork` and `pthread_create` may fail.  `list_sort` is abstracted to what
`PintosList` checks, the insertion sort of `word_count.c` is modelled.  `malloc`
does not fail.

### How `CountThreads` corresponds to the code

`threadfun` is taken apart at the test, the lock, the load and the store of
`global_count++`, the thread's own increment and the unlock; `main` holds the
lock while it creates the threads, which may fail.  The unlocked read of
`global_count` is one atomic load, as for an aligned `long`; the calls of the
mutex in between keep the compiler from moving it out of the loop.

### How `Shell` corresponds to the code

`Tokenizer` reads a line character by character: its state is that of the loop
in `tokenize` (mode, escape, token, the words so far), `turn` is the body of the
loop and `abort` what happens to a token of `n_max - 1` characters.

`ReadLine` is everything up to the decision what to run: `tokenize`, then `scan`
for each word, which opens redirections one after the other (each at the lowest
free descriptor, so that all but the last leak), reads the words of a file behind
`<` into the array `a`, which doubles there, or stores a word without a look at
the length of the array (`overrun`: the process may die).  `get_cmd` is whether
the word names a program, as it is or along `PATH`; which directory it is found
in is not modelled.  A descriptor table maps numbers to what is open there: the
shell's own input or output, an end of the pipe, a file.
The shell's further steps are the system calls that a child can tell apart: `Fork`
(with `pipe` before and `close(fd)` after it), `setpgid`, `Foreground`, `Feed`,
`waitpid`, `Back`, `NextLine`; the child's are `accept_signal` (until then it
ignores signals, as the shell does), `setpgrp`, `exec` (with its redirections),
`Exit` and `Stop`.  They interleave freely, and `fork` and `execv` may fail.
Nothing puts a NULL behind the last argument; `exec` may find one by chance.

`fd` is a local variable of the loop that is set by a redirection only.  In the
model it holds any of `Garbage` at first and keeps its value from line to line,
as it does in the program that the Makefile builds with gcc (0 at first).  So a
line without a redirection uses, and closes, whatever descriptor has that number
by then, its own pipe among them.  `SIGCHLD` is ignored: a child that has ended
leaves no zombie, `waitpid` and `getpgid` fail for it, and with -1 (`fork` failed)
`waitpid` waits for every child.  `Foreground` hands the -1 of `getpgid` to
`tcsetpgrp`, as `shell.c:334` does; it is the kernel that refuses it there.  The standard error is the descriptor of the
output; reading the terminal in the background stops a child (`SIGTTIN`) and
gives the shell, which ignores it, an error.

### Slips

Definitions called a *slip* are mutations: plausible mistakes at the place they
precede.  Each property of a passing run is violated when one of them replaces
the definition it mutates; `PROJECT.json` pairs them.

## Runs

| Run | Question | Result |
|---|---|---|
| `MCSpooler.cfg` | Are `spooler2`, `spooler2_killed`, `spooler3`, `spooler4` safe, is all printed, does `spooler3` end? | holds, 264332 states |
| `MCSpoolerShutdown.cfg` | Does the shutdown reach every consumer of `spooler4`? | **violated** |
| `MCSpoolerLayout.cfg` | Is all printed where the counts lie behind the spooler? | **violated** |
| `MCHttpServer.cfg` | Safety of the four servers with every failure | holds, 505316 states |
| `MCHttpServerLive.cfg` | Is a client attended although another keeps silent? | holds, 31469 states |
| `MCHttpRequest.cfg` | Is one well-formed response sent, the one that is due? | holds, 1456679 states |
| `MCPintosList.cfg` | All operations of `list.c` on lists of up to four | holds, 628144 states |
| `MCWordCount.cfg` | Do the four counters agree, and end? | holds, 79037 states |
| `MCShell.cfg` | Does the prompt come back, does redirected output go to its file, are words what was meant? | holds, 673872 states |
| `MCShellForeground.cfg` | Is a program put in the foreground? | **violated** |
| `MCShellArguments.cfg` | Is a program that was found executed? | **violated** |
| `MCCountThreads.cfg` | How far past the limit, is a count lost? | holds, 23418 states |

**Bounds.**
* Spooler: two producers, two consumers, two strings each, two slots (the
  smallest `main.c` accepts).  Four strings through two slots fill the buffer
  and wrap both indices twice; two threads of each kind are what wake-ups of the
  wrong kind, two waiters on one variable and hand-overs between consumers need.
  Three strings each (289034 states) give the same results.
* HTTP: three clients on two descriptors, so that a number is used again while
  another connection is open and the backlog waits for a free one; a pool of two
  beside a third thread or child, so that workers race for one item and two
  children can be zombies.  Liveness: two clients, one of which may keep silent.
* HTTP requests: three well-formed requests (one without a version, one with a
  path that contains `..`, one with `..` behind the path only), one longer than
  the buffer of `LIBHTTP_REQUEST_MAX_SIZE` = 7 characters, so that its end is
  never read, and four that are refused, one for the byte 0 in it; files of up to `MaxSize` = 3 bytes, of
  which `Stack` = 2 fit on the stack, so that a `write` can take a part, nothing
  is left to write, and a file can be too long; one change of the file system,
  which is what each hazard needs.  Changes that no later step could notice,
  before the `stat` or after the `fread`, and characters behind the only `read`,
  are left out of `Replace`, `Resize` and `Arrive`.
* Lists: four elements on two lists are the smallest with two merges in one pass
  and a second pass, equal elements across a run boundary, and a duplicate
  between others.  `MaxRemoved` bounds how many removed elements lie about with
  stale links at a time.
* Words: three files, each with one of four texts: nothing; a letter and `ab`; `ba`, `AB`
  and `ba` at the very end; `aba` and `Ba`.  So there are words of one letter, words
  that repeat within and between files, and words that begin alike.  Pipes hold one
  line, so that children block.
* Shell: three lines, so that two can leave descriptors, a stale `fd` or a stopped
  program behind for the third; seventeen lines of every kind, with none, one or
  two redirections, quoted operators, a missing operand, a file behind `<` whose words
  fill the array; 0, 7 or -1 as the first `fd`.  6 is left out: the first pipe gets
  5 and 6, and `cat` on the first line, with its own pipe's write end as its
  output, would never end (`PromptReturns` fails with `Garbage` = {6}).  `MaxFd` = 12 is above
  what three lines can leak.  `NMax` = 4 makes a word of three characters too long.
* Tokenizer: all words of up to two characters out of a letter, a blank, both
  quotes and the backslash, and some of three, each quoted in every possible way,
  alone and next to a second word.  Each state of the loop (mode, escape, empty or
  not) with each kind of character occurs.
* Counter: three threads, limits from -1 to 4.

Identities are symmetric in the safety runs of the servers and the lists.
Deadlock is not checked where the program ends or waits for clients.

**Fairness.**  `main` runs on (weak fairness), and in the spooler and the
servers each thread is treated strongly fairly: a thread that tries to lock a
mutex again and again gets it.  POSIX promises only that some waiting thread
does, but schedulers and futexes provide it, and without it even the polling
version could starve.  The word counters and the counter exercise need weak
fairness only, because their work is finite.  The handler of a request runs on
(weak fairness), and its `write` returns: a client that stays takes what it is
sent.  In the shell, the shell and its children run on, and a program ends unless
it is stopped or reads from a pipe whose other end is open (`Ends`).  Nothing is assumed of
`pthread_cond_signal`'s choice, of spurious wake-ups, of clients, or of
`pthread_create` and `fork` failing.

**What the violations show.**
* `spool_shutdown_efficient` sets the flag and broadcasts without the lock.
  Both can happen between a consumer's test and its `pthread_cond_wait`, which
  then sleeps for ever: in `spooler4` a consumer that leaves signals `pro_cv`
  only.  In `spooler3` it signals the one variable there is, so with a second
  consumer the sleeper is rescued (`Terminates` checks exactly that): a consumer
  about to sleep wakes another one first, so that two need no broadcast at all.
* With a compiler that lays globals out in order (gcc 10 and later),
  `spooler3 2 2 2 2` creates no thread; an older or `-fcommon` build may work.
* The shell closes standard input with its uninitialised `fd` before it calls
  `tcsetpgrp` on it, which fails: the first program stays in the background,
  where reading the terminal or the suspend key do not work as meant.  Its
  output goes to descriptor 0, and that of a later line without redirection to
  whatever `fd` still names.
* The array of arguments has exactly as many entries as the line has words, and
  nothing writes a NULL behind the last.  Where the heap holds none by chance,
  `execv` fails, or passes on arguments that nobody wrote.

**Deviations without a run of their own.**  The models contain these; no property
excludes them.
* `httpserver_process` reaps at most two children per connection
  (`httpserver_process.c:28`), where the comment says all: zombies add up.
* `fwords` closes the number after the read end instead of the write end
  (`fwords.c:91`).  They coincide unless a descriptor in between is open at the
  start: with 3 free and 4 inherited, the parent waits for the end of a pipe that
  it holds open itself.  `Terminates` assumes that only 0, 1 and 2 are inherited (it fails with 4 as well);
  that the read ends survive is proved whatever is inherited.
* A request that comes in two segments is judged by the first one and answered
  with 400 if that is not a whole line; a second `read` is never made.
* `index.html` that is a directory is opened and sent as a file of arbitrary
  length (`Promised` excludes it); a file is read into an array on the stack.
* The words of a file behind `<` may fill the array `a`, and the next word of the
  line is stored behind its end (`shell.c:276`).

What follows a failed `pthread_create` is not judged either.  In the spooler
(`main.c:73`) the behaviour ends with `exit(-1)`, whatever the other threads do
until the process is gone; in the pool (`httpserver_pool.c:34`) workers may be
missing, even all of them, and sockets then wait in the queue for ever.

Two hazards are outside the models: `main_killed.c:89` ends the program with
consumers at work and strings unprinted, which is its purpose, so no property is
due; and a count of nine digits is split on its way through a pipe of
`fwords` (`fwords.c:44`), whose lines are entries in the model.

## Properties of the spooler

`MutualExclusion`, `NoOverwrite`, `RingOK`, `ExactlyOnce`, `NullMeansDrained`,
`AllPrintedAtExit` and `NoLostWakeup` are invariants; `RefinesQueue` says that
the program implements `SharedQueue` with the buffer's contents as the queue and
`str` of the consumers as what they were given; `AllPrinted` and `Terminates`
are liveness properties.  `NoLostWakeup` counts: with two condition variables
there are never more strings than consumers on their way and signals to come
while a consumer sleeps.  Of the single-threaded calls, `Queue` says that they are
a bounded queue; it is proved, for any number of calls, and not run.

## Properties of the other components

* **Servers.** `QueueOK` (links, size and live nodes agree, and a pop finds an item),
  `Custody` (each open descriptor has exactly one keeper), `ServedOnce`,
  `NoLostWakeup`; `RefinesFifo`: the pool's list is a `SharedQueue` of
  descriptors; `Attended`: enough silent clients are the only thing that keeps
  another from being attended.
* **Requests.** `OneResponse`: what was written is at every moment the beginning of
  one response, with a body as long as announced, and all of it at the end unless
  something failed, whatever the files do meanwhile.  `Promised`: if nothing changes and the
  client stays, it is the response that `server.c:101` calls for, where `Expected`
  says what a request is with positions in the text (`Asks`) instead of a walk over it:
  a byte 0 in the line makes it none.
  `Returns`: the handler ends once the client said something or left.
* **Lists.** `LinksOK` (the symmetry the comments of `list.c` rely on), `SortOK`
  (a stable rearrangement at every step, sorted at the end), `MergeOK` (the
  asserted precondition of `inplace_merge`, in each of its iterations, and the runs
  halved in every pass, which is the reason for the O(n lg n) bound), and
  `ResultOK` for what reverse, insert_ordered, unique, max and min promise.
* **Words.** `Counted` (between files, lists and pipes no occurrence is lost or
  counted twice, and no list has a word twice), `ReadEndsKept`, `OutputOK` (what
  is printed is sorted and has the occurrences that `Stretches` finds in the texts
  of the files that could be read), `Terminates`.
* **Shell.** `PromptReady`: at the prompt the shell has its own input and output
  again, is in the foreground and has left no pipe open; `RedirectKept`: a program
  with a redirection writes to that file and inherits no end of a pipe but the
  one that `cat` reads.  Without a redirection the output may go elsewhere (see
  above).  `PromptReturns`: every line comes to its end, unless the shell dies, or
  `fork` failed while a child is stopped.
* **Tokenizer.** `TokensOK`: `tokenize` is the inverse of quoting; words written in
  any way that `Stylings` allows come back, in any position, and a word aborts
  the shell exactly when it is too long.
* **Counter.** `OvershootBounded`, `CountsAddUp`, `Terminates`; that the lock is
  held where it should be (`LockHeld`) is proved.

## Proofs

**Spooler.**  For every number of threads, strings and slots, every executable and layout:
`TypeOK`, `MutualExclusion`, `NoOverwrite`, `RingOK`, `ExactlyOnce`,
`NullMeansDrained`, the refinement of `SharedQueue`, and `AllPrintedAtExit` where
the layout is harmless and there is a consumer, and `NoLostWakeup`.  The assumptions
are those named in the modules: the sets of threads are finite and disjoint and do not contain `Nobody`,
the buffer has at least one slot, the pairs are strings, and the pointers `NULL`
and `Garbage` are not.

None of these is inductive alone: that a removed string is alive needs
`ExactlyOnce`, that a store has room needs the lock, that an empty removal
happens only at the end needs to know that a shutdown comes after the last
producer.  `IInv` is their conjunction with `LifeCycle`, which says what `main`
and the threads have reached when.  The argument has three layers:
the first lemmas show what an operation does to the slots in use and to the
contents as a sequence, the only place with index arithmetic; `InsertSteps` and
`RemoveSteps` reduce the three implementations to the same few steps; and one
lemma per step shows that it preserves `IInv`.

`NoLostWakeup` (`WakeUps`) is proved on top of it.  `WakeInv` says who waits on which
variable (`Sleepers`), that a thread about to wait still has a reason to
(`StillBlocked`: nobody else had the lock since its test), and that with one
variable it has woken somebody first, who is still on the way, unless nobody
waited (`PassedOn`).  The two halves about two variables are one argument,
`Balance`: a step that adds work adds a thread that will signal, a signal turns
one that will signal into one that is coming, and work is taken only by one that came.

**Single-threaded spooler** (at the end of `SpoolerProofs`).  `Consistent` and `UnsafeQueue`, for
any size of the buffer: the indices, the counter and the slots agree after any
sequence of calls, and the two functions are those of a bounded queue.  The
invariant is the one of the ring (`RingTypeOK`, and `Filled`: the slots between
the indices hold strings), and the lemmas about an operation are those that the
threaded spooler uses too.

**Servers** (`HttpServerProofs`).  Every safety property of the four servers, for
any number of clients, descriptors, threads, children and nodes: `TypeOK`
(`WellTyped`), `QueueOK` (`QueueSound`), `Custody` (`Custodians`), `ServedOnce`
(`Answered`), `NoLostWakeup` (`NobodyForgotten`) and the refinement of `SharedQueue`
(`Refinement`).  Assumed is that there are finitely many descriptors and addresses
(a process has a table of bounded size, and a pointer a bounded width), and that
`NULL` is neither.  The argument has four parts.
* `WakeInv`: whoever is between lock and unlock has the mutex (`LockHeld`), and a
  worker about to wait has seen an empty list that is still empty (`Idle`).
* `ServeInv`, the servers without a queue, is the bookkeeping of a fork: a child's
  table has its connection and nothing else that is open (`ChildHasOne`), two
  processes hold a connection only while the parent has yet to close its copy
  (`Alone`), numbers in use are different (`Distinct`), the connection is answered
  before it is closed and at most once (`Answering`, `AtMostOnce`).
* `NodeInv`: the list is well formed and the live nodes are its own and those about
  to be freed.  The nodes of `WorkQueue` are defined by recursion along the links, so
  first comes that this recursion defines something: `Iterated`, from induction
  over a *set* of numbers (`SetInduction`), which needs no operator as parameter.
  `SameWalk` compares the walks before and after a step, and with it
  `AppendList` and `TakeList` show that `DL_APPEND` lengthens the list by one node at its end and
  `DL_DELETE` takes off the first and leaves the others in place.
* `FileInv`, the server with a pool: each open descriptor is held by exactly one thread or
  one node (`HeldByThread`, `HeldByNode`, `HeldByOne`, `HeldBySome`), unanswered up to the
  `close`.

The length of the queue is bounded by the descriptors because its nodes hold
different ones (`FewWaiting`), and an insertion finds room in the abstract queue
because the nodes are different addresses (`RoomToAppend`).

**Lists** (`PintosListProofs`).  For every number of elements and of lists: `LinksOK`, `SortOK`,
`MergeOK` and `ResultOK` (`LinksInvariant`, `SortInvariant`, `MergeInvariant`,
`ResultInvariant`).  They rest on two layers.

The first is about pointers.  `InsertChain` and `RemoveChain`: a list of any length, as a
chain of nodes linked both ways, becomes the chain with the element or without
it, and another list is not touched.  `SpliceChain` and `SpliceBetween`: so does
`list_splice`.  Within a list it exchanges two neighbouring parts (`ExchangeChain`:
three links, turned at once), also when BEFORE is LAST, where nothing changes; from one
list into another, the part is missing in the one (`CutChain`) and in its place, in order,
in the other (`PastedChain`), whether or not it reaches up to the tail.  `ContentsOfRow` leads from
links to sequences: if the nodes of `s` are linked one to the next from the head to the
tail, `Contents` is `s`, because no more than all elements fit in a list.  With it the
calls become operations on sequences: `list_insert` makes `With(s, i, x)`, `list_remove`
`Without(s, i)`, and so on.

The second is the inductive invariant `IInv`, which TLC also checked on the instance
of the run.  `LaidOut(Lay)` says that every list is linked both ways and no element is
twice on the lists; that is `LinksOK`, but for the list that `list_reverse` is turning:
there `Lay` is the list of the call, and `HalfTurned` has the links of each node, turned
before `elem` and not yet from there on, and the ends still as they were.
`Facts(Lay)` has for each loop where it is in the list and what it has achieved; without
the place nothing can be said of the next pointer it follows:

* `list_sort`: `AtLocate`, `AtMerge` and `InEndOfPass` put `a0`, `a1b0` and `b1` at places
  `p <= q <= r` of the list.  A merge that began at `st` has its result in `st` to `p - 1`,
  in order, and neither of the two runs still to be merged begins with less than its end
  (`Merging`): so the elements that are brought before `a0` go to the end of the result.
  `SortOK` is kept because one is brought only before greater ones (`StableBrought`).
  Its counting is in `Drops`, the places where a run ends.  `Counted`: two runs
  of the list as it was make one of `runs`, so that `runs` is at most half
  of the drops passed so far; and the list has fewer drops than `runs` up to `a0`, whatever
  the merge made of them.  Behind `b1` the list is still the one of the pass.
* `list_insert_ordered` (`InSearch`): nothing before `elem` is greater than the new element.
* `list_unique` (`InUnique`): `Kept` is a map from what is left of the list to what it was,
  which grows, meets exactly the positions to come and the `Leaders` of the groups that
  were passed, and ends with all that is behind `elem`; `SetAside`: the others are, in their order, behind what the
  list of duplicates had.  That the last kept element equals the last one looked at makes comparing with
  `elem` the same as comparing neighbours of the old list.
* `list_max`, `list_min` (`InExtreme`): `best` is the earliest extreme of those before `elem`.

**Requests** (`HttpRequestProofs`).  For any texts, file sizes, stack and number
of changes: `TypeOK` and `OneResponse` (`RequestTyping`, `Framing`), from
`RequestInvariance`.  `OneResponse` only says what has been written; the invariant
says what is still to come.  `BodyOK`: nothing is ready to be sent before
the body is known, and then it is at most as long as was announced.  `OnTheWay`:
what was written together with `pending`, the items and data that wait, is one of
the `Targets` of the `stage` the handler has reached (the head of a response, or a
whole one); after a failed write, what was written is the beginning of one.  A
change of a file changes none of these, which is why it can do no harm.
`Promised` (`PromiseKept`) for texts of any length: `ParsedIsAsked` and `AskedIsParsed` show that
the loops of `http_request_parse` stop where `Asks` says they must, so that `Paths` is
the parsed path or nothing and `Decision` follows; `PInv` then carries the `Expected`
answer from one `stage` to the next, while no file changes and the client stays.
(Trying to prove it showed that `Asks` forgot the byte 0, which ends the string that
the parser sees: a line with one in it is no request.  Now it says so, and a text has one.)

**Words** (`WordListProofs`, `WordCountProofs`).  Every safety property of the four
counters, for any number of files, all texts and any inherited descriptors: `TypeOK`
(`WordCountTyping`), `Counted` (`CountsKept`), `ReadEndsKept` (`ReadEnds`) and `OutputOK`
(`ResultRight`).  Assumed is `FilesAssumption`: there is a file, a pipe holds a line, a text is a
sequence of characters, and each pipe finds two descriptors.

`WordListProofs` is about the functions, whatever list or text they get.  All loops are
folds, so first comes how to follow one: `CharReach` and `InsertReach` turn
`FoldLeft` into a sequence of intermediate results, and the sums are taken apart by
induction over the set of parts of a finite set for which a claim is true
(`SumTake`, `SumChange`, `SumCut`, `SumMap`); no induction takes an operator as
parameter.  With that: `wordcount_insert_ordered` keeps a list in order although it
starts its search behind the first entry (`InsertSorts`), so the insertion sort ends with the
same entries in order (`SortedList`), which also shows that what `list_sort` is asked for exists
(`SortIs`); `add` adds to the count of one word and to no other (`AddCounts`); and `get_words`
finds the stretches of letters one by one, each once (`Lexing`, `Lexed`), so that a word of two or
more letters is found as often as it is in the text (`WordsFound`).

`WordCountProofs` has five invariants, each resting on those before it.
* `PipeInv`, for the read ends.  The danger is that the descriptor after a
  new read end is the read end of another pipe, which `main` would close.
  `Behind`: every descriptor up to an earlier read end is taken, so a new read
  end lies behind them all, and what follows it is none of them.  That there is a lowest free
  descriptor is `Room`: at least two for each pipe to come, as each round takes at
  most two.
* `TwinInv`, what the lock of `pwords` is for: a thread between lock and unlock is
  its holder, and what `find_word` told it is still true of the list when it uses it
  (`LookUp`).  So a list has each word in one place, and sorting keeps that (`OnePlace`).
* `TypeInv`: the types, and that a thread which has looked a word up still has it (`Holding`).
* `Balanced`: for each word, what `main`'s list counts together with what is
  `Pending` for each file (in the child's list, in the pipe, not yet read) is what the texts
  have.  A step takes from one file what it gives to a list (`Moved`).
* `Fates`, what becomes of a file: nothing is taken from it before it is opened, nor if that
  failed (`Intact`); a reader that ends has nothing left (`Progress`); and `main` passes a file only
  when its reader has ended and its pipe is empty (`Passed`), because a child holds its write
  end until it ends (`Scheduled`).  At the exit nothing is then pending but the files that could
  not be read, and `Balanced` says what the list has.

**Shell** (`ShellProofs`).  For any lines, any number of them and any files:
`TypeOK` (`ShellTyping`), `PromptReady` (`PromptIsReady`) and `RedirectKept`
(`RedirectionKept`).  Two assumptions are in `ShellAssumption`: a line is a sequence of
characters and a word of a file is not empty, and there are enough descriptors for what the
lines can leak (`Leaks`); a shell that runs out of them is not modelled.  The last two theorems have a
hypothesis: the variable `fd`, which is not initialised, does not start as 3 or 4,
the two copies that `dup` returned.  The hypothesis cannot be dropped: with
`fd` = 3 the first line that runs a program closes `saved_stdout`, what is opened next becomes
descriptor 3, and `dup2` restores that.  With the gcc of the Makefile it is 0.

`IInv` adds to the types how high the descriptors reach: `HighWater`, above
`Base(n)` only the pipe of the line is open.  A line of *m* words leaks at most *m* / 2
descriptors, because a redirection takes two words; that is an invariant of the
loop over the words (`Scanned`), proved for each word in `ScanStep`.  `Scanned` also says that
nothing that was open is touched (`Opened`) and what `fd` is after the last redirection (`Result`),
although which words are operators is defined by recursion (`Marks`: `>` behind `>` is
a file's name).  The folds over characters and words are followed by
`TurnReach`, `ScanReach` and `ReadReach`, inductions over a set of numbers.
`SInv` is what the two properties need: the copies of input and
output are never closed (`Saved`), standard input and output are right from
reading to running (`Standard`), the terminal is away only while the shell can take it
back (`Terminal`), the ends of a pipe are where `tube` says (`PipeHeld`), and the only child that
starts or runs is that of the last line, with the whole pipe and the right `fd`
until it calls `execv` (`ChildOf`).  Each step preserves it.

**Counter.**  For every number of threads and any limits: `TypeOK`, `LockHeld`,
`OvershootBounded` and `CountsAddUp`.  The bound is not inductive; `Budget` is: the count plus
the threads that have passed the test (`Committed`, they will count whatever
happens) is at most the limit plus the number of threads less one.  A thread
commits only below the limit, when at most all the others have.  That a store
adds exactly one needs `Fresh`, and that needs the lock.  The sum of the threads' counts
is a function defined by recursion; that there is such a function (`SumAdds`), and that one
count more makes the sum one more (`SumOfOneMore`), are inductions over the set of
numbers for which it is true.  `Tally`: from `fire` on the shared count is that sum, and
one more while somebody is between its two increments.

**Only model-checked**: the words of `tokenize` (`TokensOK`), where the reference is
defined by recursion over operators.  Liveness under fairness is out of the prover's reach for good.

## Not modelled

In which directory of `PATH` a program is found, continuing a stopped program,
wording of output and of directory listings, the MIME type, the options of the
servers' command lines, `malloc` returning NULL, `pipe` out of descriptors, the
copies of unwritten output that a forked child inherits in its stdio buffers,
and `init_shell`'s wait for the foreground (`shell.c:138`): the model starts behind it.
`debug.c` and `pthread.c` (demonstrations: a loop to step through, threads that print addresses),
the `LL_` and `CDL_` macros of `utlist.h`, which nothing uses, and the course
material are not modelled.

## Plan

Done: the ring buffer, the spooler in all its executables, its queue refinement
and proofs; the HTTP servers and the handling of a request, with proofs; the list
library, with proofs; the word counters from characters to output, with proofs; the
tokenizer, and the shell with its proofs; the counter exercise with its proof.
Every safety property that a run checks is proved for every size but `TokensOK`, for which the
reference `Stylings` would have to be said with positions in the line, as `Asks` is for requests.
