# A verification of Cheviot's root servers

This directory models `sysinit`, process 1 of CheviotOS, and the four servers
beside it in TLA+, checks the models with TLC and proves their safety properties
with TLAPS. The modules are translated from the C code; `PROJECT.json` gives,
for every definition, the lines it stands for.

## Inventory

The repository holds five programs. One is a real state machine, four are
skeletons of message port servers.

| Part | State it keeps | Operations |
|---|---|---|
| `sysinit/main.c` | `state` | the loop that runs the handler of `state` and stores what it returns |
| `sysinit/run_s.c` | the two scripts in memory, `src`, `linebuf`, the place in the line (`ch`), `start_argv`, `portid`, `kq` | load both scripts, read a line, cut it into words, run it: `start`, `waitfor`, `mknod`, `sleep`, `chdir`, `pivot`, `renamemount`, `createport` |
| `sysinit/sessions.c` | `session_list` (per session: pid, flags, device, getty arguments); in a child its descriptors and terminal | start all sessions, collect an ended child, restart or free its session; cut a getty line into arguments; give a child its terminal |
| `sysinit/message_loop.c` | `shutdown`, `shutdown_how`, the request in hand | wait for the port, take requests off it, answer them |
| `sysinit/run_rc.c` | the shell's pid | fork a shell for `/etc/rc.*`, wait for it, collecting other children; `main()` bypasses it today (two `FIXME`s) |
| `sysinit/shutdown.c` | `errno` between two calls | mark sessions, signal every process, wait until none is left, halt |
| `sysinit/init.c` | the descriptors of process 1 | checks that it is root and process 1, detaches |
| `automount`, `syslog`, `nettcpip` | `portid`, `kq`, `shutdown` | mount the port, serve it, end at SIGTERM |
| `sysinfo` | the same, `req_buf`, `resp_buf` | also reads a command and writes an answer |

All four servers share `init.c`, the loop of `main.c` and its SIGTERM handler,
word for word; only `cmd_sendio()` differs.

How they interact: sysinit forks drivers and servers from its script and waits
for them to mount their paths; clients send requests to its port; children end,
are stopped, or leave processes behind that sysinit adopts. All of it shares one
process table, and sysinit meets it in `waitpid(-1)`, `fork()` and `kill(-1)`.
sysinit is one thread, so its own steps do not race each other; what makes it
hard is what happens between two of its system calls.

What each part has to get right:

- **scripts**: the shutdown script is in memory on every path that needs it;
  a start script that is right brings the system up; its text is carried out line
  by line, as it is written, and a line that fits `linebuf` fits `start_argv` too;
- **sessions**: a session's pid is its own getty's, every live getty has its
  session, the loop that starts them ends, and gives up only if none was started;
- **children**: a getty has the arguments of its line, and neither it nor an rc
  shell runs without its controlling terminal;
- **message loop**: no request is lost or answered twice, each is answered as it
  should be, the client granted last decides the way down, a request that arrives
  in time is served;
- **servers**: each client gets the answer to its own request, once; no request
  is overlooked; SIGTERM ends the server without dropping a request in hand;
- **reaper**: nothing is left alive at power off, no login starts on the way
  down, the way down ends.

The hazards behind these are listed, with their lines, in `PROJECT.json`.

## Modules

    InitState            state, pc, errno: the control state all parts share
      ProcessTable       the kernel's processes (external)
        MessagePort      the port, its queue and its clients (external)
          RunS           run_s.c
          MessageLoop    message_loop.c
        Sessions         sessions.c
          RunRc          run_rc.c
          Reaper         shutdown.c
    SysInit              main.c over all of them, with the environment
      SystemLife         what process 1 promises (abstract)
      RequestService     what the clients of its port are promised (abstract)
      SysInitProperties  what is checked
        SysInitInvariants  the inductive invariants of the proofs
          MCSysInit      instances for TLC
          RequestProofs    types, requests, scripts, RequestService
            LoginProofs      sessions and power off
              TrackingProofs   logins and power off with the rc scripts
                LifeProofs       that SysInit implements SystemLife

    CString              C strings as sequences of characters
      CStringProofs      lemmas about them
      ScriptWords        the words of a line, and the command they are
        ScriptMeaning    what the interpreter promises of a script (abstract)
        ScriptText       run_s.c: from the text of a script to its commands
          MCScriptText   scripts for TLC
          ScriptProofs   that ScriptText implements ScriptMeaning
      GettyLine          sessions.c: from a line of /etc/ttys to an argv
        ChildTerminal    the forked child: setctty(), login_tty(), exec; init.c
          MCChildTerminal  lines of /etc/ttys for TLC
          ChildProofs

    RequestService       as above: what a server promises its clients
    PortServer           init.c and the loop of main.c, signals, clients
      SysInfo            sysinfo's cmd_sendio() and its buffers
        Servers          the four programs; that they implement RequestService
          MCServers      instances for TLC
          ServerProofs

Each component's module declares its variables, its initial values, its type,
and one action per step of the code up to its next system call. `pc` says where
in the handler of `state` sysinit is; `"switch"` is the switch of `main()`. A
step that calls a helper (`start_getty`, `free_session`, `find_session`,
`load_bootstrap_file`...) uses the operator of the same name. `SysInit` adds to
each component's steps the variables they leave alone and the environment's
steps.

`ScriptText` begins where `RunS` ends. Its state is the interpreter's own: `src`
and `ch` are the texts that the pointers of those names still have before them,
`linebuf` and `start_argv` the globals, `t` the loop's index. `ReadLine` is
`s_readline()`, `TakeCommand` the dispatch in `process_bootstrap_script()`,
`s_cmd_start` one turn of the loop that fills `start_argv`, `Execute` the
`fork()` and `execve()` behind it, `s_cmd_fixed` one argument of any other
command. `createport` takes none and comes to its work at once. `Call` is the
system call of a command (`sleep()` and createport's calls included); `mknod`
returns before it when its type is neither `c` nor `b`. `s_cmd_waitfor` is the
poll of `waitfor`, which ends if ever its path is mounted and to which no fairness
is given. Every call of `s_tokenize()` is a step, so that what one line leaves
behind is there for the next.

`ScriptMeaning` says what all that is for, without pointers, buffers or tokens:
the lines of a script are taken in order, each once, and each has done what it
says before the next is taken. What a line says is in `ScriptWords`: its words
are given by where they begin, and a command is carried out if its name is known
and it has the words it needs; a `mknod` also needs a type that starts with one
of the two letters. "Carried out" means that it came to its system call, a
`waitfor` that its poll ended: what the call returns is ignored by the code. The
mapping takes `src` for the lines that are left, `linebuf` for the line in hand while the interpreter is at work on it, and
`executed` for what was done; the pieces of `linebuf` that were taken so far show
nothing outside.

`RequestService` has clients that ask, are answered with one of the answers that
are right for their request, or wait for ever once the server has ended. The four
servers implement it, and so does sysinit's message loop, from the `createport`
of the start script to the end of process 1: 0 to a request that is granted,
ENOTSUP to any other. `RequestsConserved` says where the kernel and sysinit keep
each request; `PortService` says what its client sees.

`GettyLine` is `setupargv()` and `construct_argv()`: `save` is where `strtok()`
goes on, `argv` what was stored, `size` what was allocated. `ChildTerminal` goes
on in the child, one action per system call: `Setsid`, `OpenTty`, `DupHigh`,
`ControlTty` (with the `setsid()` of `login_tty()`), `DupStd`, `Exec`. `fds`
holds what each descriptor refers to, `initfds` what process 1 has open.
`init_sysinit` is `init.c`. The rc shell takes the same way with the console.

Abstractions, and why they are enough:

- In `RunS` a script is a sequence of commands with the arguments later commands
  can see: which driver to start, which path to wait for, move or pivot. A
  script that is read in part goes on with what `malloc()` left in the buffer: any
  member of `Garbage`, which in `safety` is nothing or a `waitfor` that lost its
  path, on which process 1 exits.
- How text becomes words is `ScriptText`. There a character is a letter or one of
  the five that mean something, a command's name is one letter, and a pointer to a
  word is the word: nothing reads it after the next line was copied over it. What
  happens once `linebuf` is overrun is not said; the model stops there.
- A session is named by its `se_index`. Sessions are appended in that order and
  only ever removed, so the list is a set with an order; unlinking a session
  that was never linked (`alloc_session` when `setupargv` fails) may empty it.
- A process is its status and its image. A pid is free as soon as `waitpid()`
  has returned it, so pids are reused. `errno` is `ECHILD` or not; calls that
  are not looked at, logging among them, may overwrite it.
- The environment may, if `Faults` says so: fail a fork, crash a driver, crash the
  IFS, leave a process behind, ignore SIGHUP, stop a process, fail or shorten the
  reading of a file, run out of memory, refuse a port.
- A descriptor refers to the terminal, to what process 1 had, or is closed.
  `open()` and `F_DUPFD` return the least free one; only the leader of a session
  gets a controlling terminal. `init.c`'s `close(stdin)` is given a `FILE`
  pointer, not a descriptor, and closes nothing, so any set of descriptors may be
  open when a child is forked.
- When the shell cannot be forked, each `waitpid(WNOHANG)` of `do_run_rc()` is a
  step of its own (`RcReapNohang`), between which processes go on dying.
- `RcEnabled = FALSE` is the committed `main()`. `TRUE` restores the two calls
  that its `FIXME`s comment out.
- In the servers, a request is its command, its first word, its size and whether
  `readmsg()` of its body will succeed; a buffer is the first word or the text in
  it. A failing `readmsg()` leaves what an earlier request put there, cut where
  the new one ends: the word may be gone, shorter and unknown, or what is left of
  an unknown one may be a command.
- The names of the servers' `pc` are those of the next call; `"kevent"` is before
  it, `"blocked"` inside it, so that a SIGTERM may fall between the loop's test
  and the call. That a signal interrupts a blocked `kevent()` is an assumption about the kernel.

An operator with a comment that begins "Mutant" is a plausible wrong version of
the definition that follows it. No action uses it; replacing that definition by
it breaks the property that `PROJECT.json` names.

## Runs

The runs from `safety` to `stopped` are instances of `MCSysInit` with 2 to 5
pids, which covers the IFS, a driver, a getty and one more (an orphan, a
restarted getty, a shell). `fork()` fails when no pid is free, and at any time
where `Faults` has "fork". Pids where safety alone is checked, and the clients of `faults`,
are symmetric. `CHECK_DEADLOCK` is off everywhere: the system stops for good when it
is halted, a server when it has ended, a script or a child when it is done.

| Run | Instance | Shows |
|---|---|---|
| `safety` | 2 sessions, 4 pids; forks, drivers, the IFS, memory, scripts fail or are read in part, adopted processes, SIGHUP ignored | types; sessions and processes stay matched; nothing alive at power off; no login after a shutdown was granted; the shutdown script is there; SystemLife is implemented; the invariant of the proofs |
| `life` | 1 session, 3 pids, 2 clients, 2 ways down; mount, rename, pivot, wait; the port asked for twice and refusable; orphans | the system comes up; requests are conserved, the port's clients are served as RequestService says, a request that reaches the loop is answered; who is granted last decides the way down; a granted shutdown is carried out |
| `rc` | rc scripts restored, 2 sessions, 5 pids; forks fail, orphans | every live getty is the one of its session; SystemLife is implemented |
| `rcfaults` | rc scripts restored; forks fail, drivers crash, orphans, SIGHUP ignored, stopped children, but the IFS stays | nothing alive at power off; the invariant of its proof |
| `giveup` | violated; 2 sessions, 3 pids, forks fail | the boot is given up although a login runs |
| `zombies` | violated | zombies are not collected while requests are served |
| `reaper` | violated | a process that ignores SIGHUP stops the shutdown |
| `stopped` | violated, rc scripts restored | a stopped getty gets a second one on its line |
| `sysinfo` | 2 clients; bodies empty, just fitting `req_buf`, one byte more, unreadable | sysinfo implements the service, live; `resp_buf` is right for the request in hand; SIGTERM ends it |
| `faults` | nettcpip, 3 clients, every call failing that may | the skeletons implement the service; no request is dropped |
| `script` | `MCScriptText`: `linebuf` of 10, `start_argv` of 5 | scripts are carried out as ScriptMeaning says, and end or wait in a `waitfor`; words fit `start_argv`; only long lines overrun `linebuf` |
| `terminal` | `MCChildTerminal`: 6 descriptors, the terminal moved to 4 or above; every call fails | getty arguments; controlling terminal; standard descriptors |

In `life` two clients are enough for two ways down that are granted before the
loop tests the flag, and for a request that waits while another is handled.

`sysinfo` and `faults` are instances of `MCServers`. Two clients are enough for
a request to meet the buffers another one left, three for requests that arrive
while one is handled and one waits; a buffer of size 2 has sizes below, at and
above its limit.

The scripts of `script` are four families. Those that were meant to say
something are made from their words (a command with up to two arguments, or a
`mknod` of some type, and a second), in every mixture of leading blanks, gaps, quoting, line ends and a last
line that is not closed. `WordsAreRead` checks that `Words`, which the abstract
specification stands on, reads from each such line the words that it was made
of. The others are start lines crowded with words, blanks and quotes, any four
characters, and two lines around the size of `linebuf`. In the code `linebuf`
and `start_argv` both have 256 entries; the instance is the tightest that the
assumption `LINEBUF <= 2 * ARG_SZ` allows, so that room for one word less would
show. In `terminal` process 1 may have any of its six descriptors open, which
makes `open()` return 0, 1, 2 or one above, and 4 stands for the code's 20.

Fairness (`FairSpec`): sysinit is one runnable thread, so its next step is
weakly fair; a process that a signal ends does end; an rc shell ends unless it
is stopped; a driver that stays alive mounts its path. No client has to ask, no
login has to end, and nothing is assumed of processes that ignore SIGHUP.

A server is fair likewise: one runnable thread. It owes nothing to a client once
it has ended, and no client and no signal has to come. The interpreter of
`ScriptText` is part of that one thread of sysinit: weak fairness of its next
step (`Steps`), but for the end of a `waitfor`, which somebody else decides. So
`ScriptEnds` says that a script ends, exits, overruns `linebuf` or waits for ever
in a `waitfor`; nothing else can hold it up.

## Findings

`PROJECT.json` lists four violated runs. `giveup`, `zombies` and `reaper` are
about the program as it is; `stopped` needs the rc scripts, which `main()` does
not run at present.

- `giveup`: `state_start_sessions()` means to give up only if no session could be
  started and else to go on with those that were (`sessions.c:82-86`), but never
  counts them: one failed fork sends the system down although logins run.
- `zombies`: the message loop never calls `waitpid()`; `README.md` says that it
  cleans up after ended sessions and zombies.
- `reaper`: the loop over SIGHUP, SIGTERM and SIGKILL returns in its first turn
  (`shutdown.c:71`), and `waitpid()` before that blocks for as long as one process
  ignores SIGHUP.
- `stopped`: `do_run_rc()` asks for stopped children too and `collect_process()`
  does not look at the status, so a stopped getty gets a second one on its line.

More weaknesses show in the model without contradicting anything written:

- With the rc scripts restored, a failed restart leaves a dead pid in its session
  (`sessions.c:133`), as does `do_run_rc()` when it reaps zombies after a failed
  fork (`run_rc.c:66`). When another child gets that pid and ends, it is taken
  for the login. `SessionOwnsProcess` is false of the code then and is checked
  without the rc scripts; `LoginsTracked` survives, since the restart that the
  mistake causes also puts the pid right.
- Sessions are marked only in the reaper, so logins that end during
  `rc.shutdown` are started again. With the scripts restored and an IFS that
  exits by itself, a stale `ECHILD` (`shutdown.c:69`) ends the reaper early: when
  no process is left, a `do_run_rc()` that cannot fork leaves it in `errno`, and
  the reaper stops after the first child it collects, while others that
  `s.shutdown` started still run. That is the fault `rcfaults` leaves out.
- A request for a shutdown whose body is too short for a `how` is granted all the
  same, and the way down is what the stack held (`message_loop.c:71`).
  `HowWasRequested` says nothing of the way after such a request, and
  `ServiceSafety` nothing of the text that sysinfo sends to a client whose body
  could not be read: it may be the answer to an earlier client's command.
- `login_tty()` returns 0 although a `dup2()` failed, and closes `fd` just then:
  a login may run with one of its standard descriptors what process 1 had.
  When all succeed, `fd` stays open in the login. `StandardIsTerminal` and
  `OnlyTerminalAdded` say exactly that much.
- `init.c` does not close what its comment names. Nothing that the children do
  depends on it: the properties hold whatever is open.
- A script line of 256 characters or more overruns `linebuf` (`run_s.c:186`);
  that no other does is `OverrunByLongLines`.

## Proofs

All that the passing runs check but liveness is also proved, for every value of
the constants under the assumptions named in the modules (pids are not 0, a getty is told from other programs by its image, lines
are numbered from 0, a script is a sequence of commands, `HALT` is one of the
ways down).

- `RequestProofs`: `TypeInv`, one lemma per module. `TypeOK` alone is not
  inductive: `src` is set from a script that must not be null, and `msgid` is
  used as a client. `PointsInv` (which handler a program point belongs to) and
  `ScriptsInv` (which scripts are loaded when) close the gap. `CommonInv` adds
  `RequestsInv`, that the loop holds a request exactly while it handles it.
  Theorems `TypeCorrect`, `ShutdownScriptIsLoaded`, `NoRequestIsLost`,
  `ShutdownAsRequested`, for both values of `RcEnabled`; the last says that each
  grant sets the way down to what its client asked for (`HowStep`: unless its body
  was too short to say) and that nothing else does. On `RequestsInv` rests
  the refinement too, `SysinitServesClients`: a client that sends is `Ask`, a
  reply is `Respond`, and what must be known there is that the answer is right
  for the request that the loop took off the port (`AnswerIsRespond`). Steps
  that leave clients and port alone, the rc scripts' and the reaper's among them,
  stutter (`QuietService`).
- `LoginProofs`: first `StartInv`, for both values of `RcEnabled`: how far the
  starting loop has come, in the order of the list (`StartedSoFar`), for
  `StartLoopNeverStands`. Then `LoginInv`, for the
  program as it is (`~RcEnabled`), where the reaper is the only one to collect
  children. It adds that no two sessions share a pid (`ProcessesDistinct`), and
  that in the reaper all sessions are marked, the child that was returned is no
  live getty, and `errno` is `ECHILD` only when there is no child (`ReaperInv`,
  `LastWaitInv`). The last is why a stale `errno` does no harm: nothing before the
  reaper calls `waitpid()`. Theorems `LoginInvariant`, `SessionsOwnTheirProcess`,
  `EveryLoginIsTracked`, `PoweroffIsClean`, `NoLoginDuringShutdown`.
- `TrackingProofs`: what stays true with the rc scripts, for both values of
  `RcEnabled`. `EveryLoginIsTrackedWithRc` allows any failing forks and stale
  pids, provided no process is stopped (the run `stopped` is why). `TrackingInv`
  gives up that pids are a session's own and keeps that a live getty is found
  under its own pid, and that what `waitpid()` has just returned is no getty any
  more. `PoweroffIsCleanWithRc` cannot argue that nobody calls `waitpid()` before
  the reaper: `do_run_rc()` does. `PoweroffInv` says instead that until the
  reaper asks everybody to go, the handler of the first file system lives
  (`FirstHandlerLives`), so that there is a child and no `waitpid()` says
  `ECHILD`; from then on only the reaper waits, and nothing leads back
  (`NoWayBack`). That is why `PoweroffInvariant` and `PoweroffIsCleanWithRc` have an
  assumption: where `RcEnabled`, "ifs" is not among the `Faults`. An IFS that exits
  by itself leaves a stale `ECHILD`, see above, so the theorem would be false
  without it; drivers may crash as they like, and without the rc scripts the IFS
  may too.
- `LifeProofs`: `SysInitImplementsLife`, for both values of `RcEnabled`. SystemLife
  has six phases; logins may begin while the system boots and, where rc.shutdown
  runs, while it closes, never once it goes down. The mapping takes the phase from
  `state`, the logins from the process table. How the logins change is shown for
  each action first (`LoginsStep`: not at all, one begins on a free line, one
  ends), then the phases (`PhaseMoves`). `LifeInv` joins what the two modules
  before it prove: `TrackingInv`, that the line of a login that is started, or
  started again, is free; `LastWaitInv`, that in the reaper nobody is started and
  at power off nobody is left; and `NobodyYet`, that a boot that fails early has
  no login. With the rc scripts it needs both of their conditions, that no process
  is stopped and that the IFS does not exit by itself.
- `CStringProofs`: what `Before`, `Upto` and `After` return, for every string,
  and where a piece of a string's rest lies in the string (`PieceAt`); how many
  numbers of a set are not beyond `n`, as `n` grows (`Counted`). The leaves of
  the next two.
- `ScriptProofs`: `StartArgvFits` by `WordsInv`: after `t` words, the command's
  own included, at least `2t - 1` characters of the line are used, an empty
  quoted word or an unclosed quote not less. `LinebufHoldsShortLines` by
  `PlaceInv`: `src` is the script from some place on, before which no line was
  too long. `ScriptsMeanWhatTheySay` is the refinement of `ScriptMeaning`. It needs
  `TokensInv`: the words taken so far are those of the first characters of
  `linebuf`, up to where `ch` points (`CutUpto`), whatever `start_argv` held
  before; each call of `s_tokenize()` adds the next word (`CutMore`, from
  `TokenFinds`). Then that these are the words of `ScriptWords`: places where
  words begin can be chosen in one way only (`BeginsOnce`), so that words taken
  up to the end are all the line has (`CutIsWords`) and words taken up to
  somewhere are the first it has (`CutBegins`). `NeedsInv` adds that a command
  still lacks one of its arguments while they are counted. Taking a line is
  `TakeLine`, the step that is done with it is `CarryOut`, one lemma for each of
  the places where that happens (`TakeCommandPasses`, `ExecuteCarriesOut`,
  `FixedGoesWithout`, `CallCarriesOut`); all that lies between stutters.
- `ChildProofs`: `GettyArgvFits`, by the same counting; `GettyArgvAsWritten` by
  another `WordsInv`: what is stored is the words that begin before the place
  where `strtok()` goes on, numbered by where they begin, and that place is not
  inside a word (`AtEdge`, from `StrtokFinds`); `TtyInv`, where the terminal is
  open at each call, for `ImagesControlTheirTerminal`,
  `StandardIsAlwaysTerminal` and `NothingElseIsOpened`.
- `ServerProofs`: `ServerInv`, for each of the four programs and any `Faults`.
  `RequestsHeld` is not enough for the refinement: that the text sysinfo sends is
  right needs that `resp_buf` is right for the request in hand when it is sent,
  and that such a request fits and is a CMD_SENDIO. Theorems `RequestsAreHeld`
  and `ServersServe`: sending is `Ask`, a reply is `Respond`, the end of the
  process is `End`, all other steps stutter. What it promises a client is in
  `RightAnswers`: the answer to its own request, if its body could be read, and
  else no more than one of sysinfo's texts.

Each invariant is proved by its initial states, one lemma per module with a step
per action, and a temporal step. The head of the session list needs that the
natural numbers are well ordered (`HeadOfList`).

The words of a line are not defined by recursion, which could not be proved about,
but by where they begin: in `ScriptWords` and in `ArgvAsWritten` there is a set of
such places, the n-th word is the one at the n-th of them, and nothing but
separators lies between. That `ScriptWords` means by this what a writer of scripts
does is `WordsAreRead`, which TLC evaluates.

Only model-checked: liveness, which is beyond the prover: `BootCompletes`,
`ShutdownCompletes`, `RequestsServed`, `ServiceLive` (its safety part is proved),
`TermEnds` and `ScriptEnds`.
With the rc scripts restored, `SessionOwnsProcess` and `NoLoginAfterShutdown` are
false, for the reasons above; `LifeSpec` says what is left of the second.

## Not modelled

- `s_cmd_setenv` and `reap_processes`: nobody calls them. `do_setttyent` is called
  and what it returns ignored (`sessions.c:58`); that it failed shows only in
  `getttyent()` finding no line, which `SessionsAllocated` has under "io".
- What the memory behind a full `linebuf` holds: anything may follow its overrun.
- The servers' command line options. They are numbers and a path handed to the
  kernel. A mount path as long as its buffer (`sysinfo/init.c:104`) runs on into
  `uid`, which is 0 unless `-u` is given.
- The length of sysinfo's answers: what `writemsg()` does when the client asked
  for less (`sysinfo/main.c:105`) is the kernel's.
- The place of the byte that terminates a full `req_buf` (`sysinfo/main.c:115`):
  in either order of the globals it falls where it does no harm.
- The rc shell's signal settings in `ChildTerminal`; that it ignores SIGHUP, and
  its children with it, is in `ProcessTable` (`Orphan`).
- `se_started`: recorded, never read.
- The build files.

## Plan

Done: sysinit's state machine with its safety, liveness and two abstract
specifications; the text of its scripts, with theirs; the children and their
terminal; the four servers; the proofs above. Left, for when the code changes:
`LoginInv` for a message loop that collects children, and for `main()` with its
two rc calls back, that logins which end during `rc.shutdown` stay away.
