# CTPlayer: a TLA+ verification project

CTPlayer (`src/`) is the C support library of a media player: threads and their
synchronisation on Windows and Linux, the buffers that carry a stream from the
network to a decoder, a UDP server that fills them, and a log.  There is no
player in the repository; the library is what there is to get right, and its
core is the code that several threads run at once.

This directory holds TLA+ modules that model that code, configurations under
which TLC checks them on small instances, and proofs that TLAPS checks for every
value of the constants.

## 1. The system

| component | source | state | operations | interacts with |
|---|---|---|---|---|
| Condition variable, Windows | `thread/cond_win.c` | a mutex, `waiting`, `signals`, semaphores `wait_sem`, `wait_done` | create, destroy, signal, broadcast, wait, timed wait | mutex, semaphore; the caller's mutex |
| Semaphore, Windows | `thread/sem_win.c` | a kernel semaphore and a counter beside it | create, destroy, post, wait, timed wait, try, value | the kernel |
| Mutex, Windows | `thread/mutex_win.c` | a critical section | lock, try, unlock | the kernel |
| The same on Linux | `thread/*_linux.c` | pthread objects | the same | pthread |
| Threads | `thread/threadutil.c` | none | create, wait, close | the system |
| System buffer | `util/mbuffer.c:9-360` | a ring of bytes, `iHead`, `iTail` | append, copy, extend, peek, copy out, advance, cache, read and write files | one producer thread, one consumer thread, no lock |
| Elementary-stream buffer | `util/mbuffer.c:363-943` | a ring of frame descriptors over a linear byte area, side information | append (start or continuation), split, throw away, advance, get | parser thread, decoder thread |
| Timestamp adjustment | `util/mbuffer.c:627-664, 743-752` | last and previous timestamps, raw and adjusted | set and get side information | the stream buffer |
| Byte array | `util/mbuffer.c:945-1024` | a linear buffer, its end and a position | read from a file, copy, advance, seek, move | one thread |
| UDP server | `udpserver/udpserver.cpp` | `m_iStop`, `m_iRunning`, socket, address, mode | set the address, set the mode, start, stop, execute, receive | its thread, the system buffer, a file |
| Log | `util/logutil.c` | open file and its size, list of files to keep, mutex | init, deinit, set the number and size of files, message | the mutex, the file system |
| Files and directories | `util/fileutil.c` | none; the file system | make a directory or a file, remove a file or a tree | the log; other processes |
| Helpers | `util/commutil.c` | none | time, sleep, process id | the system |
| cJSON, wildmatch | `thirdparty/` | vendored | | |

What makes them correct, and what is hard about it:

- *Condition variable.*  Each signal restarts one waiter that was waiting, none is
  lost between the unlock of the mutex and the wait for the semaphore, a
  timeout racing a signal takes part in the handshake as well, and signal,
  broadcast and timed wait return.  Five counters are kept in step by threads that
  interleave anywhere outside `cond->lock`.
- *Semaphore.*  The counter is updated before the kernel semaphore by a post and
  after it by a wait, so the two are never in step while a call is in
  progress, and the semaphore may be destroyed while a post has not returned.
- *System buffer.*  It is a bounded queue, although neither thread ever takes a
  lock and each decides how to split a copy from an index the other is moving.
- *Elementary-stream buffer.*  A frame is contiguous and survives until it is
  advanced over, also when a continuation moves it to the front; the index and
  the byte area can each be full.
- *Timestamps.*  Adjusted timestamps go on across a wrap-around, for frames in
  presentation or decoding order.
- *Frames.*  Parameter sets are taken off the front of a frame whole, and a key frame is
  known by its first slice, from bytes alone and without reading past them.
- *UDP server.*  After `Stop` no thread goes back for another packet; `Stop` returns; after that
  the thread no longer uses the object.  Two flags, shared without a lock, are all there is
  for it, and nothing keeps `Start` from creating a second thread beside the first.
- *Files.*  A call brings about what its name says, or fails and leaves everything else alone,
  also when another process makes the same directories.
- *Byte array.*  What is unread is what the file holds next.
- *Deadlines (Linux).*  Seconds and nanoseconds carry properly.
- *Log.*  The mutex is released (it is not on the path of a file that cannot be created); the
  files kept are the latest ones; lines of several threads, formatted in one buffer, do not mix.

`PROJECT.json` lists the hazards line by line, with the properties that cover each.

## 2. The modules

| module | what it is |
|---|---|
| `CondVarAbs` | what a condition variable promises: waiting threads, and wake-ups granted to them |
| `CondVar` | `cond_win.c` step by step, with the callers' mutex; implements `CondVarAbs` |
| `CondBroadcast` | `CondVar` as it is model-checked: teams of threads, and a history variable that remembers whom a broadcast was for |
| `CondVarProofs` | theorems about `CondVar`, among them that it implements `CondVarAbs`, and about `CondBroadcast` |
| `SemWin` | `sem_win.c` step by step |
| `SemWinProofs` | theorems about `SemWin` |
| `ByteFifo` | a bounded queue of bytes |
| `SysBuffer` | the ring of `mbuffer.c:9-360`, a producer and a consumer; implements `ByteFifo` |
| `SysBufferTorn` | `SysBuffer` with the two stores of an index update taken apart |
| `SysBufferProofs` | theorems about `SysBuffer`, among them that it implements `ByteFifo` |
| `FrameQueue` | a queue of frames, the last of them under construction |
| `EsBuffer` | the elementary-stream buffer of `mbuffer.c:363-943`, a parser and a decoder; implements `FrameQueue` |
| `EsBufferProofs` | theorems about `EsBuffer`, among them that it implements `FrameQueue` |
| `TsAdjust` | side information and its adjustment for a wrap-around, `mbuffer.c:627-664, 682-772, 1026-1039` |
| `AvcFrame` | what `mbuffer.c` reads in the bytes of a frame: parameter sets and key frames |
| `ByteArray` | the byte array of `mbuffer.c:945-1024` |
| `LogUtil` | `logutil.c` with the mutex of Linux: threads that log, rotation, the ring of files to reserve |
| `LogUtilProofs` | theorems about `LogUtil` |
| `UdpServer` | `udpserver.cpp`: the owner and the threads `Start` creates, access by access |
| `UdpServerProofs` | theorems about `UdpServer` |
| `FileTree` | `fileutil.c` on a tree of files, call of the system by call of the system |
| `FileTreeProofs` | theorems about `FileTree` |
| `Deadline` | the deadlines of the timed waits in `cond_linux.c` and `sem_linux.c` |
| `Sequential` | `TsAdjust`, `AvcFrame`, `FileTree`, `ByteArray` and `Deadline` in one run, each behaviour about one of them |
| `SequentialProofs` | theorems about `Deadline`, `ByteArray`, `TsAdjust` and `AvcFrame` |

Operators named `X_Something` next to `X` are slips: what `X` would be after a
plausible mistake in the code.  The specifications do not use them.  The list
`mutants` of `PROJECT.json` names, for each property of each run, a slip that the
property must catch.

### CondVar

`mutex` and `lock` are the owners of the caller's mutex and of `cond->lock`;
`waiting`, `signals`, `waitSem`, `waitDone` are the fields of `CTCond`; `pc` says where
each thread is in its call, `timedOut` is `retval > 0`, `posts` and `due` are the
rounds left in the two loops of a broadcast (a signal is one round of each).

| code (`cond_win.c`) | action |
|---|---|
| 149-150 lock, `++waiting` | `EnterWait` |
| 151, 154 the two unlocks | `UnlockAfterCount`, `ReleaseMutex` |
| 156-161 wait for `wait_sem` | `TakeSignal` or `TimeOut` |
| 169-174 lock, test, decide | `Relock` with `AfterWake` |
| 173 eat a signal | `EatSignal` |
| 176, 179 post `wait_done`, `--signals` | `Acknowledge` |
| 181-182 `--waiting`, unlock | `LeaveWait` |
| 185 lock the mutex, return | `RelockMutex` |
| 69-71, 93-98 lock, test, count | `CondSignal`, `CondBroadcast`, `NothingToSignal` |
| 72, 99-101 posts | `PostSignal` |
| 73, 76, 105, 110 unlock | `UnlockAfterPosts` |
| 74, 106-108 collect | `Collect` |

The counters are touched only under `cond->lock`, so an update is one step with the
lock operation before it; the semaphore operations under the lock are steps of their
own, because another thread can see them.  `--signals` is one step with the post of
`wait_done`: the only thread that could run in between is a signaler collecting,
which does not read `signals`, or one that is already blocked on the lock.  The mutex
is recursive on Windows, which no caller here relies on.  Waits that a failing
kernel call would end with -1 are left out, as are NULL arguments and `CTDestroyCond`.

A timed-out waiter that eats a signal consumes the wake-up and still returns
`CTCOND_TIMEDOUT`; in `CondVarAbs` that is a `Wake`, so the abstract specification says
who consumes a wake-up and not which value the caller sees.

Fairness: `SF` of each thread's steps inside a call.  A thread inside a call is
scheduled, and critical sections and semaphores queue the threads blocked on them,
so one that can proceed again and again does.  No thread need ever begin a call.  The
clients are assumed to unlock their mutex in the end, as all callers in `test/` do.

`CondBroadcast` composes it with its users.  A behaviour has one *team* out of `Teams`, as the code
promises different things to different mixes of callers, and the team is *disciplined*, which
means that all its signals and broadcasts are made under the mutex, or not.  `cohort` remembers
for each broadcast the threads that were waiting when it counted them.  Holding the
mutex for the broadcast alone is not enough: it may then collect an acknowledgement meant for
a signal made without the mutex, and return early.  Fairness is stated per `Seats`, sets of
threads of which a team has one at most, which is fairness of each thread with fewer formulas.

### SemWin

`kernel` is the kernel semaphore, `count` is `sem->count`; a post is
`CountPost` then `Release` (or `ReleaseFails`, `Restore` at the limit), a wait is
`TakeToken` then `CountWait`, or `TimeOut`.  `promised` is not in the code: it is the
callers' own ledger of tokens, by which one of them decides that the semaphore may be
destroyed, as in the comment at `sem_win.c:101-105`.

### SysBuffer

`head`, `tail`, `buf` are the fields of the buffer; bytes are their positions in the
stream.  An operation of the producer is: the test of the space available (`AppendData`,
`CopyByteArray`, `ReadFromFile`), the second look at the head that splits the copy
(`SplitPut`), the one or two copies (`CopyAtTail`, `CopyAtStart`, `FreadAtTail`), the store
of the tail (`Extend`).  An operation of the consumer is the same with `SplitTake` (and
`ResplitTake`, where `MBUFFERSYSWriteToFile` asks twice), `ReadAtHead`, `ReadAtStart`, `Advance`.
Each step reads at most one index that the other thread writes, or stores one, or
copies; the other thread may do anything in between.

The consumer calls with no more bytes than the buffer held when it asked, which
the comment at `mbuffer.c:258-259` demands.  Loads and stores are taken in program
order: the code has no barriers, and on a processor or with a compiler that
reorders them nothing here applies.  `iNumBytesInput` and `iNumBytesOutput` are
statistics nobody branches on; `nIn` and `nOut` count the same without overflow.
`MBUFFERSYSReadFromFile` requires, as the code does, the whole length to be free;
`fread` delivers what was asked for unless `ShortReads` lets the file end within it.

### EsBuffer

`piHead`, `piTail`, `iIndexHead`, `iIndexTail` are the fields of the buffer, `bytes` is
`pucBuffer`.  `open` and `held` belong to the users: the parser still works on the last
frame; the decoder reads, in place, what `MBUFFERESGetFrame` pointed it to.  One action per
operation:

| code (`mbuffer.c`) | action |
|---|---|
| 520-566 with `iIfStartFrame`, 901-934 | `StartFrame` |
| 520-566 without | `ContinueFrame` (with `MoveToFront`) |
| 775-797 | `SplitFrame`, `ThrowLastFrame` |
| 594-601 | `LastFrameAdvance` |
| 823-885 | `GetFrame` |
| 810-821, 936-943 | `AdvanceFrame` |
| 569-581 | `FirstFrameAdvance` |
| 390-408 | `DeInit` |

The operations are atomic: `MBUFFERESFirstFrameAdvance` and `MBUFFERESAppendData` update
the same descriptor when there is one frame, so that two threads need a lock around
each call.  They hold no lock while the decoder reads a frame, and this is where `held`
comes in.  `WaitForNext` says whether the decoder takes the last frame too.  The parser
tests for a free descriptor before it splits and cuts a frame within its length, which
the code leaves to it; after giving a frame up it starts a new one.  With `WaitForNext = FALSE`
`HeldFrameIntact` fails: the decoder reads the only frame, a continuation does not fit and moves it
to the front, and the next append fills the place where the decoder still reads; and a
continuation after the decoder took the last frame writes behind a descriptor no longer in use
(537) and reports success.  No document says a decoder may take the last frame, so this is a
condition of use and not a finding.  A byte is its
number in the stream, so that `FrameQueue` can tell whether a frame that was moved,
split or cut still is the piece of the stream it should be.

### TsAdjust, AvcFrame

`TsAdjust` has the four timestamps of the buffer and the frames with their side information.  A
frame is known by its time, counted without wrap-around; the PTS the parser sets is that time
modulo the wrap-around of the container.  `AppendFrame` appends a frame in coding order and sets its
side information; `AddExtraInfo` appends an extra-information frame; `GetSideInfo` is the call of a
reader of the first, the last or the last but one frame, with the adjustment (627-664) that changes
the four timestamps; `AdvanceFrame` drops the first.  `MBUFFERESGetLastTwoFrameSideInfo` refuses a
buffer of one frame and not an empty one (706-712), and so does the model.  DTS gets the same
adjustment as PTS and is left out.  `StreamAssumption` says which streams the constants describe: no gap
above several seconds (16), no frame before time zero, and several seconds twice within the lowest wrap-around
of 2^27, which is 25 minutes at 90 kHz.

`AvcFrame` has a frame as its encoder wrote it, a sequence of NAL units, with the bytes they make
and where each begins, and `head`, the number of bytes the decoder has advanced over.  `FramesAssumption`
says how units and bytes belong together, and that no payload holds 00 00 01, which an encoder of AVC sees
to.  `Peel` is the use of `MBUFFERESGetFrame` its comment describes (825-828): while a
parameter set, a delimiter or an SEI comes first, copy it and call `MBUFFERESFirstFrameAdvance`.
`KeyFrame` is `MBUFFERESBufferCheck4KeyFrameTillPos` (417-445).  The code takes the next start code to have
four bytes (877) and looks for key frames behind such codes only (433), so that after a start code of
three bytes a parameter set loses its last byte to the next frame; both properties are
claimed of frames with start codes of four bytes, and the run has the others too.  A frame has a
byte other than zero: on one of zeros only line 838 reads on beyond its end.

### ByteArray, Deadline

`array`, `iCurPos`, `iEnd` are the fields of the byte array; `read` and `taken` count the bytes read from
the file and copied out; a byte is its number in the file.  One action per operation.
`MBUFFERByteArrayMove` copies all that is unread with one `memcpy` (996), which may go either way, so
that a move that overlaps repeats bytes, and `MBUFFERByteArrayReadFromFile` ignores the result of
`fread` (1010); after either, `spoilt` is set and nothing more is claimed.

`Deadline` is the arithmetic of the two timed waits of Linux.  `cond_linux.c:83` carries
nanoseconds into seconds when there are more than 1000000000 and not when there are as many;
`pthread_cond_timedwait` refuses that deadline, and the wait returns -1 at once.  The property says that
this is the only case where a wait does not last as long as asked for.

### FileTree

A tree maps the paths that exist to a file, a directory, or something else.  A name is what the
program makes of it when it takes it apart at its separators: a sequence of pieces, each given by the path it
means and by whether it ends in a separator; `NamesAssumption` says how a piece follows from the
one before.  `op` and `name` are the call and its argument, and one action is one call of the system with what
the code does about its result:

| code (`fileutil.c`) | action |
|---|---|
| 9-27 up to the loop; 46-66 up to its call | `CTCreateDir`, `CTCreateFile` |
| 33 `ACCESS` | `FindPiece`, `MissPiece` |
| 36-38 `MKDIR` | `MakePiece`, `FailPiece` |
| 43, 66-68 the end of the loop | `EndPieces` |
| 61, 70 `fopen` | `OpenFile` |
| 124-153, 80-84 `CTRemove` up to the first entry | `CTRemove` |
| 87-117 one entry | `ReadEntry` |
| 119-121 `rmdir`, and 102-106 above it | `CloseDir` |

`Meanwhile` is another process that makes one of the same directories, at any moment of a creation and so also between
`ACCESS` and `MKDIR`.  `stack` is the recursion of `CTRemoveDir`: the directories that are open, each with the
entries `readdir` has not given yet, which come in any order.  `round` is the loop's position.
The first piece of an absolute name is the empty one, so that an absolute name can be created only as a file in
the root.  For a file in the root, `CTCreateFile` asks for a directory of the empty name, and `CTCreateDir` reads the byte
before its copy of it (`stray`).  `access` (33) asks whether a path exists and not whether it is a directory: when the last
piece of the name is a plain file, `CTCreateDir` returns 0 and there is no directory.  The header says "0 on success;
-1 on failure" (`fileutil.h:30`) and not what success is when the name is taken, so `CreatesWhatIsNamed`
states this case as the exception it is (`NotADirectory`); in every other, 0 means a directory.  The model is the build for Linux with `/`, the separator there.  Left
out: names longer than `FU_MAX_PATH`, which overflow the copies of lines 15-25; backslashes, which the code
takes for separators on Linux as well; the names `.` and `..`; symbolic links; and other processes during a removal.

### LogUtil

`mutex` is the owner of `pMutex`; `fpLog`, `curFileSize`, `logFileSize`, `numFilesToReserve`,
`pFileNames`, `curFileIdx`, `pBuffer` are the fields of `CTLogContext`; `files` is the directory
with the lines of each file, named by the second it was created in.  `created`, `reservedFrom` and
`printed` are histories.  A call is `Begin`, `Lock` (`logutil.c:435`, with the test of the size),
`CreateLogFile` with `AddLogFile`, or `CreateFails`, which returns without unlocking
(461; from then on every call blocks), `Format` (466), `PrintLine` (470) and `Unlock` (471); the owner calls
`SetLogFileSize` and `SetNumLogFilesToReserve`, the second while nobody logs and with a ring
that reaches the present index, neither of which the code tests.  The model is the build
for Linux, the only one that compiles (line 322 names a variable that
`CTLogGetDate` does not have), so a thread that has leaked the mutex blocks on it like any other.

Two files created in one second have one name; then the second truncates the first,
and a ring of one name removes the file that is open.  The model does that, but `LinesKept` and
`RemovesOldest` are claimed for files of different seconds only.

Fairness: `SF` of each thread's steps inside a call, as for `CondVar`.

### UdpServer

`mode`, `address`, `socket`, `iStop` and `iRunning` are the fields the owner and the threads share; `pc[k]` is
where the thread created by the k-th `Start` is in `Execute`, `from[k]` the socket it receives from and
`len[k]` what it received.  The k-th `Start` makes socket k: `bound` has the sockets that are bound and not closed,
`taken` their addresses, `inbox` the datagrams queued on each.  `space` is the bytes free in the system
buffer.  `early`, `overlap` and `opened` are histories: the last `Stop` came before a thread had cleared `m_iStop`, the
last thread was created beside another one, no `fopen` has failed.

| code (`udpserver.cpp`) | action |
|---|---|
| 52-61 `SetLocalIPPort`; 63-67 `SetMode` | `SetLocalIPPort`; `SetMode` |
| 116-153 `Start` | `StartNoSocket`, `StartNotBound`, `StartBound` (with `CTCreateThread`) |
| 156-158 `Stop`; 159-165 its poll | `Stop`; `StopReturn` |
| 86-90 destructor | `Destroy` |
| 237-242 `Recv` | `Recv` |
| 168-171 `m_iRunning = 1; m_iStop = 0` | `SetRunning`, `ClearStop` |
| 176-180 `fopen` | `OpenFile`, `OpenFails` |
| 184-190 test, `recvfrom` | `TestStop`, `Receive`, `ReceiveFails` |
| 191-198 `fwrite` | `WriteFile` |
| 199-213 wait for space, copy | `CopyToBuffer` |
| 223-228 `m_iRunning = 0` | `Leave` |

`Start` is one step: the fields it writes are read by no thread before it creates one, except `m_socket`
by the thread of an earlier `Start`, which `from` is for.  The owner is one thread, has used the
constructor with arguments (the other one leaves `m_socket`, `m_iStop` and `m_iRunning` unset), and
destroys the object after `Stop`, or without it when there has been no thread.  It sets the address at any
time and the mode while no thread runs: a thread reads `m_iMode` for each packet (191, 199) and has opened a file
only if the mode asked for one when it began (173), and no document says what a change in between should do.  The setters of
the path, the buffer and the socket's size, and an address `inet_pton` does not understand, which leaves
`sin_addr` unset, are left out.

Nothing in `Start` tests for a running thread.  At the same address its `bind` fails (136), because the first socket
stays bound as long as the object lives, and the thread then leaves at the next `recvfrom`, for `m_socket`
is a socket that is not bound.  But after `SetLocalIPPort`, or with port 0, for which the system chooses a free port each
time (`AnyPort`), `bind` succeeds and a second thread runs on the same object.  The first of the two to leave clears the one
`m_iRunning` (223), `Stop` returns, and the destructor frees `m_pucBuffer` while the other is still in `recvfrom`.
The model does all of that.

The properties have provisos, each a fault of the code that no document speaks of.  A `Stop` before the thread has
cleared `m_iStop` (171) is lost: it finds `m_iRunning` unset and returns, or its request is overwritten (`early`, in all
three).  An object on which a thread was created beside another one may be freed under one of them, as above
(`overlap`, in `NoUseAfterDestroy` alone: `StopIsHeeded` and `StopReturns` are claimed of any number of threads).  When `fopen` fails, `m_iRunning` stays set (180) and `Stop` never returns.  A thread that
waits for a datagram or for space in the buffer does not look at `m_iStop` (186, 201).  The packet is copied
behind the tail of the system buffer and `MBUFFERSYSExtend` is never called, so that the consumer sees none, and of a
packet split at the end of the buffer both parts (206-213) go to the same place, the second over the first;
the file is never closed.  On Windows `CTCreateThread` returns 0 whether there is a thread or not, and on
Linux it overwrites the handle `pthread_create` made with one never set (`threadutil.c:33`); the server ignores it.

Fairness: `WF` of the thread and of the owner's poll, which the system schedules.  None for
senders and the consumer, so that `StopReturns` says what `Stop` waits for: it returns, or the
thread is blocked for ever on a datagram or on space.

## 3. The runs

| run | instance | checks |
|---|---|---|
| `condvar` | teams of 3 waiters, of which one signals, with a signaler; of a waiter with a timeout and 2 signalers; disciplined or not | types, `TokenBalance`, `HandshakeBalance`, `WokenFindsSignal`, `BroadcastRestartsAll`, refinement of `CondVarAbs`, `SignalReturns`, `WokenReturns`, `TimedWaitReturns` |
| `condvar_eat` | a waiter with a timeout beside one without | **violation** of `TimedWaitReturns` |
| `broadcast_unlocked` | 2 waiters and a signaler without the mutex | **violation** of `BroadcastRestartsAll` |
| `semaphore` | 3 threads, limit 2 | types, `ValueBalance`, `NoUseAfterFree` |
| `ring` | 5 slots, calls of up to 4 bytes, 11 bytes | types, `InBounds`, `NoOverwrite`, `ReadsOnlyData`, `HoldsStream`, `DeliversInOrder`, refinement of `ByteFifo` |
| `short_read` | the same, the file may end | **violation** of `HoldsStream` |
| `torn_index` | the same, index updates in two stores | **violation** of `InBounds` |
| `es_frames` | 5 bytes, 4 descriptors, calls of up to 2 bytes, 7 bytes | types, `FramesApart`, `MoveIsDisjoint`, `HeldFrameIntact`, refinement of `FrameQueue` |
| `log_rotation` | 2 threads, files of 1 or 2 lines, 0 to 2 reserved, 4 seconds, 4 messages | types, `LinesKept`, `SizeTracked`, `RemovesOldest`, `MessageReturns` |
| `udp` | 2 calls of `Start`, an address and one of any port, 3 modes, 1 datagram queued on a socket, a buffer of 3 slots, datagrams of 1 to 3 bytes | types, `NoUseAfterDestroy`, `StopIsHeeded`, `StopReturns` |
| `sequential` | 6 frames of a stream, 2 held; frames of up to 3 NAL units of 26 forms; trees of two levels and two names, with files, directories and things that are neither, names of up to three pieces, one call; an array of 4 bytes and a file of 7; 7 times of day and 10 timeouts | `FollowsStreamFromNearWrap`, `PeelsWholeUnits`, `KeyFrameStartsWithIDR`, `CreatesWhatIsNamed`, `RemovesOnlyWhatIsNamed`, `UnreadIsTheFile`, `DeadlinesMeetTimeouts` |
| `ts_long_stream` | a stream that starts longer than several seconds before the wrap-around | **violation** of `FollowsStream` |

Bounds.  Three waiters are enough for one to be asleep, one woken and one acknowledging
while a signaler posts; a second signaler makes acknowledgements collected by the
wrong one possible, and a waiter that signals makes a signaler take its own
token.  Threads call again and again without bound.  With one waiter the timed team
has the race of a timeout and a signal from two sides; with two waiters, one of
them timed, the code deadlocks, which is the point of `condvar_eat`: every timed
property is checked on the team with which the code keeps it.  Three threads on a semaphore of limit
2 refuse a post while another post and a wait are half done.  A ring of 5
slots holds 4 bytes, so a call of 4 fills it and every split of a copy occurs; the
initial states put head and tail everywhere, and 11 bytes wrap the ring at least twice.
`Reset` starts the count again.

In 5 bytes there is room for two frames of two and the byte kept free, so that a continued
frame outgrows the end both with a frame before it and alone; 7 bytes fill
the area once and wrap, and splits, cuts and frames thrown away bring head and tail
to every position meanwhile.  Three frames fill the 4 descriptors.

Four messages rotate three times, which removes the first file of a ring of two and the first
two of a ring of one; the number of files changes in between at any point.  In 4 seconds every
file can have a name of its own, and any two can share one.

Two calls of `Start` let one fail before or after the one that succeeds, or both create a thread: at any port,
or at an address and another, set between the two.  A third thread meets nothing that the second does not
(the theorems hold for any number).  Datagrams of 3 bytes never fit the buffer and those of 1 and 2 sometimes do.  A stream of 6 frames with gaps
of up to 3 crosses a wrap-around at 16 with frames coded out of order around it; one starts at 6, where the
candidate is 8 and not 16.  Frames of three units have a parameter set, another one
and a slice, or a slice between, with payloads that end in the zeros and twos a search might take for a start
code.  The loop of `CTCreateDir` repeats one round per piece of the name, and the recursion of `CTRemoveDir`
one per level; two of each, and a third that fails, show every branch.  One call is enough (`MaxCalls`), since
every small tree is one it may begin with, whatever calls may have left it.  The 7 bytes of the file
need the array of 4 to be moved.  Times of day and timeouts lie before, at and after each carry.

What the violations show:

- `condvar_eat`: a timed waiter times out; a signal is counted and posted; the
  other waiter takes the token; the first one gets `cond->lock`, sees `signals > 0`
  and waits for a token to eat, holding the lock the other one needs to
  acknowledge.  Waiter, waiter and signaler are stuck, although a timed wait is
  documented to return after `ms` milliseconds at most (`condutil.h:91`).
- `broadcast_unlocked`: a broadcast counts two waiters and posts; one returns, waits
  again and takes the second token; the broadcast returns with the second waiter still
  asleep, although it is documented to restart all that were waiting (`condutil.h:73`).
  When all signals and broadcasts are made under the mutex (`condvar`), it does.
- `short_read`: the length of an `fread` is ignored and the tail moves by what was asked
  for, although the bytes read are what is documented to be returned (`mbuffer.h:395`).
- `torn_index`: `iTail += n; iTail %= iSize;` leaves the index out of range for a
  moment; the other thread reads it and computes a copy that passes the end.  The comments
  (`mbuffer.c:49, 72, 267`) say the buffer is for two threads.  An optimising compiler
  usually makes it one store, which is what `SysBuffer` assumes.
- `ts_long_stream`: `lLastTS` is set by the first frame and moved by a wrap-around only (641), and a wrap-around
  is recognised only within several seconds of it (635); a stream that starts earlier gets back
  unadjusted timestamps after the wrap-around, where line 630 says they are adjusted.

## 4. The proofs

All theorems hold for every value of the constants allowed by the ASSUMEs: any
finite set of threads, any split into waiters, timed waiters and signalers; any
initial value and limit of a semaphore; any size of a buffer from 2 and any lengths; any
number of messages, seconds and files; any tree, any names and any number of calls; frames of any number of
units.  Three hypotheses are stated in a theorem itself: `~ShortReads`,
`WaitForNext` and `Followed \subseteq {TRUE}`, each the condition of use without
which the property is false (a run or section 2 shows how).

| module | theorem | says |
|---|---|---|
| `CondVarProofs` | `SpecTypeOK`, `SpecTokenBalance`, `SpecHandshakeBalance`, `SpecWokenFindsSignal`, `SpecRefines` | the counters and the tokens, and every step one of `CondVarAbs` |
| `CondVarProofs` | `CSpecBroadcastRestartsAll` | a broadcast of a disciplined team restarts all that were waiting |
| `SemWinProofs` | `SpecTypeOK`, `SpecValueBalance`, `SpecNoUseAfterFree` | the value, and no use after the destruction |
| `SysBufferProofs` | `SpecTypeOK`, `SpecInBounds`, `SpecNoOverwrite`, `SpecReadsOnlyData`, `SpecHoldsStream`, `SpecDeliversInOrder`, `SpecImplementsFifo` | the copies of two threads without a lock, and a queue of bytes |
| `EsBufferProofs` | `SpecTypeOK`, `SpecFramesApart`, `SpecMoveIsDisjoint`, `SpecHeldFrameIntact`, `SpecImplementsQueue` | the frames in the area, and a queue of frames |
| `LogUtilProofs` | `SpecTypeOK`, `SpecLinesKept`, `SpecSizeTracked`, `SpecRemovesOldest` | the lines, the size, the ring of files |
| `UdpServerProofs` | `SpecTypeOK`, `SpecNoUseAfterDestroy`, `SpecOneAddressIsSafe`, `SpecStopIsHeeded` | the threads and the object |
| `FileTreeProofs` | `SpecCreatesWhatIsNamed`, `SpecRemovesOnlyWhatIsNamed` (and `SpecTypeOK`) | a creation and a removal do what they are told to |
| `SequentialProofs` | `StreamFollowsFromNearWrap`, `ArrayUnreadIsTheFile`, `EveryDeadlineMeetsItsTimeout` | the timestamps, the byte array, the deadlines |
| `SequentialProofs` | `SpecPeelsWholeUnits`, `SpecKeyFrameStartsWithIDR` | the units of a frame, and key frames |

**CondVarProofs.**  The inductive invariant is the type invariant, mutual exclusion in
its exact form (a thread is at a label inside `cond->lock` if and only if it owns it),
three facts about the locals, `waiting` = number of threads between its two updates,
and `TokenBalance`.  `TokenBalance` alone is not inductive: the decrement of `signals`
needs that the thread acknowledging is itself one of the threads it counts,
and the number of posts to come belongs to the one thread inside the lock.  From it follow
`SpecTypeOK`, `SpecTokenBalance`, `SpecWokenFindsSignal` and `SpecRefines`: every step is a step
of `CondVarAbs` or leaves its variables alone.  Note that these hold for timed waits with
any number of waiters: what `condvar_eat` breaks is liveness.

`HandshakeBalance` says that the acknowledgements still to be collected are the signals not yet
acknowledged and the posts of `wait_done` not yet taken.  It is a number of
pairs, of a thread and a round it will collect, so that a step adds or removes one pair, or a row of
them (`Cardinality` and the theorems about finite sets, no sum over a function).  It needs on top of the
invariant that a thread that is not posting or collecting has no rounds left (`NoneDueOutside`), and that the
set is finite.

For the broadcast, `CInv` adds to the above the types of the history variables; that a thread
of a disciplined team that has rounds left owns the mutex (`DueHoldsMutex`), so that there is
one such thread; and that as long as some of the cohort have not acknowledged, those threads are all that are inside a
wait, and `signals` is their number (`CohortIsInside`): no other thread can go in without the mutex, and none can
leave but by acknowledging.  By `HandshakeBalance` for the single collector, when nothing is left to collect
none of the cohort is inside.
The teams are any set of sets of threads.

**SemWinProofs.**  `ValueBalance` does not allow the destroyer to conclude anything, as a
post that has begun is not in `count` yet.  The invariant adds the same balance for the
callers' ledger; when that is zero, no thread is inside a post or past a wait.

**SysBufferProofs.**  The invariant relates the bytes held to the indices and says, for each
label of the two threads, that what is to be copied fits and that a second part begins
only where the first ended at the end of the buffer.  It is stated with the number of bytes
held and the distance of a slot from the head, so that only one lemma (`WrapOnce`) speaks of `%`.
`SpecInBounds`, `SpecNoOverwrite` and `SpecReadsOnlyData` follow in any state of it.  A second
invariant, over the first, says slot by slot which byte of the stream a slot holds,
including those copied and not yet published, and gives `SpecTypeOK` and, without short
reads, `SpecHoldsStream`.  A third, `TakenOK`, says that between the two parts of a copy the call has
taken exactly the first, and gives `SpecDeliversInOrder`.  With it, the contents of the ring are the
stream from `nOut` on (`ContentsAreStream`), the store of the tail appends to it and the store of the head
drops from it, whatever the other thread is doing, and every other step leaves it alone:
`SpecImplementsFifo`.

**EsBufferProofs.**  The frames in use lie in the area in their order, or those of the front of the
queue lie behind the others.  The invariant says so with the distance of a
descriptor from the first (`Pos`) and whether its range begins before the first one's (`Low`): ranges are
not turned round (`RangesOK`); a later frame lies behind an earlier one unless it alone has wrapped,
and what follows a wrapped frame has wrapped (`OrderOK`); what the decoder holds is no longer than
the first frame (`HeldFits`).  `FramesApart` alone is not inductive: an append is placed behind the last frame and
checked against the first one only, so that it must be known where all the others lie.  `SpecTypeOK`,
`SpecFramesApart` and `SpecMoveIsDisjoint` follow, for any users.  `SpecHeldFrameIntact` adds
what is held as an invariant and needs `WaitForNext`: then what is held
begins at the first frame, which is not the one under construction (`HeldFirst`), and continuations, cuts and moves
touch only the last.  `SpecImplementsQueue` adds that an open
frame exists (`OpenHasFrame`); one lemma per operation says what it does to the bytes of each frame
(`OthersStay`, `ContentsStep`), and so which step of `FrameQueue` it is.

**LogUtilProofs.**  `SizeTracked` and `LinesKept` speak of the open file and of the directory, and are disturbed
by a rotation, which removes the file the ring names next.  That this is the oldest one, and not one still written,
needs that the ring holds the latest names in order at the right indices (`RingHolds`), that the
latest files are in the directory and were created by this context (`LatestOnDisk`, `FromCreated`).  That the buffer holds the message of the thread that prints needs mutual exclusion and what
each label has in the buffer (`Exclusive`); for it, `NoOne` is assumed not to be a thread.  `SpecRemovesOldest` is the action
property, from the same invariant.

**UdpServerProofs.**  `NoUseAfterDestroy` is not inductive.  Unless a thread was created beside another one, there is
one (`OneThread`), so that `m_iRunning` is set throughout its execution (`RunningIsSet`); of two, the first to leave would
clear it.  A `Stop` that was not early meets no thread that has yet to clear `m_iStop`, so that the request stands until
the next `Start` (`StopStands`, which needs neither of the two and gives `SpecStopIsHeeded` by itself), and no thread is left when it
returns (`QuietAfterStop`).  `SpecOneAddressIsSafe` says when the proviso about two threads is not needed: if there is one address
and its port is not 0, one thread at most runs and none is left at the destruction.  It rests on the address being
taken from the first thread on (`AddressTaken`).  `QuietStep`, `OwnerInv` and `ThreadInv` prove the invariant, for any
number of calls of `Start` and of addresses, any sizes of buffer and datagrams.

**FileTreeProofs.**  `CreatesWhatIsNamed` says of a call that has returned what the tree is, and of one that failed
why.  For a creation, the invariant adds where it stands: the pieces the loop has passed exist (`Rounding`), and
the last of them is the directory the name asks for or something that is none (`NotADirectory`); when a piece is about to be made, nothing was found of its name unless another
process has made it since (`Making`); what was added so far are directories on the way to the name
(`OnlyAdds`).  `mkdir` then fails only if something in the way was there before the call: the piece in front exists and is no
directory, and nobody but the call and the other process adds anything, and they add directories (`WhyNot`).
For a removal, `RemovesOnlyWhatIsNamed` needs to know where the recursion is.  The directories that are open lead from
the name down, each one level below the one before (`Descends`), so that each is entered once and what is removed is below the
name; and each entry of an open directory is not read yet, is neither a file nor a directory, or is the next one open
(`Covers`), so that a directory that is still not empty when all entries have been read holds something that is neither
(`WhyNotEmpty`).  No induction over the depth of the tree is needed: the invariant speaks of all levels at once.

**SequentialProofs.**  A deadline is the time and the timeout with one carry, for every time of day and every
timeout.  For the byte array, `ArrayInv` says which byte of the file each place holds, the places
that are already taken included, since a `Seek` may go back to them.

For the timestamps, an adjustment is right or wrong by which frames have been seen before it, so the invariant
(`TsInv`) is about the order of the frames and about three phases of the four timestamps.  In the
order (`CodingOrder`), a frame is later than one of any two before it, by no more than `MaxGap` than some frame
before it, and earlier by no more than `Reorder` than any.  Before a wrap-around is recognised no frame
after it has been seen (`NotWrapped`); then exactly one has, and the previous adjustment is still that from before
(`WrappedAt`); then two have, and no frame from before can follow (`Wrapped`).  `StreamAssumption` makes a
first frame after the wrap-around small enough to be taken for one, and no other frame so.  A second wrap-around is never recognised
(`NoSecondWrapAround`).  The candidate for a wrap-around may be a wrong one, in a stream that starts near a multiple of
2^27 that is not where its timestamps wrap; up to the wrap-around, what is shown is right all the same.

For frames, `AvcInv` says that with start codes of four bytes the decoder stands at the start of a unit and has copied those in
front of it.  The search for the next start code (865-879) begins in the payload and finds the next unit, one byte late
(`FirstLengthIs`): the payload holds no 00 00 01, and its last bytes with the zeros behind them make none, even if it ends in zeros.
Line 877 takes the one byte off again.  For the test for a key frame, the places behind 00 00 00 01 are exactly the headers
(`HeaderPlaces`), as every byte is one of some unit (`WhichUnit`), and the least of those that decide is that of the first slice.
`FramesAssumption` gives the start of each unit, so that nothing has to be shown by induction over their number.

Only model-checked:

- Every liveness property and the fairness part of `ImplementsCondVar`: `ENABLED` is out of the prover's reach.

Every invariant and every action property of the runs that pass is stated by a theorem.

## 5. What is left

The plan of the first modules is done; what would come next, in this order:

1. `CTLogInit` and `CTLogDeInit` against messages: the first messages on the global context each
   initialise it, and clear a mutex another thread may hold (`logutil.c:439`).
2. `UdpServer` composed with the steps of `SysBuffer` instead of a number of free bytes.

## 6. Not modelled

- `CTDestroyCond`: `CTCondSignal` returns at the waiter's post of `wait_done`, while the waiter still
  decrements the counters (`cond_win.c:176-182`), so that destroying the condition variable then frees it
  under the waiter; no document says when it may be destroyed.
- The wrappers of pthread objects (`cond_linux.c`, `mutex_linux.c`, `sem_linux.c`), apart from the deadlines and the
  mutex of the log: they have no state of their own, and a model would be one of pthread.
- Waiting for a thread and closing its handle, the helpers of `commutil.c`: thin calls of the system.
- The console output of the log, `CTLogSetLogFile`, a `fprintf` that fails; initialisation (see above).
- `USE_DETACHED_ESBUFFER`, `#if 0` and other code that is not compiled.
- Failing allocations, NULL arguments, and kernel calls that fail for no reason the code handles.
- `MBUFFERSYSCopyToCacheByOffset` with a cache smaller than asked for: the size is the caller's concern,
  and it has no caller in the repository.
- cJSON and wildmatch, vendored; the programs under `test/`.
- Relaxed memory: loads and stores are in program order everywhere.
