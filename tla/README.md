# Verification of Operating-Sys-Sec

TLA+ models of the four tasks of this repository, the TLC runs that check them
on small instances, and the TLAPS proofs that hold for every instance. Paths
like `server.c:65` are relative to `src/Task - N/`; `README.md:n` is the
repository's own README.

| Task | Program | Modules | Runs | Proofs |
|---|---|---|---|---|
| 1 | flights on threads | `FlightProcess`, `LandingWithoutSync`, `LockPaths`, `RoundRobin`, `FinalProgram`; abstract: `Runway`, `TurnOrder`, `Arrivals` | 6 | 5 modules |
| 2 | paging simulations | `Paging`, `PagingFifo`, `PagingLru`, `Simulations`; abstract: `PageCache` | 1 | 1 module |
| 3 | virtual operating system | `VirtualOS`; abstract: `FileVault` | 2 | 1 module |
| 4 | chat over TCP | `ChatFrames`, `ChatClient`, `ChatServer`, `Chat`; abstract: `Conversation`; external: `Wire` | 3 | 1 module |

To repeat a run: `tlc -workers 2 -config MCChat.cfg MCChat.tla`; to repeat a
proof: `tlapm VirtualOSProofs.tla`. `PROJECT.json` lists every run, every
property with a mutant of the code that breaks it, the source lines of every
definition, the hazards and the theorems.

## 1. Inventory

The four tasks share no code, no files and no data; they interact only within
themselves.

### Task 1: processes, threads, mutexes

Five programs and one that integrates two of them. Each forks; the child
creates a thread per flight (5, 11, 19), joins them in order and exits; the
parent waits.

| Part | State | Operations | What makes it hard | What makes it correct |
|---|---|---|---|---|
| skeleton (`main` of each) | the two processes, the loop index, each thread's life | fork, create loop, join loop, destroy, wait | threads run while later ones are still being created; the mutexes must outlive them | nothing is destroyed under a running thread; the parent leaves last |
| `landingwithoutsync.c` | the plain `bool runway_occupied` | test, set three seconds later, reset | every access races with every other | what survives the race: no flight is turned away from an empty runway |
| `landingwithsync.c` | `runway_lock` | lock, land, unlock | threads in any order | one flight on the runway at a time, each once |
| `deadlock.c` | `runway_lock`, `taxiway_lock`, locked in opposite orders | two start routines | circular wait; main waits with it | the freeze is permanent and has no other cause |
| `deadlockprevention.c` | the same, in one order | one start routine | the second lock is taken with the first held | no circular wait |
| `roundrobin.c` | `turn_lock`, `current`, the altitude of each flight | poll, descend, pass the turn, skip | the turn is handed on blindly; descent and hand-over are seconds apart; polling needs luck | quanta in circular order, the turn never stranded, everybody lands |
| `finalprogram.c` | all three mutexes | round robin, then landing | some flights land while others descend | the halves do not disturb each other |

### Task 2: paging simulations

Six sequential programs over the same arrays: `pagingsys.c` without
replacement, `pagingsyswithfifo.c`, `pagingsyswithlru.c`, and `final1.c`,
`final2.c`, `final3.c` that put one workload each through FIFO and then LRU.

State: the requests, `physical_frames`, `addr_history` with its counts, the
hit and fault counters, `ptr_fifo`, `last_time_used`. Operation: one request
(bounds check, search, hit or fault, load or replace, record the physical
address); between two simulations, a reset. Nothing runs concurrently; what is
hard is that the ring pointer and the time stamps only *stand for* "oldest" and
"least recently used", through any sequence of requests and across the reset,
and the address lists must follow their pages.

### Task 3: a virtual operating system

One process with a command loop (`final.c`). Components: accounts (`users.c`,
up to 10), the session (`auth.c`: two ids, copied from the account), the file
table (`filesystem.c`, up to 20 files), the audit log (`audit.c`). They
interact through the globals of `globals.c`: filesystem and accounts read the
session's ids, removal of an account walks the file table, all of them append
to the log under a name looked up through `current_uid`. What is hard: arrays
that shift on removal while a loop walks them, ids that outlive what they name,
a flag that must agree with bytes changed elsewhere, names that are not unique.

### Task 4: chat

`server.c` accepts connections and gives each a detached thread;
`client.c` authenticates, then sends one message at a time and waits for its
acknowledgement; `malware.c` sends one header with an oversized length. State:
per thread the socket, the header and buffer read last, the number of bytes,
the authenticated flag; per client its message buffer; between them a TCP
connection. What is hard: main goes on accepting while the last thread has not
yet read its argument; either side may vanish between any two calls; frames
must not slip against each other; each side blocks in `read()`; a server that
is started again takes its port over at once, while clients of the process
before still hold their connections; and a client whose input has ended goes on
with whatever its buffer holds.

### Not modelled

Screenshots, `README.md` and the recorded `audit.log` are not code. Printing,
sleeping and layout have no state. The failures of `socket`, `bind` and
`listen` end the process before anything has happened.

## 2. Plan

Done in this order; the most entangled behaviour first.

1. `FlightProcess`, `LockPaths`, `RoundRobin`, with the abstract `Runway` and
   `TurnOrder`; proofs. `LandingWithoutSync`. `FinalProgram`, which composes
   `RoundRobin` and `LockPaths` through INSTANCE over shared threads, with the
   abstract `Arrivals`; proofs.
2. `VirtualOS` with the abstract `FileVault`; proofs, of the refinement too.
3. `Wire`, `ChatFrames`, `ChatClient`, `ChatServer`, composed by `Chat` with the
   abstract `Conversation`.
4. `Paging`, `PagingFifo`, `PagingLru`, composed by `Simulations` with the
   abstract `PageCache`; proofs of typing, of the translation, that the frames
   follow their policies, of what the programs print, and of what a larger
   memory keeps.
5. `ChatProofs`: typing, who answers for a connection, how client, thread, log
   and the bytes between them fit together at every place of the client, and
   from that the refinement of `Conversation`.

Left out for good: thread creation that fails in Task 1. Its programs do not
look at the result, and neither code nor documents say what should happen then,
so there is no property to state.

## 3. Modules and code

`map` in `PROJECT.json` gives the lines of every definition. What a step is:

**`FlightProcess`** is `main`. One turn of the create or join loop is a step.
Flights are numbered by their place in `flight_ids[]`; `f` in the model is
thread `f` and its start routine. The modules below EXTEND it and take a thread
from `running` to `returned`.

**`LandingWithoutSync`**: each access of `runway_occupied` is a step (`Decide`,
`Land`, `Leave`), so the interleavings of the steps are the data race. `met` is
a history variable: who was on the runway with somebody else.

**`LockPaths`** is three programs, which differ only in the order in which each
flight locks its mutexes: the constant `Path`. `pthread_mutex_lock` is
`Acquire`, enabled when the mutex is free; `Release` unlocks the last one
locked. `holder` is the kernel's view of a mutex, `held` and `phase` where the
start routine has come; that they agree is the property `MutexOwnership`.
`landingwithsync.c` is the path ⟨runway⟩ (`AirplaneLanding`) and `deadlock.c` the two paths of
`MCDeadlock`. *`Runway`* is what any of them promises if it serialises landings.

**`RoundRobin`**: one step per lock, descent, hand-over and unlock
(`LockTurn`, `Descend`/`SkipTurn`, `PassTurn`, `UnlockTurn`); the mutex is
held over three seconds of sleep, hence the separate steps. *`TurnOrder`*
is the same without mutex, polling and threads: a quantum to each flight in turn.

**`FinalProgram`** instantiates both over the same threads: `Landing(f)` is
enabled once the descent loop is over, and only then does the thread return.
*`Arrivals`* composes `TurnOrder` and `Runway` in the same way, without threads:
come down in turn, land one by one and once each, and not before being down.

**`Paging`** has what the six programs share and `pagingsys.c`; a turn of the
loop over the requests is a step. `history_count[f]` is the length of
`addr_history[f]`. The search for a page or a free frame is `FirstWith`: the
first frame, going up. **`PagingFifo`** and **`PagingLru`** add the ring pointer
and the time stamps. *`PageCache`* is what the README says of both policies: a
list, the next to leave first, with no frame, pointer or time stamp. `After` is
a function from the number of requests to the list, the hits and the faults.
`Shows` says that frames hold the pages of such a list: a number per frame (for
FIFO the evictions until its `Turn`, for LRU its `last_time_used`) ranks the
frames as the list ranks their pages.
**`Simulations`** composes them: `todo` is what a program has yet to run,
`printed` its output, `Reset` what `final1.c`-`final3.c` do in between.

**`VirtualOS`**: a command is a step, except `removeuser`, whose cleanup loop is
one step per slot (`Purge`). `users` and `files` are sequences whose lengths are
`totalUsers` and `totalFiles`; a shift to the left is `RemoveAt`. A text is
known by its author and by whether its bytes are XORed. `reply` is the outcome
of the last command and the name in its audit line. *`FileVault`* is the
promise: accounts, identities never given out twice, files that their owner and
root alone change and that leave with their account, all in one step. What is
left of a table when some slots are dropped is *`Selection`*, told by the rank of
a slot among those that are kept.

**`Wire`** (external) is TCP as the two programs use it: an ordered queue per
direction, and two ends that close. **`ChatFrames`** is the framing both
programs declare; a text is known by its name and by whether it is XORed.
**`ChatServer`**: `Accept` and `Spawn` are main's loop, then one action per
`read` of a handler and one for what it does with what it read; `RestartServer`
is `main` up to `listen`, in a new process. A handler is
named after the connection main accepted, but it serves whatever socket it finds
in the memory it was given (`Start`). **`ChatClient`**: one action per `send` or
`read` of `client.c`; `SendForged` is `malware.c`. `TypeMessage` and `Repeat` are
the two outcomes of the loop's `scanf`: a new text, or the buffer as the last
`custom_crypt` left it; from then on `ended` is TRUE. **`Chat`** composes them;
`KillClient`, `StopServer` and `RestartServer` may come at any point.
*`Conversation`* is the promise: nobody speaks before the right password, and
what is said is heard as it was said, in order, each message before the next.
`said` are the messages a buffer held when `scanf` returned, `heard` what the
server printed, without the empty entry of the finding below, which can only be
the last.

## 4. Runs

| Run | Checks | Shows |
|---|---|---|
| `landing_without_sync` | `OccupiedByAFlight` | the flag is never set over an empty runway, so nobody is turned away for nothing and at least one flight lands, in every interleaving of the race |
| `collision_report` | `CollisionIsReal` violated | see Findings |
| `deadlock` | `StuckOnlyInCircularWait`, `FreezeIsPermanent`, `LandOrFreeze` | the program ends or freezes for good, and only in a circular wait |
| `deadlock_prevention` | `NoCircularWait`, `MutexOwnership`, `ImplementsRunway` | the fixed order removes the circular wait; the runway is used by one flight at a time, each once |
| `round_robin` | `TypeOK`, `TurnsInOrder`, `NoStrandedTurn`, `ImplementsTurnOrder`, `Terminates` | quanta in circular order also when flights have left the loop; all land |
| `final_program` | `NoCircularWait`, `DescentNeverBlocked`, `OrderlyShutdown`, `ImplementsArrivals`, `Terminates` | what the halves could do to one another they do not: no circular wait over the three mutexes, no landing lock in the way of the descent, no mutex destroyed under a thread, no flight that lands in the air; and it ends |
| `simulations` | `PagingTypeOK`, `OneToOne`, `PlainKeepsTheFirst`, `FollowsPolicy`, `LruKeepsMore`, `TestCases` | each policy evicts what it says, in the second simulation of a program too, and its result is what is printed; under LRU no smaller memory holds more or has fewer faults; the README's three test cases come out |
| `virtual_os` | `TypeOK`, `UniqueAccounts`, `SessionIsLive`, `FilesOwned`, `ReadsAreClear`, `TextByOwner`, `OthersFilesKept`, `LogNamesTheSession`, `GuestsOnlyRead`, `ImplementsFileVault` | accounts, session, files and log agree through every sequence of commands; a logout leaves nothing behind that a command could use |
| `audit_trail` | `DecisionsAreLogged` violated | see Findings |
| `chat` | `TypeOK`, `OneOwnerPerConnection`, `LoggedAsTyped`, `AcksPaired`, `NoMutualWait`, `SessionsEnd`, `ImplementsConversation` | every open connection has one owner; frames stay aligned and acknowledgements paired whoever vanishes and comes back; every session whose input does not end is over on both sides |
| `lost_payload` | `DisconnectsDetected` violated | see Findings |
| `end_of_input` | `LoggedInNormalText` violated | see Findings |

### Findings

- **A collision is reported where there is none.** Every flight that lands in
  `landingwithoutsync.c` prints "Collision!!" (line 27), also one that had the
  runway to itself; the comment above (lines 21-22) describes a collision as
  caused by another thread that reads the old flag. In TLC's counterexample one
  flight lands and leaves before any other has tested the flag.
- **A permission decision without an audit line.** Encrypting a file that is
  encrypted already passes the permission test and returns at
  `filesystem.c:179-182` without `audit_action`; `README.md:219` says every
  permission decision is logged.
- **A disconnect taken for an empty message.** `server.c:65` tests the payload
  read with `< 0`, so the end of the stream passes: a client killed between
  header and payload leaves an empty entry in the log and an acknowledgement to
  nobody. `README.md:332` says every read is checked with `<= 0`.
- **XORed text in the log.** `client.c:114` does not look at the result of
  `scanf`. When the input has ended, the buffer still holds the last message
  XORed; it is XORed again and sent plain, and the server, which XORs what it
  reads "back to normal text" (`server.c:95`), prints it XORed. The client goes
  on like this, every second entry plain, until its connection ends.

Two lines of the README are wider than the code, without a state of the models
that tells the difference. `README.md:324` says that payloads are XORed "in both
directions": the server's three replies are sent as they are
(`server.c:79-80, 87-88, 100-101`), and `client.c` reads them so.
`README.md:328` says that no command is processed before a valid `AUTH`: an
`EXIT` is (`server.c:48-52`), and closes the connection, as `AUTH_FAILED` would.
No client of the repository gets to `server.c:73` with anything but `AUTH`
before its password was accepted (`malware.c`'s header is refused before, by its
length), so in `Chat` the refusal of `server.c:86-90` is met by wrong passwords
only.

A third is a matter of values: -1 is "nobody" in `current_groupid`
(`auth.c:66-67`), and `adduser` takes it for a group (`users.c:38`). A file of
such an account can be read without a session, for `filesystem.c:21` compares the
groups alone; no document says otherwise. `GuestsOnlyRead` says that this is all:
no other command gets through, and no read without such an account.

### Bounds, and why they are enough

- *Task 1*: the programs have three flights, and that is what the runs have
  (four in `deadlock_prevention`, a contender more).
  `StartAlt = 4` quanta gives several rounds. The theorems have no bound.
- *Task 2*: the sizes of the programs, 8 pages and 4 frames. Workloads: the
  programs' own; all four-request workloads of addresses at the ends of pages and
  of the process; all five-request sequences over five pages after four
  that fill the memory, which reach every order of hits and evictions with a
  pointer anywhere and every ranking of the time stamps.
- *Task 3*: three account slots and two file slots, so that both tables fill,
  shift and empty; two names besides root and two file names, each pair
  interchangeable (`SYMMETRY`, sound since no property of the run is about
  liveness); `UidBound = 1004` lets three accounts be made one after another, so
  a slot and a name are used again under a new uid. Two groups, of which one is
  -1, the group `current_groupid` has when nobody is logged in (`MCGid`).
- *Task 4*: two clients, each of which types two messages and may be killed;
  the first may run out of input, the second may be the bounds-check client
  instead. That is enough for acknowledgements of different messages and
  different clients to be confused if the code lets them. Two texts, one of them
  the password. `Backlog = 1` is less than the number of clients, so that a
  connect has to wait for main. The server may be started again once, so that
  a client of the first process meets one of the second; three clients with a
  restart are beyond a run of five minutes and add no pair of actors.

The largest runs are `chat` with 377,026 distinct states, `virtual_os` with
353,738 and `simulations` with 188,781, each within two and a half minutes on two workers.

The bounds that stop a model and not the program are `UidBound` (accounts made),
in the guard of `user_create`, `MaxTurns` (messages typed), in that of
`TypeMessage` and, while its connection lasts, of `Repeat`, `MaxRestarts`, in that
of `RestartServer`, and `Workloads`, in the initial state.

### Fairness, and why the code justifies it

- A thread that can run eventually runs: weak fairness of each thread and of
  main, from the kernel's scheduler. A lock that is taken once by each flight
  needs no more, since it is eventually free for good.
- `turn_lock` is taken again and again, so a waiting flight needs strong
  fairness of `LockTurn`: each thread sleeps a second *outside* the mutex after
  each unlock (`roundrobin.c:47-55`), which is what lets the others in.
- `Chat`: weak fairness of every client, of main and of every handler; users
  type eventually. Nothing makes `KillClient`, `StopServer` or `RestartServer`
  happen, nor keeps them from happening. A client whose input has ended need not
  leave: its loop goes on for as long as its connection does.
- `LandingWithoutSync`, `Simulations`, `VirtualOS` check safety only.

### Assumptions

`pthread_create` succeeds in Task 1, whose programs do not test its result (in
Task 4 it may fail). What `scanf` reads fits its buffer; `audit.log` opens. Group ids
are any integers (`GidAssumption`), -1 among them. Workloads have
at most 50 non-negative addresses (`WorkloadAssumption`), as all in the code do:
what a longer one would do past the end of a row of `addr_history` is not modelled.
In Task 3 what a command takes over from the one before, when the input ends in
the middle of it, is among the inputs that are tried anyway. The input of a chat
client holds a password at least, and no text has a byte that XORs to zero (the
key itself), which would cut the text repeated at the end of the input. The
second argument of `listen` is a natural number (`BacklogAssumption`). What one
`send` hands over on the loopback interface arrives whole.

## 5. Proofs

Each theorem is about `Spec` of its module for every value of the constants that
satisfies the named assumptions.

| Module | Theorems | Argument |
|---|---|---|
| `FlightProcessProofs` | lemmas for the others | `ProcessInv` is inductive for main's steps and for a thread that returns: index bounds of both loops, and who has been created or joined so far |
| `LockPathsProofs` | `Exclusion`, `DeadlockPrevention`, `FixedOrderPrevention`, `SingleLockPrevention`, `StuckInCircularWait`, `Freeze`, `RunwayRefinement` | `ProcessInv`, `TypeOK` and `MutexOwnership` are inductive together. Deadlock freedom holds for *any* mutexes that can be given levels so that every path descends: of the flights in a circular wait take the one that wants the lowest mutex; its owner has passed that level and wants a lower one still. `Freeze`: the owners in a cycle are blocked, so no step of theirs frees what the others wait for. `StuckInCircularWait`: an owner has not returned, so it runs and, if all who run are blocked, is blocked too; the running flights are the circle |
| `LandingWithoutSyncProofs` | `SomebodyLands` | the flag alone is not inductive: the invariant adds that a flight turned away saw one that is still landing or has left, and that a thread returns only at the end of its routine |
| `RoundRobinProofs` | `Typing`, `RoundRobinOrder`, `TurnAlive`, `TurnOrderRefinement` | `TypeOK` alone is not inductive: that `Descend` stays above the ground needs `StepInv` (a flight about to descend is in the air, the one about to pass the turn has it, one that has returned is on the ground), and that needs `TurnLockOwnership` (only the owner of the mutex is inside the critical section). `TurnsInOrder` completes the invariant; `TurnAlive` and the refinement follow from it |
| `FinalProgramProofs` | `ArrivalsRefinement`, `NoDeadlock`, `NobodyStuck`, `DescentFree`, `Shutdown` | every step is by definition one of a half and a stutter of the other, so the invariants and the step lemmas of the halves give each step as one of `TurnOrder` or of `Runway`; what is new is that a flight in the descent owns no landing mutex, that one in the landing is down and has not `turn_lock`, and that none returns before both. `NobodyStuck`: the owner of `turn_lock` runs and is not blocked, so if all who run were, nobody would own it and nobody would be in the air; they would all be blocked in the landing, which is a circular wait |
| `SimulationsProofs` | `Typing`, `Translation`, `Policies`, `LruInclusion`, `FirstPagesKept` | see below |
| `VirtualOSProofs` | `Typing`, `AccountsAreUnique`, `SessionsAreLive`, `Ownership`, `ClearReads`, `OwnersText`, `KeepOthersFiles`, `GuestsShareOneGroup`, `LogIsTrue`, `VaultRefinement` | see below |
| `ChatProofs` | `Typing`, `Ownership`, `LogFollowsInput`, `AcksArePaired`, `SomebodyMoves`, `ConversationRefinement` | see below |

In `Simulations` the three policies share one invariant of the frames
(`MemInv`): a page of the process or nothing, no page twice, as many addresses as there
were requests at most, and no address in an empty frame; only the choice of the
frame differs, and for these two theorems it need only lie in the memory.

`Policies` has a stronger invariant. `Follows` says that the frames in use are
the first ones, as many as the list has items, and that there is a placement of
them on the positions of the list that takes what they hold and goes by their turns. A hit, a load
and an eviction each move this placement as they move the list. `FifoInv` adds
that the ring pointer is 0 until the memory is full, so that loads come in the
order of the turns; `LruInv` that every time stamp is less than `k`, so that the
frame used now comes last. That `PageCache` is defined for every number of
requests (`After` is a recursive function) is shown by taking the least number for which it is
not.

What the programs print (`PrintInv`) follows: a simulation ends when the
requests do, and its counters are then those of the list after all of them.

`LruInclusion` compares the list for all frames with that for any smaller
capacity: the smaller is the end of the larger (`LastOf`), they are equally long
until the smaller is full, which then stays as long as its capacity, and the
smaller has as many faults at least (`Keeps`). What a page
that is in the larger list alone costs is a fault of the smaller. With `Policies`
the larger list is what the frames hold.

`FirstPagesKept` needs besides that every page in a frame was requested
(`Kept`): then a page that is not in memory is requested for the first time while
there is a free frame, and its frame is the number of pages requested before it; and
once there is none, the page of an early first request is in its frame, so a page
not found is not one of those.

The invariant of `VirtualOS` is the conjunction of `TypeOK`, `UniqueAccounts`,
`SessionIsLive`, `PurgeInv`, `FilesOwned`, `FlagsTrue`, `TextByOwner` and
`ReadsAreClear`. None of `FilesOwned`, `ReadsAreClear` or `SessionIsLive` is
inductive by itself. While an account is being removed there are files without
an account, in the slots the loop has yet to visit; that none is left at the end
is the index, which `PurgeInv` keeps at 0 outside of the loop. `SessionIsLive`
survives a removal since the session is root's (`PurgeInv`) and root's slot is
not the one removed (`UniqueAccounts`). A read shows clear text because the flag
of every file says whether its bytes are XORed (`FlagsTrue`).

`GuestsShareOneGroup` uses it: without a session both ids are -1
(`SessionIsLive`), and nobody is being removed (`PurgeInv`), so every file has an
account (`FilesOwned`), which as such has an id from 0 up. Then the visitor is no
file's owner, and counts as one of its group only if that is -1; the mask gives
the group no more than "r".

`VaultRefinement` needs two facts more: no account but root's has an id below
1001, so a new id is one that was never issued, and the account that is being
removed is gone from the table while the loop runs (`TargetGone`). A removal is
`Close`; from then on the files of the account count as gone. That a turn of the
loop changes nothing then is a fact about ranks: deleting a slot that is not kept
leaves the n-th of the kept ones what it was (`SelectedAfterRemoval`). At the end
of the loop `FilesOwned`, with the index at 0, says that every file is kept, so
the table is what is left of it.

The invariant of `Chat` comes in two parts. `OwnerInv` types the listening
socket, the clients, the threads and what travels between them, and says who
answers for a connection. The thread named after a connection serves that
connection: the memory it takes its socket from was written by main for it
alone, before it was created. Nobody but the listen queue, main and that thread
holds the connection, and one hands it to the next in a single step; the queue
holds no connection twice, since a client connects once, and is empty when there
is no process.

`ChatInv` adds `Sessions`, one statement per connection. None of `LoggedAsTyped`,
`AcksPaired` and `NoMutualWait` is inductive: that a thread finds a header where
it reads one depends on what the client has sent, on what the thread has read of
it and on what was answered, and each of these can be interrupted by the death of
either side. `Session(c)` goes by the place of the client. While both ends are
open (`Talking`) it says what is on its way, how far the thread has come with it
and whether the text last typed is still to be printed. When the client has left
(`Parting`) it says what its bytes may still be: whole frames, a header without
its payload, an `EXIT`. When the thread has left (`Dropped`) nothing is read any
more and the client has yet to notice. A dead client's last header makes the
thread print an empty entry (`Aborted`), which is the last thing it does for that
connection. The refinement follows: a user is admitted, speaks and is heard in
the steps `AUTH` is checked, a message is typed and its payload is processed; all
other steps stutter.

Only model-checked: liveness and fairness (`Terminates`, `LandOrFreeze`,
`SessionsEnd`), which the prover does not reach; and `TestCases`, which runs three
given workloads (`final1.c`-`final3.c`) through memories of a given size: there is no
constant to generalise, and the run is all of it.
