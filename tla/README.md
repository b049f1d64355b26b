# A verification of bacnet-stack-zephyr

TLA+ modules of the code this repository adds to the BACnet stack library: the
Zephyr module under `zephyr/` (task lock, main loop, shells, settings,
re-initialisation, datalinks).  The BACnet stack library itself
(`bacnet_basic`, the objects, the service handlers, MS/TP) is a separate
repository and appears only as this code uses it; so do the Zephyr kernel, its
settings subsystem, its network stack and its shell.  Paths below are relative
to `src/`, and those without a directory are under `zephyr/subsys/`.

## The system

One device runs one BACnet main loop, on the main thread, and any number of
Zephyr shell backends, each on a thread of its own and of lower priority.  All
of them work on the stack's data, which are not thread-safe, under one
recursive mutex.  Property values written by clients or shells are saved to
non-volatile settings and restored at the next start.  ReinitializeDevice
restarts the device from the main loop.  The datalink under it gets its address
and its sockets from Zephyr's network stack.

| component | code | state | operations | interacts with |
|---|---|---|---|---|
| task lock | `bacnet_osif/bacnet_lock.c` | the mutex: owner, count, waiters | lock, unlock | everybody |
| main loop | `zephyr/samples/profiles/*/src/main.c` | `port_initialized`, where it is | boot, basic init, sleep, basic task, port task, port init | lock, datalink, clock, re-initialisation |
| clock | `bacnet_shell/bacnet_shell_datetime.c`, the library's `datetime_*` | date, time | set (shell, TimeSynchronization), read | lock |
| file shell | `bacnet_shell/bacnet_shell_file.c` | per transfer: snapshot of instance, pathname, size; offset; heap copy | dump, export, decode, hex write, list, info | lock, File objects, POSIX backend |
| property storage | `bacnet_settings/bacnet_storage.c` | the saved keys, the load callback | save, load, delete, clear | settings backend |
| property settings | `bacnet_settings/bacnet_settings.c`, `*_shell.c` | none of its own | store and restore callbacks; typed getters and setters; shell value, string, list, delete | storage, `Device_Write_Property()` |
| ReinitializeDevice | `bacnet_osif/bacnet_reinit.c` | reinitialised state, timer | init and task handler; requests | main loop, storage, reboot |
| millisecond timer | `bacnet_osif/bacnet_mstimer.c` | start, interval | set, restart, expired, elapsed | kernel uptime |
| BACnet/IP datalink | `bacnet_datalink/bip-init.c` | address, two sockets, the wait | init, wait, cleanup, set address, send, receive | network stack, main loop |
| BACnet/IPv6 datalink | `bacnet_datalink/bip6-init.c` | two addresses with ports, one socket | init in steps, cleanup, set address, group and port, send, receive | network stack, main loop |
| server thread | `server/server.c` | an event queue | enqueue, dequeue; its handlers are compiled out | network management |
| object registry | `object/` | linker-made tables | iterate, look up | |
| property shell | `bacnet_shell/bacnet_shell_property.c` | none | read for the datatype, WriteProperty, print | lock, `Device_Write_Property()`, and so the storage |
| lighting shell | `bacnet_shell/bacnet_shell_lighting_output.c` | none | set, relinquish, fade, ramp, stop, step, blink, override, print | lock, the Lighting Output object, not the storage |
| objects, packets, uptime shells | `bacnet_shell/` | none | print | lock |
| logging, build | `bacnet_osif/bacnet_log.c`, `zephyr/Kconfig` | | | |

What is hard about it, and hardly reached by a test:

* **Interleavings.** Shell commands and the main loop at every point of each
  other, with hand-over of the mutex; transfers that let go of the lock between
  chunks and go on with a snapshot of a file that has changed meanwhile.
* **Long waits.** DHCP may never answer and a terminal may stop reading; neither
  may stop the device.
* **Power loss and failing flash** between a write in RAM and its save, in the
  middle of a load or of a clearing; an order of loading nobody chose.
* **Time.** A millisecond counter that wraps, and a timer whose start is an
  earlier poll and not the request it delays.
* **Resources used again.** Socket descriptors, and a callback record on the
  stack of a function that returns.
* **Data from outside.** A length in a datagram's header that is subtracted from
  the datagram's own; an array index and a priority typed in, of which the code
  keeps two copies.

`PROJECT.json` lists each of these hazards at its line, with the properties that
would catch it going wrong, or why none covers it yet.

## What makes each component correct

* Lock: one thread at a time in the stack; nobody keeps the lock over a wait of
  unknown length; the main loop and every waiter go on whatever the others do.
* Clock: nobody reads the time of one setting with the date of another.
* File shell: what is exported is exactly the file from offset to end, of the
  file that was asked for; every read lies in the signed 32-bit range of stream
  offsets; every transfer ends and frees its pathname.
* Storage: after a restart every property, element and priority has the value
  last saved for it; a failed save or delete loses that one only.
* Settings' values: a getter answers with what was last reported as saved, as far as its
  buffer takes it, or with its default; a number typed in is saved as that number, with its datatype, or not.
* ReinitializeDevice: honoured once, not before its delay, keeping the settings
  unless it was a cold start, and finally honoured.
* Datalink: the sockets it holds are its own; no callback outlives its wait; a
  re-initialisation does not wait for the network; an address that is there ends
  the wait; a broadcast is read once the unicast socket is silent; the IPv6 address,
  its group and the socket have one port; what is passed up are received bytes.
* Property and lighting shells: a command changes the slot it names and no other, and
  what it leaves behind after a restart is a saved value or none.

## The modules

| module | models | checked by | proofs |
|---|---|---|---|
| `BacnetTask` | task lock, main loop, shell threads, clock in two halves | `MCBacnetTask` | `BacnetTask_proofs` |
| `AtomicClock` | abstract: a clock set and read at once | refined by `BacnetTask` | |
| `FileTransfer` | dump, export, decode and all that may happen to a file meanwhile | `MCFileTransfer` | `FileTransfer_proofs` |
| `Storage` | keys, WriteProperty, save, load, delete, clear, power loss | `MCStorage`, `MCPropertyShell` | `Storage_proofs` |
| `PropertyShell` | extends `Storage`: `bacnet property value` and `bacnet light` as writers | `MCPropertyShell` | `PropertyShell_proofs` |
| `PropertyStore` | abstract: durable values that a restart shows again | refined by `Storage` and by `PropertyShell` | |
| `SettingsValues` | typed getters and setters, the text of `settings value` and `storage string` | `MCSettingsValues` | `SettingsValues_proofs` |
| `Reinit` | the task handler, its timer, the requests | `MCReinit` | `Reinit_proofs` |
| `BipDatalink` | the life cycle of the BACnet/IP datalink | `MCBipPackets` | `BipDatalink_proofs` |
| `BipPackets` | extends `BipDatalink`: which socket a packet is read from, and when | `MCBipPackets` | `BipDatalink_proofs` |
| `ReceivedNpdu` | what is left of a datagram: the end of `bip_receive()` and `bip6_receive()` | `MCBip6Datalink` | `Bip6Datalink_proofs` |
| `Bip6Datalink` | the BACnet/IPv6 datalink with its packets | `MCBip6Datalink` | `Bip6Datalink_proofs` |

The modules meet in the lock.  `BacnetTask` models the threads and shows that
locked sections exclude each other (`StackExclusive`); the other modules rely on
it to treat one locked section as one step: a chunk of a transfer in
`FileTransfer`, a poll in `Reinit`, a WriteProperty in `Storage`, a shell command in
`PropertyShell`, a `bip_receive()` in `BipPackets`.  What `BacnetTask` leaves outside
the lock, `bacnet_port_init()`, is the steps of `BipDatalink`, or of
`Bip6Datalink`, one by one, and the place `wait` of `Reinit`.  A cold start that
`Reinit` decides is `ClearBegin .. ClearDone` of `Storage`.

In each module, an operator that stands right before another one of a similar
name (`UnlockForgotten` before `Unlock`, `CleanupForgetsAddress` before
`Cleanup`) is a deliberately wrong variant of it.  It is used by no action;
`PROJECT.json` names, for every property, the variant under which TLC finds that
property violated.

### BacnetTask

`owner`, `lockCount`, `waitq` are Zephyr's `k_mutex`: recursive, and on unlock
handed to the first waiter, the main thread before the shell threads.  `pc` says
where each thread is.  The main thread goes boot, basic init (locked), then
`sleep`, lock, read the clock (`bacnet_basic_task()`), `bacnet_port_task()` if
the port is up, unlock, and `portInit` until that succeeds: the calls of `main()`
in `b-asc/src/main.c:154-173`, which the other profiles share.  A shell thread
runs either a handler wrapped by `BACNET_SHELL_LOCK_HANDLER`, which prints inside
the lock, or a chunked transfer, which prints between chunks and may `stall`
there for ever.  The clock's halves `time` and `date` are written and read one
at a time, in the order of the library's `datetime_copy()`.

### FileTransfer

Per shell thread, the transfer's snapshot (instance, pathname, size, heap copy),
its offset, and as history the bytes put out so far with where they came from.
One step per locked section: the validation of the arguments, the chunk with its
revalidation of the snapshot against the object, the end with its release.  The
environment is everything other locked sections do to a file between two chunks:
the object is deleted, created, renamed or given another size, its contents
written by hex, the backend configured, a read cut short.

### Storage

`live` is RAM, `nv` the saved keys, `saved` the history of what was saved last
for each slot.  A slot is a property, an element of an array or a priority of a
commandable property; a key is what `bacnet_storage_key` encodes, where the
priority of a commandable property stands in the place of the array index.
Every save and delete may fail, power may be lost between any two steps, and the
keys are loaded in any order.  `bacnet_settings_basic_store()`, through which
the samples save, is the library's part; the module follows
`bacnet_settings_write_property_store()` here, which does the same with the code
in this repository.

### PropertyShell

The variables are those of `Storage`; the module adds actions.
`bacnet property value` with a text (`PropertyValue`) reads the property to learn its
datatype, unless one is given: the element named, or the first if the array has no such
element (`ReadIndex`).  It then makes a WriteProperty of what was typed, with the
priority after an `@` if that is one (`ShellPriority`), and that is the `WriteProperty`
of `Storage`, with the save that may fail.  The lighting commands change the same
priority array directly in the object (`Unsaved`): `set` and `relinquish` with the
priority given, the lighting commands proper with the object's default for one that is
none (`CommandPriority`), and `blink` sets the egress time too.  A level is a value;
the time a fade takes is left out, the value at its end is not.

### SettingsValues

The other half of the settings: `stored` is what a key holds, datatype and value, or
the characters of a string; `kept` is the history of what the setters and the shells
last reported as saved, and `ansi` the keys where
`bacnet_settings_characterstring_ansi_set()` made that report.  What users type is
a class of text (a number, a fraction, a word, a name of the property, ...) and a
number; `Parse` is `bacnet_settings_value_parse()`
with the conversions of `bacnet_storage_strtoul()` and `_strtol()` at their
widths.  The getters change nothing and are operators.  The words `true`,
`false`, `NULL` and names change the datatype of a setting, and the tag that may
stand before a text is overwritten by the decoding of the stored value: the module
has both, as the code does.

Four classes are texts by the buffers they fit: `BACNET_CHARACTER_STRING` (64 bytes by
default, 128 in the samples), the encoding of a setting (256), a reader's (257).  The
encoding is checked where an encoded value is saved, by `bacnet_settings_value_set()`
and `value` (`Fits`).  Nothing is checked where the characters of a text are, by
`bacnet_settings_string_set()` and `storage string` (`StringSet`): a text of any length
is saved and reported as success, and its readers get its beginning (`Read`).
`bacnet_settings_string_get()` lets its caller choose the buffer; the module gives it
that of the shells.  How the library encodes a value is left out.  That the characters
of a saved string may be decoded as a value is not: `Spelled` says what they mean, and
the theorems hold for any.  The NUL that the setter saves behind the text, and `string`
does not, is left out, and so is the empty text.

### Reinit

The clock is `k_uptime_get_32()` in ticks, wrapping at `TickWrap`; `start` and
`interval` are the timer.  A round of the main loop sleeps at most `Period`
ticks, polls, and then waits without limit while the port is not initialised.
`canReboot` is `CONFIG_REBOOT`.  The histories `last`, `owed`, `since`, `calm`
and `prompt` say what was asked for, when, and whether the main loop had polled
the idle state just before.

### BipDatalink

`pc` is the place in `bip_init()` and `wait_for_ipv4_address()`: subscribe, check
the address table, take the semaphore, unsubscribe, read the address, open one
socket and then the other.  The network stack adds and removes addresses between
all of these; events are delivered later, to whoever is subscribed then.
Descriptors are numbers that the rest of the system opens and closes too.

### BipPackets

`readable` holds the sockets a datagram waits in.  `Receive` is `bip_receive()`, by the
main loop outside `bip_init()`, once the port is initialised: it selects both
sockets and reads the unicast one if it is readable, the broadcast one otherwise.
Every step of `BipDatalink` is a step here that drops what waits in a socket it
closes (`Linked`).  Sending changes no state of the datalink and is left out here.

### ReceivedNpdu

Both receive functions end alike: at most the buffer's size is received, the link
layer's handler reports the length of its header, or 0 for a packet that goes no
further, and the rest is shifted to the front.  The header's length comes from the
datagram; the difference is a `uint16_t`, so `U16` is the modulus.

### Bip6Datalink

`pc` is the place in `bip6_init()`: the interface and the addresses are one step
(`Begin`), then socket, join, bind.  There is no wait: whatever the chosen slot of
the interface's table holds is copied, also the unspecified address.  An interface
that is missing leaves the addresses as they were.  Any call may fail.  The setters
come between any two steps.  Histories: `io` is what the last step did with a
socket, `refused` the descriptors whose join failed, `fresh` says that the addresses
are those of the last `bip6_init()`.

## The runs

| run | bounds | states | shows |
|---|---|---|---|
| `task_lock` | main, 2 shells, 2 clock values | 18,768 | exclusion, no long wait under the lock, whole clock readings, refinement of `AtomicClock`, progress of main loop and shells |
| `file_transfer` | 1 shell, 1 object, 2 pathnames, offsets to 2, chunks of 1 and 2 bytes | 162,848 | contiguous, complete and own output, reads within the stream offsets, ownership of the copy, every transfer ends |
| `storage` | 1 light's present value with 2 priorities, 1 array of 1, 1 plain property, 2 values, index and priority typed up to one past their ends | 33,585 | what was saved is restored, by clients and shells; keys and clearing; commands touch what they name; refinement of `PropertyStore` |
| `settings_values` | 1 key, 8 for 2^32 and 16 for the range of unsigned long, 8 numbers, a text of each other class | 1,629 | getters answer with what was reported as saved; typed numbers are exact |
| `reinit` | delay 4, period 2, counter modulo 8 | 69,578 | requests honoured once, in time, with the settings kept |
| `bip` | 3 descriptors, 2 table slots, 2 addresses of which 1 is accepted | 190,392 | ownership of sockets and callback, no second wait, no lost wake-up, the wait ends, broadcasts are heard |
| `bip6` | 3 descriptors, 2 ports, 1 address, 2 groups, datagrams of up to 3 in a buffer of 2, headers of up to 2, lengths modulo 5 | 25,176 | ownership of the socket, what may be lost, one port, no wrapped length |

Why these bounds are enough to meet the interesting cases:

* `task_lock`: two shells beside the main loop make a queue of two, so that both
  the order of waiters and the overtaking by the main thread occur; two values
  make a mixed reading visible.
* `file_transfer`: chunks of 1 and 2 bytes in a file of up to 2 put the end of a
  chunk short of, at and past the end of the file, make transfers of several
  chunks, and let a file outgrow the largest offset; two pathnames let a file be
  exchanged for another.  Shells do not interact but through the environment's
  steps, so one suffices.
* `storage`: two priorities and one element make every two kinds of keys that
  could be confused; two values make a stale one visible.  An index of 2, which the
  array does not have, makes the search for a datatype move to element 1; 0 and 3 after
  an `@` are the numbers on either side of the priorities.
* `settings_values`: keys do not meet, so one suffices, commandable and with names; the
  numbers lie on both sides of each end of the signed and unsigned 32-bit ranges and
  beyond half the range of long, which is one bit wider, as on a 64-bit host.  Some texts
  of the run are decoded as an unsigned, a signed or a coded value when their characters
  are saved.  One build has either `large` and `huge` texts or `wide` ones; the run has all.
* `reinit`: the delay is two periods and the counter wraps within one delay and
  period, the least the assumption allows, so that timers span a wrap.
* `bip`: three descriptors let both sockets of the datalink and one of somebody
  else be open together, and a number change hands; two slots let an address of
  the wrong type stand before an accepted one.
* `bip6`: three descriptors as in `bip`, so that a lost socket, a new one and one of
  somebody else meet; a second port lets a setter make the addresses differ; datagrams
  shorter than their header, longer than the buffer, and in between all occur, and 5 is
  the least modulus the assumption allows.

Five more runs state what the documentation says and find that the code does
otherwise; each is a `finding` in `PROJECT.json`:

* `storage_default_name`: `bacnet_storage_load()` loads the subtree of the
  handler's name, `bacnet`, while the keys are saved under
  `CONFIG_BACNET_SETTINGS_BASE_NAME`, by default `.bacnet`: with the default
  nothing is restored.
* `storage_whole_array`: a whole array and one of its elements are saved under
  two keys, both restored, in an order nobody chose.
* `settings_ansi`: `bacnet_settings_characterstring_ansi_set()` saves only when the text
  could not be taken; for every other text it reports success and saves nothing.
* `reinit_delay`: the timer runs from the last poll of the idle state and not
  from the request, so that the minimum delay of `zephyr/Kconfig:694-695` is not
  kept.  `NotEarly` says what does hold: no more than one sleep early for a
  request that follows an idle poll.
* `bip_leak`: a failure of the second socket leaves the first open, the next
  `bip_init()` overwrites its descriptor, and no `bip_cleanup()` closes it.

Some things met on the way are no properties of a run:

* A string too long for the readers' buffers is saved and reported as success by
  `bacnet_settings_string_set()` and `storage string`; readers get its beginning, and as
  the "stored data length" of the comments the length of their buffer.  `Answers` says no
  more of such a text.  `bacnet_storage_handler_set()` would pass on its full length with
  a buffer that holds the beginning (`bacnet_storage.c:542`).
* The static-address branch of `bip_set_interface()` is not reached from `bip_init()`,
  which calls it only when the address is 0, though the comment at `bip_cleanup()`
  counts on it.
* Because the main loop makes the port init itself, a ReinitializeDevice asked for while
  DHCP does not answer is not honoured until it does; `RequestHonoured` has that as its
  premise.
* After a re-initialisation whose second socket failed, `bip_valid()` is true and
  broadcasts are not heard; `BroadcastHeard` is about those that reach a socket.
* A busy unicast socket keeps broadcasts waiting for ever; `BroadcastHeard` has its
  silence as a premise.
* A join that fails leaves the IPv6 socket open and unbound, the next `bip6_init()`
  overwrites its number, and meanwhile `bip6_valid()` is true; `UnboundOnlyIfRefused`
  says that a failed join is the only way to that.
* `bip6_init()` binds to any address and not, as its comment says, to the local one; the
  code for that is under `#if 0`.
* `bip_get_subnet_prefix()` computes with addresses in network byte order and masks in
  the host's, and answers 33 if no prefix fits, where its comment has 1..32.

## Fairness

Every fairness assumption is weak and of a thread or of the kernel:

* `BacnetTask`: `MainStep` (a sleep ends, a thread that can run does) and
  `ShellStep` of each shell (a locked section runs on, and what it prints
  drains).  None for the return of `bacnet_port_init()`, for users typing
  commands, nor for the terminal of a transfer.  That a handler's output inside
  the lock drains is an assumption and no fact: a terminal that stalls in the
  middle of `bacnet settings list` does stop the task, as the hazard at
  `bacnet_shell.h:25` says.
* `FileTransfer`: each transfer goes on, its output drains.
* `Reinit`: time passes, the boot goes on, and a sleep ends.  Not the port init.
* `BipDatalink`: the main loop goes on and events are delivered.  Not that an
  address ever comes; `WaitEnds` is about one that does and stays.
* `BipPackets`: the same, and the main loop calls `bip_receive()` again and again once
  the port is initialised (`bacnet_port_task()` in every round).  Nothing of the
  network: `BroadcastHeard` supposes that the unicast socket falls silent.
* `Storage`, `PropertyShell`, `SettingsValues` and `Bip6Datalink` have no fairness and no liveness property.

## What is proved

The proof system checks these theorems for every value of the constants that the
modules' `ASSUME`s allow; the runs check the same formulas on the instances above.

* **BacnetTask** (any set of shells and clock values): `TypeCorrect`,
  `MutualExclusion`, `NoLongWait`, `WholeReadings`, `ClockRefinement`.  That a
  thread inside a locked section excludes others is not inductive: the invariant
  adds that the owner is exactly the one thread inside, that the waiters are
  distinct and stand at the entry of a section, that the count is one
  (`LockInv`), and that the halves of the clock differ only while their writer is
  between its two stores (`ClockInv`).  `ServedInTurn` is about the queue: every step
  leaves it alone, adds a thread that is not in it, or serves the first one
  (`QueueStep`), and neither of the latter changes the order of two shells
  (`ArrivalKeepsOrder`, `ServiceKeepsOrder`).  The owner is inside a locked section
  whenever somebody waits, so there is no cycle of waiters.
* **FileTransfer** (any shells, files, sizes and chunk lengths): `TypeCorrect`,
  `Contiguity`, `Completeness`, `Provenance`, `OffsetsInRange`, `Ownership`,
  `RowsOfOutput`, `TransferProgress`.  The
  invariant speaks of one shell at a time: what is out so far ends at the offset,
  is of the snapshot's pathname, is complete when the transfer says so, and the
  heap holds a copy exactly while the transfer runs.  `OffsetsInRange` is about the largest
  offset of a stream and not about the file: a dump with a length of its own may
  ask for bytes past the captured size.  Two lemmas say that a step
  of one shell, or of the environment, leaves the others' part alone.  The last two
  theorems rest on a second invariant, `StreamInv`: a chunk on its way out has a byte
  at least, and export's has all it asked for, hence the chunks lie a chunk's size
  apart and there are no more of them than bytes.  With that the measure `StepsLeft`
  falls with each step of a command.
* **Storage** (any properties, priorities, elements and values): `TypeCorrect`
  and `ClearCarriesOn` without further assumption.  `KeysMatch` under
  `WholeArrays = FALSE`: every key holds what was last saved for the one slot it
  is restored to, by the lemmas `RoundTrip` (restoring undoes saving), `OneSlot`
  and `KeysAreSlots`.  `Restores` and `StoreRefinement` also under
  `BaseName = HandlerName`.  The two violation runs show that neither assumption
  can be dropped; three theorems say how much is lost with each.  `SinglesComeBack`,
  without the first: a slot comes back with the value of one of its keys
  (`LoadedValues`), which for all but the elements of arrays is the only one
  (`OneKey`).  `NothingComesBack`, without the second: no start loads anything.
  `ColdStartForgets`, without either: a saved value always has a key that is stored
  (`SavedHasKey`), so that a clearing without failures leaves the initial state to the
  restart.  All three see a step as a change of one key and the slots it is restored
  to, or of none (`SavingStep`).
* **PropertyShell** (any lights too): `ShellSound`, `ShellRestores`, `ShellRefinement`,
  `ShellRestarts`, `WritesOnlyNamed`.  The lemma `ShellStep` splits every step into one of `Storage` or
  one that changes values in RAM and nothing else while the device runs; the former is
  covered by the lemmas of `Storage_proofs`, the latter disturbs neither the saved
  values nor a load, and is a `Write` of `PropertyStore`.  `WritesOnlyNamed` rests on
  `RoundTrip`.  `ShellRestores` and `ShellRefinement` have the assumptions of `Restores`;
  `ShellRestarts`, which is `SinglesComeBack` and `ColdStartForgets` with the shell,
  has that on the names only.
* **SettingsValues** (any keys, texts and widths): `SettingsTypes`, `GettersAnswer`,
  `NumbersSavedExactly`, `ValueKeepsDatatype`.  The invariant `Sound` says that what a key holds is what
  was last reported, outside `ansi`, which through the getters is `Answers`, truncation of
  long strings included; that every parse yields an entry of a datatype
  is the lemma `ParseType`, and that a number in the datatype's range survives the
  conversions `UnsignedExact` and `SignedExact`.  A text changes the datatype of a
  setting only as one of the words that have their own (`WordDatatype`).
* **Reinit** (any delay, period and wrap with Delay + Period <= TickWrap):
  `TypeCorrect`, `NeverEarly`, `OnceEach`, `SettingsRetained`, `PendingComesDue`.  The
  invariant ties
  the timer to the histories: after an idle poll the elapsed time is the time
  slept, and since a prompt request it is at most a period more.  The assumption
  is what keeps the difference of two readings of a wrapping counter exact; a
  delay of 0 is excluded because an interval of 0 disables the timer and the
  device would never reboot.  `PendingComesDue` follows a pending reboot through a
  `Fresh` sleep, one after a poll that found the timer running: the elapsed time is
  less than delay and time slept together, so that the counter cannot come round
  before the next poll looks at it.
* **BipDatalink** (any descriptors, slots and addresses): `TypeCorrect`,
  `SocketsOwned`, `CallbackRemoved`, `NoSecondWait`, `WakeupNotLost`, `LeakConfined`,
  `PacketsImplementDatalink`.  The invariant adds that the
  broadcast socket is the last to be opened, that an initialised port knows its
  address, and that the wait is left only with a slot.  `PacketsSafe` carries them over to
  `BipPackets`, where a step is one of `BipDatalink` or changes `readable` only
  (`PacketsImplementDatalink`).  `WakeupNotLost` needs an invariant of the wait
  (`WaitInv`): the callback is listed from before the table is read until the wait is
  left (`Listening`), so that an address added after the reading has an event that finds
  it there.  `LeakConfined` bounds what the run `bip_leak` finds: a socket
  is lost only by a `bip_init()` that follows one whose broadcast socket failed.
* **Bip6Datalink** (any descriptors, addresses, groups, ports and sizes): `TypeCorrect`,
  `SocketIsOwn`, `LostOnlyIfRefused`, `OnePort`, `OnlyReceivedBytes`.  The last step of
  `bip6_init()` can only be shown to bind the one bound socket because a `bip6_init()`
  starts with nothing bound: the invariant `IInv` says so (`NoneBound`), accounts for
  every open descriptor of the datalink as bound, refused or just being opened
  (`Accounted`), and keeps a port to bind to (`PortKnown`) that is already the one of
  both addresses (`FreshPorts`).  `OnlyReceivedBytes` needs the arithmetic of a
  difference modulo `U16` (`ModBelow`, `ModAbove`), and the assumption that buffer and
  header together are shorter than 2^16: without it a wrapped length could be small
  enough to pass the check.

The assumptions beside those named above: no port is 0; the default priority of a light
is one of the priorities; an object refuses a priority that is none (0, which the shell
passes for a commandable property without `@`), and an element that is not there.  The
last two are the library's part.  The stack sets no address 0.0.0.0 by `bip_set_addr()`
(`SetAddr`), which would take it and make the next `bip_init()` wait: `NoSecondWait`
rests on that.

Only model-checked: the liveness properties (`TaskKeepsRunning`, `ShellServed`,
`TransferEnds`, `RequestHonoured`, `WaitEnds`, `BroadcastHeard`), since fairness and ENABLED are
out of the prover's reach, and the `pass` of each run at its bounds.  Of four of them the
part that is no liveness is a theorem: the turn of the waiters (`ServedInTurn`), a measure
that falls (`TransferProgress`, `PendingComesDue`), and a sleep that will be ended
(`WakeupNotLost`).  What is left to fairness there is that the threads run.

## What is not modelled

* The library: objects, service handlers, APDU encoding.  Where a module needs
  one (the write of a property, the clock, the file object) it is modelled by how
  this code uses it and marked external in the map.
* Of the file shell, the listing, info and CRC output; and the exits of a command one by
  one: they are one `Finish`, so that a release missing at one of them would not show.
  Of storage, the erasing of
  the partition (`storage erase`: what the settings backend does between the erasing and
  the reboot is not in this repository), the spelling and parsing of keys, the lengths of
  values beyond the buffers of `SettingsValues`; so a load meets no value longer than its
  buffer.  Nor does it meet an error of the backend's reading or an object that refuses.
  The settings are there after `bacnet_storage_init()`: left out are its failure and, where
  a settings file lies on LittleFS, its deleting of that file.  Of the settings,
  what `value` prints, and the parsing of object and property names.  A cold start without
  `CONFIG_REBOOT` is in `Reinit` only.
* Of the property shell, printing and lists; a write that makes a resizable array longer.
  Of the lighting shell, overrides and the parameters of blinking, which are no
  properties, and the time a fade or ramp takes.
* Of the BACnet/IP datalink, the setters of the port and of the broadcast address, the
  subnet prefix, dropped events, an interface that is missing, and the removal of both
  address and event by the driver.  Several pending address events count as one, since
  the semaphore has a limit of one.
* MS/TP: the repository has an overlay for the serial port; the driver and the state
  machine are the library's.
* The server thread.  It is written for a Zephyr whose types and headers (`u32_t`,
  `<device.h>`) are gone; `bip_init()` refuses the name it passes, which is no
  interface; it waits for its queue with `K_FOREVER`, so that its receive branch never
  runs, and its event handlers are under `#if 0`.
* The object registry: constant tables made by the linker, iterated and looked up.
* Logging, build files, and the declarations of the objects: no behaviour.

## What is left

In this order: the setters of the BACnet/IP port and broadcast address, with the subnet
prefix as an operator on numbers of 32 bits in either byte order; keys as strings, with
their parser as the inverse of their encoder; and a composition of `Reinit` with
`Storage` for a power loss between the decision for a cold start and its clearing.
