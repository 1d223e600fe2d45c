# A verification of the Arduino 0023 core and libraries

TLA+ models, TLC runs and TLAPS proofs for the concurrent and the stateful parts of
the Arduino 0023 distribution in this repository. Paths below are relative to
`src/Arduino.app/Contents/Resources/Java`.

## The system

The repository is a Mac build of the Arduino IDE: Java archives, an AVR toolchain,
reference pages and example sketches, none of which are its own logic, and the C and
C++ code that runs on the boards, which is. That code is a set of small drivers that a
sketch calls from its one thread and that interrupts call into at any instruction.

| Part | State | Operations | What is hard | What makes it correct |
|---|---|---|---|---|
| `HardwareSerial` (`hardware/arduino/cores/arduino/HardwareSerial.cpp`) | a ring with `head` and `tail`, rate and enable bits, the transmit register | `begin end available peek read flush write`, receive interrupt | the interrupt runs between any two accesses of the sketch; no lock | two FIFO queues; `available()` keeps its word; the rate is the one asked for |
| `Wire` and `twi.c` (`libraries/Wire`) | `twi_state`, `twi_error`, master, receive and transmit buffers, the `TWCR` bits | blocking master calls, two slave callbacks, an interrupt with 23 statuses | sketch and interrupt share `twi_state`; several boards share a bus, arbitrate, refuse and fail | results tell the truth, messages arrive whole, every call returns |
| `SdVolume` (`libraries/SD/utility/SdVolume.cpp`) | one cached block, its dirty flag and mirror block, the FAT | flush, load, read and set a FAT entry, allocate, free a chain | the one cache serves FAT, directory and data; every step may fail | chains stay sound, both copies of the FAT agree, nothing leaks |
| `SdFile`, `SD`, `File` (`libraries/SD`) | the open file: position, cluster, first cluster, size, flags | open, create, read, write, seek, sync, close, truncate, remove | partial failure, retry, loss of power, a full card | contents are kept, a sync is durable |
| `Sd2Card` (`libraries/SD/utility/Sd2Card.cpp`) | SPI, partial block reads | block reads and writes, init, erase | timeouts after the data has landed | used below `SdVolume` only as an access that succeeds or fails |
| Time base (`wiring.c`) | timer 0 and its flag, overflow count, milliseconds, fraction | `millis micros delay`, overflow interrupt | an overflow pending, or happening, while the count is read; every counter wraps | `micros()` is a clock, `millis()` and `delay()` keep to it |
| `Tone.cpp` | `tone_pins`, timer 2, toggle count | `tone noTone`, compare interrupt | the interrupt ends a tone while the sketch starts or stops one | a tone is the one asked for, ends, and leaves other pins alone |
| `Servo` (`libraries/Servo`) | timer 1, the channel being pulsed, widths and limits | `attach detach write read`, compare interrupt | calls in the middle of a frame, a late interrupt, 8- and 16-bit roundings | pulses and frames last what they should, `read()` undoes `write()` |
| USB bridge (`firmwares/arduino-usbserial`) | two counted rings | main loop, receive interrupt | insertion without a test for a full ring, between the halves of a removal | each direction is a pipe |
| Ethernet (`libraries/Ethernet`) | the chip's sockets, `_server_port`, the handles a sketch holds | `Server`: `available write`; `Client`: `connect connected read write stop` | the chip changes state between any two polls; server and client share sockets | data stays on its own connection, none is thrown away, calls return, hosts are answered |
| Boot loaders (`bootloaders/`) | address, page buffer | STK500 commands, watchdog | loss of synchronisation, reset in a page write | flash holds what was sent |
| arduiNode (`libraries/arduiNode`) | node table, identifier, received packet type | reliable send, beacons, allocation of identifiers, relay | lossy radio, retries, loops | one identifier per node, a send that returns true was acknowledged |
| Stepper, SoftwareSerial, Firmata, CmdMessenger, displays, EEPROM, SPI | small | sequential or busy waiting | little concurrency | unit tests serve them better |

Interactions: sketches call the libraries; `SD` calls `SdFile`, which calls `SdVolume`,
which calls `Sd2Card`; `Wire` registers two callbacks with `twi.c`, which calls them
from its interrupt; the interrupts share plain or volatile variables with the sketch.

## Plan

1. *Done.* `HardwareSerial` with its abstract port, its invariant and the refinement proved.
2. *Done.* The bus (`TwiBus`), `twi.c` (`Twi`) and `Wire`, on several boards; every safety
   property proved.
3. *Done.* The volume (`SdVolume`) and the file (`SdFile`) with errors and power loss; on a
   card that does not fail every safety property that holds of all geometries proved.
4. *Done.* The parts with an interrupt of their own: `TimeBase` against an abstract `Clock`,
   `Tone`, `Servo`, and the bridge `UsbSerial` against an abstract `Pipe`; refinements and
   every safety property but the late match proved.
5. *Done.* `Ethernet` on a model of the chip (`W5100`), its separation of connections and that it throws no byte
   away proved.
6. Left: subdirectories of the SD library (`makeDir`, `addDirCluster`, `rmDir`); proofs of what
   the SD library keeps when an access fails (`Durable`); the mesh of arduiNode (see *Not
   modelled*).

## Modules

| Module | Models | Notes |
|---|---|---|
| `SerialPort` | what a port promises | abstract: two bounded queues |
| `HardwareSerial` | `HardwareSerial.cpp` | one action per access of the sketch to the ring |
| `HardwareSerialProofs` | | the inductive invariant of `HardwareSerial`; it implements `SerialPort`; its rates |
| `TwiBus` | the TWI peripherals and the wires | external; one step per byte |
| `Twi` | `utility/twi.c` | `EXTENDS TwiBus`; one action per group of cases of the interrupt, the blocking calls in steps |
| `Wire` | `Wire.cpp` | `EXTENDS Twi`; sketch, callbacks, `Spec`, properties |
| `WireProofs` | | types, truthful results, replies, whole messages, nobody stuck |
| `MCWire` | | values for TLC |
| `SdVolume` | `SdVolume.cpp`, the accesses of `Sd2Card.cpp` | operators from state to state |
| `SdFile` | `SdFile.cpp`, `SD.cpp`, `File.cpp` | `EXTENDS SdVolume`; one action per call of the sketch, power loss |
| `MCSdFile` | | values for TLC |
| `Clock` | what `micros()` promises | abstract: time and a reading of it |
| `TimeBase` | `wiring.c` and timer 0 | widths and units are constants |
| `Tone` | `Tone.cpp` on timer 2 | the sketch's calls split at each store the interrupt can see |
| `Servo` | `Servo.cpp` on one timer | time passes in jumps from event to event |
| `Pipe` | what one direction of the bridge promises | abstract: a queue with room for so many bytes |
| `UsbSerial` | `Arduino-usbserial.c`, `LightweightRingBuff.h` | the main loop in steps, the interrupt between any two |
| `MCBoard` | | the four parts above on one board, values for TLC |
| `W5100` | the chip and the hosts on its network | mostly external; one action per event |
| `Ethernet` | `Server.cpp`, `Client.cpp`, `socket.cpp` | `EXTENDS W5100`; one action per access to the chip |
| `Remainders` | | lemmas about `%` |
| `BoardProofs` | | the time base: `micros()` implements `Clock`, `millis()` is current, `delay()` is exact; Tone: `noTone()` silences, tones do not mix and are as asked; Servo: pulses, frames and angles; types, also of the board |
| `SdCallProofs` | | what each function of `SdVolume` and `SdFile` does, on a card that does not fail |
| `SdProofs` | | the inductive invariant of the files and what follows of it |
| `UsbSerialProofs` | | both directions of the bridge implement `Pipe`'s steps |
| `EthernetProofs` | | types, the separation of connections, no byte thrown away |

Definitions have the source's names where they can. `...Mutant...` definitions stand
beside the definition they vary: each is a bug someone could plausibly write, used to see
that a property would notice it. No specification refers to them.

### HardwareSerial

`buffer`, `head` and `tail` are the `ring_buffer`. The sketch is sequential, so a method
that touches the ring more than once is a chain of actions through `pc`: `ReadTest`,
`ReadLoad`, `ReadStore`, and so on. `ReadStoreEarly` and `ReadLoadLate` are the other
order of the two accesses in `read()`: `head` and `tail` are not volatile, so the
compiler may emit either. `RxInterrupt` is the whole interrupt with `store_char`. An index
is 16 bits and takes two instructions to load, but its high byte is always zero
(`RX_BUFFER_SIZE <= 256`), so one access is one step. `WriteCall` is enabled only after
`begin()`. `got` is what the last call returned, `promised` how many reads
`available()` has vouched for; both are history.

Under the refinement mapping the queue is the ring from `tail` on. With the tail stored
first, a read has taken effect before its character is loaded, and the mapping reads the
result from the slot the character still is in.

### TwiBus, Twi, Wire

A peripheral that has something to say sets TWINT (here `twint[n]`, the status) and holds
the clock; no byte moves until every participant has cleared it. `Address`, `WriteByte` and
`ReadByte` move one byte, decide arbitration by the lower value and raise the statuses.

`Enter`, `TestReady`, `Claim`, `SendStart`, `Waited` are the master calls split where they
touch what the interrupt shares: in particular the test of `twi_state` and its assignment
are two steps. A pending interrupt preempts the sketch (`Runs`): the one-cycle window
between the test and a TWINT that arrives with the write of TWCR is not modelled. The data
is copied when the buffer is claimed, from what the caller's buffer holds then.

The end of a slave reception is two actions around the user's callback: `twi_stop()`
re-enables the peripheral before it, `twi_releaseBus()` clears TWINT after it
(twi.c:411-424). If the bus runs on in between (`SlowCallback = TRUE`), the event that
arrives is thrown away and TLC finds replies that are stale. Whether it does depends on
the user's callback, so the runs assume a quick one and say so.

Not modelled: general call, repeated START (the library never sends one), requests of zero
bytes (twi.c:133 computes 255), change of address while running. Known consequences of the
code that no run claims otherwise: a slave that is sent more than its buffer acknowledges
one byte too many, drops it, and then stays in TWI_SRX with TWEA off (twi.c:402-409,
425-428); a request from another master empties the buffer of a transmission under
construction (Wire.cpp:239-241); data that arrives while the sketch has unread bytes is
dropped (Wire.cpp:216-218).

### SdVolume, SdFile

The code is sequential. An operation is an operator from a state (a record: card, cache,
file, error) to a state, and `Then(s, LAMBDA t : ...)` is the code's `if (!...) return
false`. The record's `left` says how many card accesses will still succeed, so a run tries
a failure at every access of every call; `lands` says whether the failing write reached the
card all the same, since `Sd2Card::writeBlock` also reports a timeout after the data.
A failure followed by `Crash` is a loss of power in the middle of a call.

A block is an array of cells; a data cell is `<<file, position>>`, so what is read back
tells where it belongs. The root directory is one block; FREE and DELETED slots are one
value because no used slot follows a FREE one. The geometry is FAT16.

Not modelled: subdirectories, `createContiguous`, time stamps, printing, allocation of more
than one cluster, the parsing in `SdVolume::init` and the SPI commands. One file is open at
a time, as the documentation asks; the code's own behaviour when a second one is opened
(the old file is silently used, SD.cpp:297-304) is outside the model, as is a handle kept
over `SD.remove` of its file.

### Clock, TimeBase

`Tick` is the timer: `TCNT0` counts, and sets `TOV0` when it wraps. `Overflow` is the
interrupt, which runs some time between the flag and `MaxLate` ticks after it, but not
while a call has interrupts off (`Masked`). `micros()` is three steps because the timer
runs on inside it: the count of overflows, then `TCNT0`, then the flag; interrupts being off
does not stop the first two from disagreeing. A masked section takes less than a tick (4 us
at 16 MHz), so at most one tick falls in it. `millis()` is two steps, since a long is
loaded byte by byte: the interrupt cannot come between them because of `cli()`, and the
mutant of `MillisCurrent` is the one without it. `delay()` polls `micros()`; `gap` bounds
how rarely, and `waited` is the time since it was called, kept only while it matters.

`ImplementsClock` maps the clock to the overflows counted, the one pending and the timer
(`Now`), and the reading to the value that `micros()` will compute from its registers:
fixed when it reads `TCNT0`, whatever the flag does after that.

`TOP` (256), `LONG`, `WORD` and the units are constants, so that every counter wraps within
a few hundred ticks; the assumptions say which relations between them the code needs:
a millisecond is a whole number of `timer0_fract` units, a short's width divides a long's.

### Tone

Timer 2 is the only one in `tone_pin_to_timer_PGM`, so `tone()` for a second pin does
nothing until the first is released. `tonePc` splits `tone()` where it stores what the
interrupt uses: `tone_pins`, the mode of the timer, prescaler, `OCR2A`, the two parts of the
long toggle count, and the enable bit. `Compare` is the interrupt; the `noTone()` it ends a
tone with is part of it. Pitches are real ones, at 16 MHz: `ToneAsAsked` is about the
divisor and the prescaler as computed, which only ever round a pitch up, by less than one
part in 37 (half a semitone). `2 * frequency` is an `unsigned int` and its product with the
duration an `unsigned long` (`UINT`, `PRODUCT_MOD`): where either wraps, a tone is shorter
than asked, never longer. Below 31 Hz no prescaler fits and OCR2A keeps the low byte of the
value: another pitch is played, which no property claims otherwise.

`TonesDoNotMix` is about a tone that plays while the sketch is in a call for another pin:
the owner of the timer, the pin toggled, the registers and the count of toggles left stay as
they are, except that each toggle of the tone's own interrupt takes one of the count and that
the tone ends when none are left.

It has three bounds on the environment. Two compares do not fall between the last
two stores of `tone()` (they are at least 7 us apart at 65535 Hz). When the interrupt finds
no toggles left and the sketch has already released the pin, it calls `noTone(255)`, and
`digitalWrite(255, 0)` (Tone.cpp:480) indexes the pin tables far past their end
(wiring_digital.c:124-143): what it finds there depends on the program's layout in flash, and
the model takes it to change no pin that a sketch uses. And a sketch restarts a
timed tone on the same pin only after it has ended (`Retrigger = FALSE`). With
`Retrigger = TRUE`, the interrupt can end the old tone, and free its pin, after
`toneBegin()` has found the pin in `tone_pins`: the new tone then plays with
`tone_pins[0] = 255`, no `noTone(pin)` stops it, and TLC finds `NoToneStops` violated.

### Servo

`Pulse(d)` is `handle_interrupts()`, `d` ticks from now; `Interrupt` lets it be late by a
member of `Lates` after the match. The sketch's calls come `Quanta` ticks after the last
event and before the next match. `high`, `cut`, `want`, `frame` are history: how long each
pin has been high, which were given up by a `detach()` or an `attach()` elsewhere in the
middle of a pulse, what the pulse in progress was asked to last, and how long the frame has
taken. `min` and `max` are the `int8_t`s of `Servo.h`; `AngleKept` is stated for limits they
can hold (`Fit`), as the code's own "todo min/max check" (Servo.cpp:265) requires. They keep
a limit in steps of 4 us, so a pulse may pass it by 3. `angle` is the angle as `write()`
keeps it, from 0 to 180.

### Pipe, UsbSerial

`Receive` is the USART interrupt, with `RingBuffer_Insert`; the main loop's steps follow
`main()`: a byte from the host if there is room, the count of bytes for the host, the test of
the flush timer, then `RingBuffer_Remove` in two steps, since only the update of the count is
atomic. `hand` is the byte between them. A byte that comes in with the ring full sets
`overrun`, from which on nothing is promised of that direction; the other one must not
suffer. `UpQueue` counts a byte in hand as still in the pipe, in front.

`reads` says that the host has configured the device and reads from it; it comes and goes at
any time (`Usb`). The main loop takes a byte out of the ring first and ignores the result of
`CDC_Device_SendByte()` (Arduino-usbserial.c:114), so while `reads` is FALSE the bytes it
takes are lost: `Pipe` has `taken` for that, and `Get` hands a byte on only while it is TRUE. The pipe
begins where the interrupt inserts: a byte that arrives while `USB_DeviceState` is not
Configured is never inserted (Arduino-usbserial.c:226), which is no step of the model. The
other direction has no such case: `Serial_TxByte()` always delivers, and bytes the host sends
are read only when there is room.

### W5100, Ethernet

The chip keeps TCP by itself, so `W5100` is an environment: hosts dial, send one request per
connection, close and dial again, connections break (at most one, `broken`; the properties
about stale handles are stated until then). A socket's transmit buffer is empty, being
sent, or sent and not acknowledged; what arrives is a flag, since the properties only ask whose
it is and whether it is read. In `Ethernet` a step is one access to the chip, and the chip
and the network move between any two. So a round of `accept()` is up to three reads
(`AcceptListen`, `AcceptClosing`, `AcceptUnread`: Server.cpp reads the status twice and then the size),
a round of `available()` up to three (`FindScan` twice, `FindData`); `begin()` is the read that
finds a closed socket, CLOSE, the flags (`SockClose`, `SockClear`), OPEN, the test for INIT
and LISTEN; `send()` reads the room and the status, gives SEND, and then reads the flags and the
status in turn (`SendRoom` to `SendOk`); `connect()` polls for ESTABLISHED and then for CLOSED. `close()`
and `socket()` have several callers, so `after` says who goes on when a socket is closed.

What is one step although the code does more: the parameters written before a command (mode, port,
address) with the command; data copied to or from the chip's buffers with the SEND or RECV
after it; a size, which `w5100.cpp` reads until two reads agree, is the last of them; and of
`stop()`'s polls only the last, since the others let time pass and nothing else.
`served` is the `Client` that `available()` returned, `servedPeer` the host that was at its
other end then, `client` the sketch's own; `mixed` records a handle through which data went
to or came from a host it should not reach. For `served` that is any host but `servedPeer`, so
`NoCrossTalk` also keeps two clients of the server apart.

Three constants say what the runs assume of sketches and of the host they dial.

* With `HoldsOn = TRUE`, the `accept()` inside `Server::write()` can stop the connection of a
  `Client` that the sketch still holds, and the socket be reused (`NoCrossTalk` fails).
* With `HostCloses = TRUE`, `connect()` can miss ESTABLISHED, find CLOSE_WAIT and poll for
  ever (`EthCallsReturn` fails).
* With `BadAddress = TRUE`, the sketch dials addresses that `connect()` refuses (all zeros, all
  ones, port 0: socket.cpp:65-71) after `socket()` has opened the socket. `Client::connect()` forgets it, in INIT, and
  nothing closes it: after as many refusals as there are sockets the server has none left to
  listen on (`ClientsAnswered` fails), and a `Client` that is held after its connection broke, and whose
  socket was then left so, still counts as `connected()`: a write to it waits for SEND_OK for
  ever (`EthCallsReturn` fails).

The run has all three FALSE; `EthernetClients.cfg` checks the safety properties with `HostCloses`
and `BadAddress` TRUE.

## Runs

| Run | Shows |
|---|---|
| `serial_ring` | `HardwareSerial` implements `SerialPort`, keeps `available()`'s promises, and sets 1200 to 115200 baud within 2.5% at 16 MHz |
| `wire_single` | one master, one slave with a shorter buffer, an absent address, bus errors, replies shorter and longer than requested or refused by the buffer: results are true both ways, the bytes read are the callback's, calls return |
| `wire_masters` | two masters and one slave: arbitration never makes a result false, loses a START, leaves a slave state behind or mixes two messages |
| `wire_lost_write` | *violation*: boards that are each other's masters; `endTransmission()` returns 0 for bytes never sent |
| `sd_clean` | no errors, a card that fills up: sound chains, no lost cluster, contents kept and read back, FAT mirrored, full only when full, sync succeeds |
| `sd_crash` | one failing access anywhere and a loss of power: what was synced stays |
| `sd_wedge` | *violation*: after a full-block write over a dirty cached block no sync succeeds again |
| `sd_retry` | *violation*: repeating a failed write puts data in the wrong cluster |
| `board` | the time base, Tone, Servo and the bridge: `micros()` is a clock, `millis()` and `delay()` keep to it; tones are as asked, end, stop and do not mix; pulses, frames and angles are right; the bridge is two pipes |
| `servo_wrap` | *violation*: a frame that ends just past the refresh interval makes the next wait for a whole turn of the timer |
| `ethernet` | two sockets, a server and an outgoing client: data stays on its own connection, the server throws none away that waits in the chip, wherever a last byte, a FIN or a reset comes; hosts that dial are answered, calls return |
| `ethernet_stale` | *violation*: after a reset `server.available()` returns the sketch's own outgoing connection |

Three more configurations show known consequences of the code, each a violation of the
invariant it names: `HardwareSerialBaud.cfg` (300 baud, which `reference/Serial_Begin.html`
offers, overflows the twelve-bit rate register at 16 MHz: the port runs at about 778 baud),
`SdLeak.cfg` (a first write that fills the card leaves a file of size zero that owns
clusters, and removal does not free them), and `WireSingle.cfg` with `SlowCallback = TRUE`
(`ReadsReply`).

Two configurations beside the runs pass, and take cases that the runs leave out:

* `WireSlave.cfg` (`NoStuckSlave`, `NoLostStart`; 3.6 million states): a master that its rival
  calls as a slave. Node 1 calls node 2 while node 2 calls a device at address 3: the
  addresses differ in the last bit only, so node 2 loses the arbitration to its own address and is a
  slave within its own call (twi.c:394-397), and slave transfers come before and during its
  wait. In `wire_masters` no slave is a master.
* `EthernetClients.cfg` (`NoCrossTalk`, `NothingUnread`; 0.9 million states): two hosts that
  dial, so that a socket passes from one client of the server to the other, a dialled host
  that closes first and addresses that `connect()` refuses. `ethernet` has one client, and what
  it says of `NoCrossTalk` is that the server's hosts and the dialled one stay apart.

### Bounds, and why they are enough

* Serial: a ring of three slots is the smallest with an empty, a full and a partly full state
  that wraps in two ways; two byte values tell a stale character from a fresh one. The proofs
  cover every size.
* Wire: `wire_single` has a master buffer of three bytes and a slave buffer of two, so a
  message may be shorter than, equal to and longer than the slave's buffer; replies are of
  two bytes, or of three, which is refused and leaves one zero byte to send, and requests of
  one and two, so that what is sent is shorter than, equal to and longer than requested. `wire_masters` has three boards and one-byte
  buffers: the masters' bytes differ, so arbitration is decided at the first one, and with a
  common address it is never decided before. `Noise` adds bus errors in `wire_single` only.
* SD: three clusters of one block of two cells, two files, two directory slots, two FAT blocks
  of three entries, two copies. Two files and three clusters are the least in which a chain
  of two and another file compete, the search wraps and the card fills; two FAT blocks make
  the one-block cache switch between them in the middle of one operation. The longest
  modelled call, a write that syncs and runs into a new cluster, makes about 12 accesses: with
  `MaxAccesses = 12` a failure is tried at each, and 16 reaches the same states; `MaxFaults`
  and `MaxCrashes` are 1. In `sd_clean` one call writes at most a cluster: the multi-cluster
  first write on a full card is the subject of `SdLeak.cfg`. `sd_crash` has no truncation or
  removal: both free the chain in the FAT before the directory entry stops pointing at it
  (SdFile.cpp:1081-1102), so a loss of power between the two leaves an entry on free
  clusters, and nothing in the code claims otherwise. After a failed call the sketch of
  `sd_crash` does not go on with the file (`Retries = FALSE`); `sd_retry` shows why.
* Time base: a timer of four ticks, a long of 24 and a word of 12 microseconds' worth, so that
  `micros()`, `millis()` and the 16-bit difference each wrap, at different times; a
  millisecond (5) is not a multiple of an overflow (8), so the fraction matters.
  `MaxLate = 2` is the most the code tolerates: the flag must be served before the timer is
  near its top again. `Delays = {2}`: two milliseconds from any
  start, so that `start` itself wraps.
* Tone: two pins, pitches on both sides of each change of prescaler at 16 MHz, the lowest,
  the highest and the one that is rounded most (30418 Hz); a duration whose product wraps
  (`PRODUCT_MOD = 16000`, 5000 Hz for 2 ms); durations of no toggle (31 Hz for 1 ms) and of four, six and eight,
  and tones that play for ever. The long count has 32 values stored in parts of 4, so a torn store is visible.
* Servo: two servos on two pins, so that one is attached or detached under the other's pulse;
  a refresh interval of 3000 us, which two pulses can exceed as twelve do 20000; interrupts
  on time and two ticks late; three calls after which only the interrupt runs. Widths
  and limits are the real ones.
* Bridge: rings of two bytes and counts of four values; the smallest with an empty, a partly
  full and a full state. The proofs cover every size.
* `board` runs one of the four parts at a time: they share no variable, so running them
  together would only multiply the same states.
* Ethernet: two sockets and one host that is dialled. With two sockets, the listening one is
  lost whenever a connection is served and another is being closed or opened, which is where
  `begin()` has none to take. A second host that dials is in `EthernetClients.cfg`. At
  most one connection breaks per behaviour. A third socket adds nothing that a loop over the
  sockets tells apart; the theorems cover every number.
* Deadlock is checked in every run. The two file names are interchangeable, and the SD runs
  use that symmetry with invariants only.

### Fairness

Always: what the hardware does goes on, and a call that has begun goes on, because the
sketch is the processor's only work besides interrupts. Nothing makes a sketch begin a call
unless listed.

* Wire (`CallsReturn`): weak fairness of the bus, the interrupts and a call in progress taken
  together: some of them moves while one can. With one master that is enough. With two it is
  not, and neither is weak fairness of each: a master can find the bus taken
  every time it is free to start, so `wire_masters` does not promise that each call returns.
* Time base (`DelayReturns`): weak of `Tick` and of a call, strong of `Overflow`: the interrupt
  is disabled again and again by calls that mask it, but it is taken when the mask is lifted,
  before the next instruction but one.
* Tone (`ToneEnds`): weak of `Compare` and of a call in progress. The interrupt is only
  postponed by stores of the sketch that come to an end.
* Bridge (the pipes' `WF(Get)`): weak of the main loop, which never waits, and of the flush
  timer.
* Ethernet: weak of a call in progress and of the chip's own progress, including that hosts
  that dialled close some day (`ClientsAnswered` would otherwise wait for a host that
  occupies the last socket for ever); strong of an answer to a SYN, which hosts repeat; and
  for `ClientsAnswered` only, of the sketch: its `loop()` calls `available()` again and
  again, reads or stops what it got, and is done with it some time (`LetGo`): it stops it, as
  the WebServer example does, or, when it has read what came, goes on to a write to all, as ChatServer
  does, which never stops a client. A sketch that keeps a connection without reading it keeps its
  socket from the server. `EthCallsReturn` needs none of the latter two.

## Proofs

`HardwareSerialProofs` proves, for every `RX_BUFFER_SIZE` from 2 to 256, every set of
bytes with 0 and every list of rates (`SizeAssumption`, `ByteAssumption`,
`BaudAssumption`):

* `InvariantHolds`: `Spec => []Inv`, `Inv` being `TypeOK /\ PromiseKept /\ ReaderInv`;
* `TypeCorrect` and `PromisesKept`, its first two parts.

`PromiseKept` is not inductive. A read stores the tail some steps after its test, so the
proof needs to know that the ring is still not empty, and a flush moves the head back, so
it needs to know that nothing is promised then. `ReaderInv` says both, and which character
the sketch holds. The index arithmetic is in `AdvanceCases` and `CountCases`, which turn the
remainders into cases; the steps are then one lemma per part of `Inv`, with one step per
group of actions.

From the same assumptions it proves `PortImplemented`:
`Spec => ImplementsPort`, the refinement of `SerialPort` under the mapping of
`HardwareSerial`. The abstract receive queue is a stretch of the ring (`Stretch`), so the
lemmas first say what becomes of a stretch: `StretchRead` when its tail advances,
`StretchAppend` when its head does, `StretchFull` when the head may not. Then each action is
one step of the port or none (`InitPort`, `SilentSteps`, `ArriveStep`, `ReadStep`,
`LookStep`, `FlushStep`, `WriteStep`, `TransmitStep`). The invariant is needed where an
access relies on an earlier test: a read on the ring being not empty still, an arrival on its
slot not being the one that a read, its tail already stored, is about to load.

`RatesAccurate` proves `BaudAccurate` for every clock and list of rates that are `Settable`:
at most a 160th of the clock, so that rounding the divisor to an even one stays in 2.5%, and
more than a 32768th of it, so that it fits twelve bits (`Rounded`); at 16 MHz from 489 to
100000 baud. 57600, which `begin()` treats apart, and 115200 are `Settable` at 16 MHz by
computation. 300, the rate of `HardwareSerialBaud.cfg`, is not.

`Remainders` proves what the solvers do not know of `%`: uniqueness of the remainder, that
multiples drop out, that a remainder may be taken before a sum.

`WireProofs` proves every safety property of `Wire`, for every set of masters, slaves and
devices, every address, buffer length, message and reply (`NodeAssumption` to
`SketchAssumption`). The invariant has three layers, each the hypothesis of the next, and each
was first checked by TLC in the configurations of the runs:

* `MastersInv`: types, no buffer past its length, and for a master call at each of its stages
  what it has on the bus (`Starting`, `Addressing`, `Writing`, `Reading`, `Losing`, `Over`) and
  that `twi_error` agrees with what the bus acknowledged. It gives `SuccessesSent`,
  `FailuresNotSent` and `StartsKept`. It needs `Apart`: no board is both master and slave.
  `wire_lost_write` shows that without it `SuccessMeansSent` fails.
* `SlavesInv`: when a slave is addressed, which statuses it may then see, and what its
  transmit buffer holds. It gives `RepliesRead` and `TypeCorrect` (the step of a slave index
  past its buffer is excluded by the order of the statuses). It also needs `~SlowCallback`, the
  bound on callbacks that the runs have; `WireSingle.cfg` with `SlowCallback = TRUE` shows that
  replies can be stale otherwise.
* `WholeInv`: what the addressed slave holds is what each of its masters has sent so far, so
  masters still arbitrating have sent the same. It gives `MessagesArriveWhole` and
  `SlavesReturn`. It also needs `Roomy`: no master's buffer is longer than a slave's, and in
  the source all have `TWI_BUFFER_LENGTH`, 32 bytes. Without it a slave that refused a byte stays in
  TWI_SRX (twi.c:425-428).

A step of one node is proved in three parts: types, its own part of the invariant, and that it
leaves the other nodes alone but for the STOP their slave is told of (`Steps`, `Elsewhere`);
the bus moves several nodes in one step, so `Address`, `WriteByte` and the rest are proved
for all nodes together.

`BoardProofs` proves of the time base `MicrosIsAClock`: `TimeSpec => ImplementsClock`, for every width,
speed and `MaxLate <= TOP - 2`. The invariant `ClockInv` says that a pending flag is recent
(`TOV0 => TCNT0 <= MaxLate`), that a masked call's count is still the count, and that the
timer value it read is at most a tick old. With it, a tick advances the mapped time by
one tick, also where the timer wraps (`TickAdvances`), the interrupt moves the overflow from
the flag to the count without changing the time, also where the count wraps
(`OverflowStutters`), and the read of `TCNT0` is the abstract `Read` (`ReadTimerReads`). The
last needs `t < 255` in the code to be exactly where a flag seen later is not this read's.

From the same assumptions, `MillisIsCurrent`: milliseconds and their fraction are the
overflows counted, but for whole turns of a long (`Counting`), each interrupt adding one
overflow to both sides also where it carries the fraction. What `millis()` lags behind is then
the timer, the pending flag and the fraction. And `DelaysExact`, from two hypotheses on how
`delay()` is run: it polls at least once a millisecond, and its 16 bits hold a millisecond
and the time between two polls (at 16 MHz: 1 ms and 65 ms). While a delay lasts, the
true time since its start is the milliseconds counted and a rest (`Lasting`): `start` is the
time of the last millisecond counted, modulo 16 bits, so the difference `delay()` computes is
the rest, and the rest never comes near a turn of it. `Fresh` says how old the time that
`micros()` is about to return may be. `Board.cfg` satisfies both hypotheses.

Of Tone it proves `TonesTyped`, and from `Retrigger = FALSE` `NoToneSilences` and
`TonesApart`, for every set of pins and tones. `ToneInv` relates the owner of the timer to the place of the call: while
the sketch is past `toneBegin()` its pin has the timer, a timer that is on belongs to
`tone_pins[0]`, and an endless tone is never ended by the interrupt, which is what keeps a
pin from being freed under a call that has already found it. `TonesAsAsked` assumes besides
that some prescaler reaches each pitch (`Audible`). Its invariant (`PlayInv`) says at each
store of `tone()` which registers are already set for the new tone, that otherwise the timer
plays `playing`, and which pins may be high. That the pitch is within one part in 37 is
`PrescalerFits`: each prescaler is at most 8 times the one before, so the quotient that is
the first to fit is at least 32, unless the timer counts every tick of the clock. That the toggles left never exceed the
duration's holds with the count stored in two parts since the interrupt, which may
decrement in between, leaves a count that is negative until the second one.

Of Servo it proves, for every number of servos, set of pins, limits, widths and angles
(`ServoAssumption`, `PulseAssumption`):

* `ServosTyped`, with the width of every pulse (`Kept`): whatever an `int8_t` makes of
  the limits, a pulse is of 68 to 5820 ticks, so no 16-bit sum of the code is ambiguous;
* `PulsesExact`: a pin that is high, unless a call gave it up, is that of the servo being
  pulsed, and the match is as far ahead as the pulse has still to last (`Pulsing`). A call in
  the middle of a frame must not disturb that, which is what `isTimerActive()` is for. An
  interrupt may be late by less than the rest of the timer's turn, 29 ms;
* `FramesKept`: the timer is reset at the start of a frame, so it tells the frame's age
  as long as all pulses and delays fit one turn of it (`Framed`). That is the hypothesis, in
  terms of the widest limits `T` and the latest interrupt `L`; with the default limits it holds
  for the 12 servos of a timer and delays up to 0.3 ms;
* `AnglesKept`: `RoundTrip` is the arithmetic of `map()` both ways: a width is rounded down
  by less than a microsecond, which is less than a degree, and `read()` adds one back.

And of the board, which `EXTENDS` all four parts (`MCBoard`): `BoardRunsEach`, that it
implements the safety specification of each, so that what is proved of a part alone holds of
it on the board too, and `BoardTyped`. A step of the board is one of one part (`TimeApart` to
`BridgeApart`) and a stutter of the others.

`UsbSerialProofs` proves `BridgeTypes` and `PipesKept`, for every ring size below the width of
the count. A pipe is a stretch of its ring (`Bytes`); `BytesInsert` and `BytesTake` say what
inserting and removing do to it, `BridgeInv` that indices and count agree until an overrun
except for the byte in hand, and that `main()` never counts out more bytes than there are,
which an overrun would break. A byte that leaves while the host does not read is lost, and nothing else is. `PipesKept` is the safety part of `ImplementsPipes`.

`EthernetProofs` proves `TypeCorrect` and `ConnectionsApart` (from `HoldsOn = FALSE`), for every
number of sockets and set of clients. `NoCrossTalk` is not inductive: the proof needs that
the sockets marked in `_server_port` never carry the sketch's own connection, that the
sketch's never carries a client, and that the handle of `available()` is still marked and has
at its other end, while it is open, the host it was returned for
(`CrossInv`), all until a connection breaks by itself, after which the code keeps none of it.
`BytesKept` (`EthSpec => NothingUnread`, whatever `HoldsOn`) is about the reads of
`accept()`, between any two of which a byte or a FIN may come, and the commands of the `stop()` that
follows. Its invariant (`NothingWaits`) says that a byte waits only on a connection, that a
connection that is ending is the one in hand, that one which `accept()` has found in
CLOSE_WAIT is still there when it reads the size, whatever came before that, and that
one found empty after that gets no more. With the two reads the other way round
(`AcceptScanMutant`), a byte and a FIN between them are thrown away, as TLC shows.

`SdProofs` proves `SdTyped`, `SdChained`, `SdHolds`, `SdReads`, `SdMirrored` and `SdFull`, the
invariants `TypeOK`, `ChainsSound`, `ContentsKept`, `ReadsRight`, `MirrorAgrees` and
`FullMeansFull`, for every geometry (`GeometryAssumption` and `EOCAssumption`: an end of chain is no
cluster's number), every set of names and modes of opening, every position and every length of
write, read and truncation, and one or two copies of the FAT. The hypothesis is `Clean`, which is what
`SdClean.cfg` runs: no access fails, the power stays, and the sketch gives up a file once
a call on it has failed (a full card, a position past the end). `sd_retry` shows that the
last part is needed: after a failed write the file's cluster and position disagree.

None of the properties is inductive, since none says what the FAT is for. The invariant
`SdInv` is that there *is* a ghost (`Ghost`): for each name a sequence of clusters, a number of
them and a size, such that the state is `Settled` on it. That means:

* the clusters of two places of the ghost differ (`Disjoint`); in the FAT, each entry of a
  chain is the next cluster and the last one an end of chain (`Linked`); the cells on those
  clusters up to the size are the file's (`Held`);
* each entry of the directory is the first cluster and the size of its name, and names without an
  entry have no cluster; for the open file, whose entry may be old, the record in memory is
  (`Listed`, `Opened`);
* all this of the *view*: a block is what the cache holds of it or else what is on the
  card (`ViewOf`), and the cache never holds a block of the second FAT (`Known`), so that one
  loaded and one flushed in the middle of a call change nothing (`RawBlock`, `Flush`);
* the open file's cluster is that of the cell before its position, none at the start of the file
  (`At`); after a failed call it is any cluster, or none (`Astray`).

Five of the six properties are then facts about a ghost (`InvTypes` to `InvContents`), the last
about the answer of the call that has just ended (`EndsWell`). `InvChains` shows that the
recursive function of the property walks the ghost's chain and no further.

`SdCallProofs` has one lemma, or a few, per function of the code, in the order of its calls: `Flush`,
`RawBlock`, `FatGet`, `FatPut`, the search for a free cluster, `freeChain()`, the walk of
`seekSet()`, `sync()`, `Truncated`, `OpenDone`, the removal, `ClusterAdded`, `WrittenPart`, `WriteDone`,
and reading. Each takes a sound state of one ghost to a sound state of another that differs as the call
means it to: `Longer` by a cluster, `Shorter`, `Sized`. Where the code passes through states
that are not sound, as `addCluster()` does before the new cluster is the file's and `truncate()`
while it frees the chain, a lemma spans them. Loops are recursive functions of the
model; `Turns` says that one has the states it goes through, and a fact about each of them
follows by `Induct`. This is induction over data, without an induction theorem that takes an
operator: a set of counterexamples would have a least element, and the ordering of `Nat` is
well-founded (`NatLessThanWellFounded`, `WFMin`).

What could not be proved, for good reason:

* `NoLostClusters` is not an invariant of `Clean` for all constants. A first write of more than one
  cluster on a full card fails with clusters linked and the size still zero; once closed, the
  file has a first cluster and no size, and removing it frees nothing (SdFile.cpp:1055,
  `SdLeak.cfg`). It holds within the bounds of `SdClean.cfg`, where a write is at most a cluster.
* `SyncSucceeds` is not one either: a whole block written over a dirty cached one wedges
  the cache (`sd_wedge`). The modes of `SdClean.cfg` keep clear of that.
  The proofs therefore say of each call what it does while the cache is live (`Live`), and that
  it fails with nothing changed when it is not (`Refused`).

Only model-checked: `NoLostClusters` and `SyncSucceeds` in the bounds of `sd_clean`, for the
reasons above; `Durable`, and `ChainsSound` when an access may fail or the power be lost
(`sd_crash`). Out of the prover's reach: liveness (`CallsReturn`, `DelayReturns`, `ToneEnds`,
the fairness of the pipes, `ClientsAnswered`, `EthCallsReturn`).

## Not modelled

* arduiNode's mesh (`mac`, `routing`, `transport`): its protothreads block the one thread of a
  node, so a model needs whole nodes with time, a shared radio medium and a table of
  neighbours each. `PROJECT.json` lists the hazards that reading it showed.
* Boot loaders, Firmata, CmdMessenger, SerialCommand: command loops that handle one byte at a
  time with interrupts off or unused.
* SoftwareSerial, `delayMicroseconds`, `pulseIn`, displays and LED drivers: their behaviour is
  the timing of instructions.
* Print, WString, WMath, Stepper, EEPROM, SPI, CapacitiveSense, digital and analog I/O, the
  sketches: sequential code with little or no state.
* UDP, and the chip's buffer pointers, in Ethernet; the parts of Wire and SD named in their
  sections.
* The AVR toolchain under `hardware/tools`, whose device headers are most of the C files of
  the repository (well over four fifths of the lines), the vendored LUFA and the IDE's Java
  archives: not this project's logic.
