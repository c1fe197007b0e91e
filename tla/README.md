# Verification of Nucleo_RemoteUpdate

The program runs on an STM32F411 board with a cellular modem. It dials in,
registers with a CoAP server, and when the server commands an update it
downloads a firmware image block by block into a serial flash, burns the image
over a UART into the user's board beside it, and records the new version in an
EEPROM. Four things make that hard to get right by testing: three threads and
the callbacks of lwIP share variables without locks, every exchange can be lost,
the power can fail between any two steps, and the promise spans all of it: the
board must never start an image that is not whole.

This directory holds TLA+ modules of the core of that program, TLC
configurations that check them on small instances, and TLAPS proofs for every
value of the constants. Paths below are relative to `src/`.

## 1. Inventory

| Component | State | Operations | Hard because of |
|---|---|---|---|
| Update step machine (`USER/remoteupdate.cpp`, thread `pppSurfing`) | `step`, `updateCommandFlag`, `updateinfo` | status report, update query, download, hand-over, version record | flags shared with the sender; retries; dead ends |
| Image download (`deviceGetSaveUpdatefile`, `flash25spi`) | two flash slots with a flag each, block number, `nextCoapBlock`, retry counters | claim a slot, erase its brother, store blocks | retries change slots; power cuts; slot size |
| Board identity (`read_eeprom`, `write_eeprom`, `updateUserVersionNo`) | EEPROM, `header` | read at power-up, fall back to defaults, record a version | unterminated 8-character texts; failed reads |
| Firmware sender (`userFirmwareSend`) | place in its loop, the slot it reads, `userFirmwareSendCompleteFlag` | take a message, pick a slot, send, start | reads what the updater writes |
| UART protocol (`USER/userfirmwarepro.cpp`) | packet position `a`, key `mask`, held-back bytes `tbuf`, retries | send a packet, check the answer, start | lost and late answers, a key that is never reset |
| Dialing (`pppDialing`, `PPPIPInterface`) | `m_pppd`, error code, binary semaphore, two flags, queue `redial` | dial, redial, link status callback | callback of another thread, a queue of one place |
| Modem initialisation (`HuaweiUSBCDMAModem`, `WANDongle`) | `m_dongleConnected`, `m_atOpen`, registration status | find the dongle, reset the link, register in the network | loops without limit, flags that go stale |
| AT commands (`ATCommandsInterface`, `atInstRead` and `atInstWrite` of `WANDongleSerialPort`) | transaction state, input buffer with fill pointer, last result | one command, its echo and answer lines | transfers cut lines, answers left over, results of an earlier command |
| CoAP (`cantcoap`) | the packet, count and greatest number of options | add options, set payload, validate, read options | delta encoding, lengths at boundaries, packets cut short |
| Registration and socket (`deviceRegister`, `connectToSocketUDP`, the four request functions) | the UDP socket's queue, try counters | request and reply | replies that are late, lost or repeated; nothing compares message ids |
| Flash driver (`flash25spi`) | size and block size, the chip's status register | write, clear a block, wait | pages that wrap, power cuts, a wait on the wrong bits |
| USB stream (`USBSerialStream`, `MtxCircBuffer`) | circular buffers, packet locks | read, write, interrupt handlers | not used by this program, see "Not modelled" |

The components meet in few places: `pppDialingSuccessFlag` starts the updater;
`queue` (one message) and `userFirmwareSendCompleteFlag` join the updater and the
sender; the flash and `updateinfo` are written by the updater and read by the
sender; `redial` (one message) and the semaphore in `PPPIPInterface` join the
dialer and lwIP's thread. The dialer brings up the modem first (AT commands), then PPP; the
updater's requests are CoAP packets over one UDP socket.

What makes them correct, component by component: the updater and the sender never
touch a slot or `updateinfo` at the same time; exactly one slot holds the image;
blocks go only to erased flash; what is handed over is whole; a version is recorded
exactly for an image whose start was acknowledged; a started board holds a
whole, decoded image; a lost link is always redialed; a block is stored at its own
place unless a reply outlives its request; the modem is taken for registered only when it said so;
a receiver reads the CoAP options that were sent; a flash operation changes what it was asked to change and
nothing else.

Third-party and vendored code (`mbed/`, `rtos/`, `lwip/`, `USBHost/`, `http/`,
`MbedJSONValue/`) is not modelled, but for the three places where lwIP's PPP calls
back into the program, the depth of an RTX queue, and the datagrams queued in a UDP socket.

`PROJECT.json` lists the hazards with the source line where each one bites, and the
properties that cover them, with a note where the cover is partial or missing.

## 2. Modules

| Module | What it is |
|---|---|
| `UpdateCycle` | abstract specification: hand over, start, record |
| `FirmwareUpdate` | updater, sender, slots, EEPROM, power cuts; implements `UpdateCycle` |
| `FirmwareUpdateMC` | constants of `FirmwareUpdate` for TLC |
| `FirmwareSend` | packets of one image after the other, `CheckCode`, the running key, the board |
| `Dialer` | `pppDialing`, `PPPIPInterface::connect` and `linkStatusCb` |
| `SocketExchange` | the request functions of `remoteupdate.cpp` over one UDP socket; replies lost, repeated, late |
| `SocketExchangeMC` | image sizes of `SocketExchange` for TLC |
| `AtCommand` | `ATCommandsInterface`: one command, its transfers, the line parser |
| `HuaweiModem` | `HuaweiUSBCDMAModem::connect` and `init`, extends `AtCommand` |
| `CoapPdu` | options and payload of a CoAP packet, byte by byte, and its receiver |
| `FlashPages` | `flash25spi`: pages, erases, the wait, the chip |
| `FirmwareUpdate_proofs` | types, the handshake, the slot in hand; refinement of `UpdateCycle`, EEPROM and its copy |
| `FirmwareUpdateFlash_proofs` | slots, cells, lengths |
| `FirmwareSend_proofs`, `Dialer_proofs`, `SocketExchange_proofs`, `FlashPages_proofs` | these components |
| `HuaweiModem_proofs` | `HuaweiModem` with `AtCommand`: the registration, the fill pointer, a command's own answer |
| `CoapPdu_proofs` | types, the order of the options, what a receiver reads of a whole or cut packet |

### FirmwareUpdate

`step` is `DeviceUpdateStep` (`idle` is `DEVICE_UPDATE_IDELING`, and so on) with
`boot` and `register` before it and `gone` for a thread that has returned. `dl` is the
place inside `deviceGetSaveUpdatefile`; `spc` the place inside `userFirmwareSend`.
Each iteration of the block loop is one action per exit: `ReceiveBlock`,
`ReceiveTimeout`, `ServerNotReady`, `RequestFails`. The report that precedes every
eighth block is part of each (`LoopReport`). Erasing takes one step per erase block,
so that a power cut can fall between two.

The flash is abstracted to cells of one CoAP block (1024 bytes). A slot has the
cells `0..LastCell`; since the data begin 4 bytes behind the slot's start, the last
4 bytes of cell `LastCell` lie in the next slot, and storing it overwrites the flag
there. The code's eight `clearBlock` calls with 32 Kbytes between them erase whatever
block of the chip holds the address (`addr &= ~(_blockSize-1)`); `Sectors` counts the
different ones, since to erase a block again at once changes nothing. A program
operation can only clear bits, so a cell must be erased before it is written.

An update is a member of `Versions`. `Short` and `Exact` say whether its version text is
shorter than 8 characters or exactly 8: `updateinfo.newVersionNo` has 8 bytes, so an
8-character text runs on into `fileNames[0]`, and `updateUserVersionNo` finds it too
long to copy. `LabelOf` is the text that reaches the EEPROM. A text that is longer is
not copied into `updateinfo` and would be recorded as an empty one; it is in neither
set and recorded as `Blank`. `Exact` takes the file name to be not empty.

Request functions that fail without an effect (a report without an answer, a query
that gets no answer, a scan of slots in a chip that does not answer) lead only to
their caller's retry: the step stays where it was, which is stuttering. Their retry
counters (`tryNum = 5` in `startRemoteUpdate`) decide nothing, because the step machine
comes back to the same step; `tryNum1` and `tryNum2` of the download do, and are modelled.

`PickSlot` may find no readable slot at any time: the driver answers `false` when its
constructor has not recognised the chip.

History variables: `holds` (the update a slot was claimed for), `installed`,
`refused`, `torn` (a power cut fell into a slot change).

Assumed: the EEPROM was initialised once (`Init` starts with `Factory` in it); a reply
answers the request in hand (`SocketExchange` shows what else may happen); the server sets the more bit for all blocks but the last;
images fit `LastCell + 1` blocks (`UpdateAssumption`), so that no write is refused for its
address; the acknowledge polling of the EEPROM and `waitForWrite` of the flash end; a power
cut falls between two operations of the chips, not inside one (`FlashPages` shows what a cut inside one does: it tears
one page or one block).

### FirmwareSend

A file fills the packets `0..Last` of 512 bytes, `Last = fileLength \div 512`. The loop
of `userFirmwareSend` makes `Last + 2` turns: one for each packet and one for the four
bytes that `sendUserFirmware` holds back from packet 0 (bytes 4 to 7, the reset vector).
`a` counts the packets acknowledged (`a \div 512` in the code). A packet in memory is the
block it was read from and whether it was decoded with its own key; `mask` is the block
whose last word it holds. The XOR chain inside a packet is undone by the receiver and is
left out. `seal` is the block whose four bytes are in place in the board: a
board with no seal cannot start.

The boot loader of the user's board is external. It is taken to store a packet that
reaches it whole, and to answer a write with a status in the byte that
`sendUserFirmware` looks at (`buf[7]`). A packet or an answer may be lost in any round, the board may report
an error with or without having stored, and an answer may outlive its
500 ms window and be taken for the answer to a later packet (`StrayAnswer`): answers carry no number. Then a packet may be
credited that the board does not hold, and the code cannot notice; `missed` (history) keeps the place of each such packet, and
`SealedMeansWhole` excepts these places and no others (`Excused`; in the first packet of a later image such a hole keeps the old
image startable while the new one is stored over it). `ReadFails` skips a packet at any
time, which is more than the driver does: it refuses only addresses beyond the chip.

The length that the loop reads is taken to be that of the file. After a retried download
`fileLength` is larger (`LengthCoversImage` bounds it from below): then the loop sends
more packets than the file has, and the theorem speaks of the longer file, whose first packets
are the image.

### Dialer

`dpc` follows `pppDialing` into `PPPIPInterface::connect`, with a step between any two
reads of `m_pppErrCode`; `cb` follows `linkStatusCb`, with `redial.put`, the store of the
error code and the release of the semaphore as steps of their own. `link` is lwIP's
only PPP unit (`NUM_PPP` is 1), freed only after the callback of `pppLinkTerminated` has
returned. The AT dialogue with the modem either succeeds or fails; `HuaweiModem` shows how.

### SocketExchange

`step` and `call` follow `startRemoteUpdate` into `deviceRegister`, `deviceStatusReport`, `deviceGetUpdateinfo` and
`deviceGetSaveUpdatefile`; `pc` is the place inside the function: at the top of the download loop, before `send`, or in `recvfrom`.
A report made within a download (`call = "report"`) returns into it. `replies` is what the network holds and the socket has queued, the
oldest first; `Take` is `recvfrom`, which takes that one. The request functions tell replies apart by what they
look at only: success, command, type, and in a download whether the payload is a block. The server answers each
request once; the network keeps the order and may lose an answer, repeat it or deliver it after the 5 seconds of
`SO_RCVTIMEO` (`NothingTaken` with `answered` true). `stray` counts the replies that have outlived their request, `lost` the lost ones.

What a parked update (type 0), a full flash and the sender do is left to `FirmwareUpdate`; a download here always starts in an empty slot
(`cells`). A datagram larger than the buffer is cut by lwIP, so that `ret > BUFLEN` is never true; the calls of `continue` behind
those tests are unreachable. A reply that `validate` refuses ends the function as `SendFails` does. `secs` counts the least time that registration
takes: 5 s for a receive timeout, 3 s behind a refusal, 1 s between tries.

### AtCommand and HuaweiModem

The wire is one sequence of characters: CR, LF, and two for each text, so that a transfer can cut one. Each character knows its place in the echo (1 to 3)
or the line (4 to 9) it belongs to; a transfer takes any number of characters up to the endpoint's size, and one that ends elsewhere than behind an echo or a line is a cut. `at` is the place in
`executeInternal`. Each case of the loop in `preProcessReadLine` is an action: `StartOfLine`, `LoneCR`, `EchoLine`, `LoneLF`, `NoStart` while
no line is detected, `EndOfLine`, `BrokenLine`, `NoEnd` while one is. `m_inputBuf` is the data in the buffer, `m_inputPos` the fill pointer, which
the code keeps apart from it: each read starts at the front of a cleared buffer, but the pointer is added to. `lineDetected` is a static variable and outlives
a command. `ProcessReadLine` keeps what the code does with any line behind the echo: the transaction ends, as a success unless the line is a
refusal. So `OK` behind `+CREG:` stays on the wire for the next command. `own` is history: the result was set by an answer to the command in hand.

`HuaweiModem` is `connect` with `init`: the wait for the dongle, up to seven ATZ, AT+CREG? until the status is known, AT+CGDCONT, and PPP.
`m_dongleConnected` and `m_atOpen` are never cleared. The modem (external) echoes and answers each command in order; it
packs whole lines into transfers as it likes. Lines nobody asked for come between commands. Faults are such lines and
transfers without a character (`noise`; both cost a read), transfers that end within
a line (`splits`), reads that fail although an answer comes later (`late`), commands refused and writes that fail with the dongle there (`errors`); `MaxFaults` bounds their number. `Unplug` pulls the dongle
out; it is not plugged in again, since nothing in this program would notice.

### CoapPdu

`pdu` holds the bytes behind the token. `AddOption` is `CoapPDU::addOption` with both its ways, at the end and before another option, whose delta is
rebased; only the first way counts the option (`OptionCount` below). `AddOptionFails` is an allocation that fails in it. `Walk` is the loop that `validate`, `getOptions` and `findInsertionPosition` have in common. `Receive` is the
other end: a packet arrives whole or cut at any byte, is validated, and its options, its payload and the more bit of Block2 are read. Values are bytes with a chosen last byte, lengths come from every class of
the encoding (below 13; 13 to 268) and deltas from all three.

Deltas and lengths of 269 and above are written low byte first on this little-endian processor (`htons`, then the upper byte of the
result first) and read back in the same way, so that both ends of this program agree; it never uses such numbers. The comment of
`getOptionsBlock2Next` ("return 0 is no the last packet, 1 is the last packet", `cantcoap/cantcoap.cpp:824`) has it the wrong way round: the
function returns 1 when more blocks follow, and its caller takes it so; `MoreIsWhatWasSent` says what the function and its caller do. Not modelled, because the program does not do it: options
added behind a payload, a second payload, a token set behind options.

### FlashPages

`write` is taken apart into pages, and each page and each erase into enabling, sending and waiting; a write of no bytes returns at once. `job` is what the chip is at. External:
the chip ignores commands when it is busy or not enabled, wraps within a page, clears bits only, and is left with unknown contents where the power fails.
`protected` is a protection bit in the status register: `waitForWrite` compares the whole register with 0. `before` is history: the contents when the
operation began. `ChipBlock` is what the chip erases at once: the W25Q64's command 0xd8 erases 64 Kbytes where
the driver's table says 32, which is harmless as slots are a multiple of both; the assumption says that the driver's blocks lie within
the chip's. `BlockSize` is a power of two in the code, where `&` takes the place of `%`.

## 3. Runs

| Run | Bounds | States | Shows |
|---|---|---|---|
| `FirmwareUpdate` | two versions (two blocks, short text; one block, 8 characters), slots of 3 cells in 2 erase blocks, `Tries` = 1, 3 faults, 2 power cuts | 113400 | all safety properties of the update, `UpdateCycleSpec`, `HandoverEnds`, `CommandIsHandedOver` |
| `DownloadIsOver` | the same without power cuts | | expected violation, see below |
| `FullSizeImage` | one image that fills its slot, no faults | | expected violation, see below |
| `FirmwareSend` | 3 packets, 3 rounds, 3 images, one late answer under way at a time | 3951548 | a startable image is whole but for wrongly credited packets, decoded, in order |
| `Dialer` | none: the state space is finite | 713 | all properties of `Dialer` |
| `SocketExchange` | images of 2 and 3 blocks, a report every 2 blocks, 2 tries, 1 retry, 1 lost and 2 stray replies | 702994 | order of blocks, backlog of the socket, every call returns |
| `RegisterTimeout` | 5 tries, 12 retries, the code's waiting times, 3 lost replies | | expected violation, see below |
| `HuaweiModem` | buffer of 48, transfers of 16, 5 reads, 2 resets, 2 faults | 194410 | a command's result is its own, registration is never misread, `ConnectEnds` |
| `FillPointer` | the same with 1 fault | | expected violation, see below |
| `CoapPdu` | 3 options out of 4 numbers, 3 lengths and 2 last bytes, one payload, 1 failed allocation | 1020603 | options in order, what a receiver reads |
| `OptionCount` | 2 options out of 2 numbers, one length, no failure | | expected violation, see below |
| `FlashPages` | 12 addresses, pages and blocks of 3, a chip block of 6, 2 operations, 1 power cut | 337384 | writes and erases are exact, what a cut tears, operations end |

The properties by run, besides each module's `TypeOK` (the comment over each states it in full):

* `FirmwareUpdate`: `SenderOwnsSlot`, `OneValidSlot`, `StoresInErasedCells`, `AllOrNothing`, `LengthCoversImage`, `HeaderDiffersOnlyIfBlanked`, `SomeSlotFree`, `SentImageStable`, `UpdateCycleSpec`, `HandoverEnds`, `CommandIsHandedOver`
* `DownloadIsOver`: `DownloadIsOver`
* `FullSizeImage`: `ImageStaysInItsSlot`
* `FirmwareSend`: `SealedMeansWhole`, `SealedMeansDecoded`, `SealedMeansAligned`
* `Dialer`: `NoLostRedial`, `BlockedDialerHasEvent`, `OnlineMeansUp`, `RedialReconnects`
* `SocketExchange`: `BacklogIsStray`, `FreshImage`, `ShiftBounded`, `CallsEnd`
* `RegisterTimeout`: `RegisteredWithin120s`
* `HuaweiModem`: `AnswerIsOwn`, `OpenIsRegistered`, `FillPointerWhole`, `ConnectEnds`
* `FillPointer`: `FillPointer`
* `CoapPdu`: `OptionsInOrder`, `ReceiverReadsWhatWasSent`, `MoreIsWhatWasSent`
* `OptionCount`: `CountIsOfOptions`
* `FlashPages`: `DoneAsAsked`, `CutTearsOneUnit`, `OperationsEnd`

Why the bounds are enough. Two slots and two images give every order in which
slots change, with downloads without end (only faults and power cuts are counted).
Two erase blocks allow a power cut between the one with the flag and the other. Three cells
leave one that no image of the run reaches, and two blocks make a first, a last and a
timeout between them. `Tries` = 1 and three faults exhaust both counters and still
fail again in the next attempt; two power cuts tear a slot change and then hit its
repair. Three packets are the first, which is special, a last, and one between; a second
image shows what the key carries over, a third what is left of an image whose end never came; an answer
that is late may stay so over any number of packets and images, and another can follow it. The proofs show that the safety properties do not depend on
these numbers.

`SocketExchange`: two stray replies can shift a block twice, or leave one for the next function; a lost reply makes a retry without a
stray one; reports fall both at the start and within the image of 3 blocks; the loops of 2 tries are exhausted and left early. `HuaweiModem`: five reads are the
code's, and two faults combine (a line nobody asked for behind an `OK` left over is the most that `AnswerIsOwn` has to get past). Buffer and transfers are a quarter of the code's 192 and 64
characters. `TypeOK` bounds the fill pointer as long as no transfer was cut, whatever the number of faults. Behind cut transfers nothing in the code bounds its drift: with
more of them than the two of this run it leaves the buffer, and `m_inputBuf[m_inputPos] = 0` (`CellularModem/at/ATCommandsInterface.cpp:212`) writes outside; what then happens is undefined and not represented, so
that what the other properties say of cut transfers is said for pointers inside the buffer. Only the reset of a full buffer in `CheckLoop` is
not reached. `CoapPdu`: 11 and 23 are the options of this program, 281 and 292 make deltas with one and two more bytes and, when put in the
middle, deltas that shrink from two bytes to one to none; 13 makes a length with another byte. `FlashPages`: writes of every length from every address cross up to
four page boundaries, and a second operation finds what the first one, or a cut in it, left behind.

`CHECK_DEADLOCK FALSE` is set because threads really stop: `startRemoteUpdate` returns
without a socket, type 0 parks the step machine, the sender returns without a readable slot, a first
dial that fails is not tried again, `MaxImages` ends `FirmwareSend`; a CoAP packet is received once; the operations of `FlashPages` are counted and a protected
chip is waited for without end. `SocketExchange` and `HuaweiModem` never stop, and TLC checks that.

Fairness. `FirmwareUpdate`: the threads have equal priority and share the processor
round robin, so each action of a thread that stays possible happens. Beyond that the
world must answer: the server names an update for the user's board (`GetUpdateinfo(v, 1)`) and serves blocks, the
flash chip answers, the board answers the version request. Nothing is assumed of the start: the board may refuse
it. No fairness is needed of the faults, which are bounded. `Dialer`: the same
of its threads; the modem connects infinitely often if asked infinitely often, and the network
brings the link up again if it is opened again and again (strong fairness); a
link that is lost is negotiated anew or terminated, and a link that is opening comes up or is terminated. `SocketExchange`: only the thread itself; `recvfrom` returns after its timeout, which the code sets. Nothing is asked of the server or
the network. `HuaweiModem`: the dialing thread; a transfer ends because its retries are counted; a dongle that is awaited is
enumerated; the network registers or denies the modem at last. `FlashPages`: the thread that writes, and the chip, which ends what it is at.

### Findings

* `DownloadIsOver` (`USER/remoteupdate.cpp:442`). If the first block request times out, `continue`
  jumps to `while (nextCoapBlock)` with `nextCoapBlock` still 0. The retries of `tryNum1` never
  happen, the function returns 0, and the sender is told of an image of which no block was stored,
  though its comment says "download is over". With `fileLength` 0 the sender's loop still makes two turns: it
  sends one packet of erased flash and then the four bytes that make it startable. `AllOrNothing` shows that this is the only way to hand over
  less than the image.
* `FullSizeImage` (`USER/remoteupdate.cpp:494`). The buffer of a slot is documented as 256 Kbytes, but
  behind the flag 4 bytes fewer are left. The end of a full-size image overwrites the flag of slot 1 with
  data; after that slot 1 is never free again, and the next update finds no slot.

* `RegisterTimeout` (`USER/remoteupdate.cpp:628`). The comment promises "until register success or timeout 120s". The loop makes 121 calls,
  each with at least a second behind it and each lasting 5 seconds without an answer or up to 15 with refusals: 726 seconds against a silent server, 1936 against
  one that refuses. The run scales 120 to 12.
* `FillPointer` (`CellularModem/at/ATCommandsInterface.cpp:211`). `m_inputPos` is documented as the fill pointer of the buffer. The buffer
  is cleared before each transfer, the pointer is not: after a transfer that ends within a line it stays ahead of the data, and the line is
  lost. `FillPointerWhole` shows that this is the only cause; `OpenIsRegistered` shows what it cannot affect.
* `OptionCount` (`cantcoap/cantcoap.cpp:1032`). The comment of `getNumOptions` (819) says "Return the number of options that the PDU has". `addOption` counts an option
  that goes to the end of the message (952) and returns from the path that puts one before another without counting it: after Block2 and then Uri-Path there are two options
  in the message and one in the count, and `getOptions` of that object would leave the last one out. A receiver is not concerned, since `validate` counts for itself; the
  program adds its options in ascending order.

Documented by the properties without a run of their own: `CommandIsHandedOver` and `SomeSlotFree` except torn slot changes,
because a power cut between marking a slot and erasing its brother leaves two valid slots and no free one, for good;
`HandoverEnds` excepts a refused start, after which the updater reports for ever;
`SealedMeansDecoded` excepts the first word of every image after the first since power-up, which is decoded with the key the
image before it left behind; `SealedMeansWhole` excepts the packets to which another packet's late answer was credited, because such a block may have been lost;
`FreshImage` needs that no reply has outlived its request: after one, blocks are stored late by as many places as `ShiftBounded` says, and nothing notices;
`AnswerIsOwn` excepts answers cut by a transfer or after their read, and commands that lines nobody asked for and empty transfers leave fewer than three of the five reads (they return the result of
an older command, or one that was never set);
`LengthCoversImage` permits a `fileLength` that counts the blocks of a failed attempt too; `HeaderDiffersOnlyIfBlanked` excepts the 8-character text that blanks the EEPROM; `UpdateCycle` permits the loss of a
version record by a power cut (`Lose`) and its overwriting with the defaults after ten failed reads (`Identify`); `ConnectEnds` excepts a dongle that was pulled out, `OperationsEnd` a protected chip;
`OptionsInOrder` excepts an allocation that failed for an option at the end, after which the next option gets a number that nobody asked for (callers ignore the result of `addOption`).

### Mutants

Each property is checked against a plausible mistake: an operator in the component's module, just before the model,
that takes the place of a definition. `Itself` erases the slot just claimed; `ClearFlagNever` erases
behind the flag; `KeptOffByOne` erases the wrong block; `IsLastEarly` and `IsLastMissed` end the loop one block early or late;
`CountFullBlocks` does not count a short last block; `HandoverQuiet` forgets the message; `SenderDoneUnchecked`
ignores the completion flag; `RecordUnwritten` updates the copy of a version that was not written; `NextPacketLonger` runs the
packet loop once more (a packet that failed is then no longer fatal); `RememberKeyLate` loses the first key;
`AdvanceAlways` moves on behind the last packet; `PutForgotten` and `PutCounted` change the redial queue; `OverwriteHandled` keeps an old
status; `ReleaseIfLinked` does not report a terminated link; `SpendNothing` and `SpendUpwards` do not count tries down; `LeftUnread` leaves a datagram in the socket;
`PlaceOfNext` stores a block one place too far; `MoreNever` takes the first block for the last; `ReadAgainLess` reads four transfers, not five; `ShiftedShort` and `ShiftedNot` leave the
fill pointer too far behind a line; `JudgedEarly` takes a modem that searches for a registered one; `JudgedNever` heeds no answer; `DeltaSigned` keeps a difference with its
sign; `RebasedNot` leaves the option behind an inserted one as it was; `FitsUnchecked` does not compare an option's length with what is
left; `Block2NextOfFirst` looks at the first byte; `PageLenWhole` takes the first page for a whole one; `WriteEndedAlways` does not wait; `WriteEndedEnabled` waits for an enabled chip.

## 4. Proofs

The safety properties of `FirmwareUpdate`, `FirmwareSend`, `Dialer`, `FlashPages`, `SocketExchange`, `HuaweiModem` and `CoapPdu` are proved for every value
of the constants, from the modules' named assumptions (`UpdateAssumption`, `SendAssumption`, `ExchangeAssumption`, `FlashAssumption`, `PduAssumption`, `AtAssumption` and
`ResetsAssumption`), and from nothing else.

* `FirmwareUpdate_proofs`. `TypeOK` is not inductive: `blk` stays in range only because the block loop
  is left at the last block. `DownloadPlace` says what each place in the download implies of the counters.
  `Handshake` relates message, completion flag and both places: at most one of message, work in progress and completion exists, and
  only while the updater is in COMPLETE. `SlotInHand` adds that then the slot claimed last is the only valid one and holds
  the update in hand. `UpdateInv`, their conjunction, gives `SenderOwnsSlot` and `SentImageStable`.
  `ImplementsUpdateCycle` maps every step to a step of `UpdateCycle` or a stutter; it needs `UpdateInv`, since
  what the sender starts is the update in hand only because of `SlotInHand`.
* `FirmwareUpdateFlash_proofs`. `FlashInv`, relative to "no slot change was torn": outside an erase the free slots are erased (`Erased`), the claimed slot
  holds exactly the blocks received (`Filled`), and at most one slot is marked (`OneMark`). `FlagsKept` and `LengthCounts` are the two facts
  about flags and about `fileLength` that hold after a torn change too (the first as long as images leave room for the flag).
* `FirmwareSend_proofs`. The key fact is in `PositionInv`: `a <= j`, and the two are equal only as long as every packet was acknowledged.
  The four bytes are sent only with `a = Last + 1`, which the loop reaches only if every packet was credited with an answer; until one was not,
  `a = j`, nothing is stored at another block's address (`AlignedInv`), and every block before `a` is in its place or is one that another packet's answer was credited to (`Placed`). The last case is
  why the four bytes of an older image need a clause of their own (`Sealed`): they stay beside blocks of the image in hand only if that image's first packet, which takes them away, was credited without having
  arrived. A packet that failed keeps the position behind the loop for good. `KeyInStep` says of the key that it is the word in front of the packet in hand whenever `a = j`.
* `Dialer_proofs`. `DialerInv` adds to `NoLostRedial` that the status in store fits the unit (`StatusFits`) and that a loss is queued
  before the dialer can rest (`LossIsQueued`).

* `SocketExchange_proofs`. `TypeOK` needs the places of the try counters (`tryNum` is positive in a request function). `Backlog` counts datagrams against
  stray replies: only a timeout with an answer under way and a repeated reply leave one behind (`StepShape` reduces all actions to five shapes). `ImageInOrder` strengthens `FreshImage` with what it means that nothing is stray: the socket is empty but for the
  answer to the request in hand, which is one of `Answers`, so that a block taken is the block asked for. `ShiftIsBounded` is relative to the first download,
  as the property is: `ShiftInv` keeps every block under way no further behind the block asked for than there are stray replies.
* `FlashPages_proofs`. `FlashInv` says of each place of the driver what the chip holds: everything before `ofs` is written (`SoFar`), the page in
  hand is in the chip's `job` or written (`JobInHand`), and the operation is complete at the end. The arithmetic of pages is in `PageLenFits` (a page
  is not left and the end is not passed) and `PagesApart` (the pages before and behind that of an address). `CutsTearOneUnit` follows since a cut touches the addresses of `job` only.
* `HuaweiModem_proofs`. Three invariants, each on top of the one before. `TruthInv`: whatever is on the wire, in the buffer or in a line already read says of the registration
  only what the network decided; it holds however transfers are cut, since nothing puts two texts together. `WholeInv`, as long as no transfer was cut: wire and buffer are whole echoes and
  lines, one behind the other, and the place of the first character in the buffer is what the parser's place and `lineDetected` say, so that every read is parsed to its end
  (`ParsedWhole`). `OwnInv`, as long as nothing was cut or late: the command's echo is at some place `p` in what is still to be parsed, and the reads left reach it and
  the line behind it (`ReadsLeft`), at worst six characters to a read. Each line nobody asked for, each empty transfer, and the `OK` left over costs one read; the echo and the answer cost one each: hence
  the condition `noise + 3 <= Reads` of `AnswerIsOwn`. With the code's five reads that is two such lines; with a third the answer may not be reached,
  so the condition is not for the proof's sake. `RangesKept` gets the bound of the fill pointer from `WholeInv`: for whole transfers it is the length of the data, which came with one transfer (`OneTransfer`), which is less than the
  buffer (`EndpointSize < BufSize` in `AtAssumption`; 64 and 192 in the code). `LeastNumber`, from the library's well-founded
  induction, is what finds the first CR for `strchr` (`WhereFinds`).
* `CoapPdu_proofs`. `PduInv` says that a walk lies in the message (`Wired`): a sequence of steps, each at the place where the one before ends, at each
  the bytes that `Encoded` makes of its difference and value, and behind the last nothing or the marker and the payload (`Framed`). Its options are those added, sorted (`InOrder`,
  stated by a permutation, from which `SortsIs` gets `Sorted`); `Counted` bounds the count, and `HasRead` is the receiver. A walk that lies in a message is the one that the recursive `Walk`
  computes (`FramedWalk`, `WalkIs`); this counts steps, by an induction that is got from well-founded sets of numbers (`EveryNumber`) since the library's induction theorems need an operator. Each operation then only has to show the walk that lies in the new message: one step longer at the end (`FramedAppended`); one more in the middle with the
  option behind encoded anew and all others moved (`FramedInserted`, `Splice`); the steps before the cut, with what is left of a cut option not fitting
  (`OptionCut`, `CutMessage`). `NumberRead` and `OptionRead` say that what `Encoded` wrote is read back, for every 16-bit difference and length and across all three classes
  of the encoding, and `Rebasing` that the difference of the option behind is right although it is computed modulo 2^16.

| Theorem | Module | States |
|---|---|---|
| `TypeCorrect` | `FirmwareUpdate_proofs` | `TypeOK`: Every variable of the update keeps its range, for any slot size, image sizes and numbers of faults and reboots. |
| `SenderOwnsItsSlot` | `FirmwareUpdate_proofs` | `SenderOwnsSlot`: While the sender reads or starts an image, the updater is parked and the slot is the one claimed for it, the only valid one. |
| `SentImageIsStable` | `FirmwareUpdate_proofs` | `SentImageStable`: No step but a power cut changes a flag, a cell or updateinfo while the sender is at work. |
| `AtMostOneValidSlot` | `FirmwareUpdateFlash_proofs` | `OneValidSlot`: Outside a slot change at most one slot is marked valid, unless a power cut tore one. |
| `StoresOnlyInErasedCells` | `FirmwareUpdateFlash_proofs` | `StoresInErasedCells`: Every cell a download has still to write is erased, unless a power cut tore a slot change. |
| `HandedOverAllOrNothing` | `FirmwareUpdateFlash_proofs` | `AllOrNothing`: A slot that is handed over holds exactly the blocks received: all of the image or none. |
| `LengthAlwaysCovers` | `FirmwareUpdateFlash_proofs` | `LengthCoversImage`: The length the sender reads is never below what the slot holds, whatever attempts came before. |
| `SomeSlotAlwaysFree` | `FirmwareUpdateFlash_proofs` | `SomeSlotFree`: If images leave room for the flag, a download finds an erased slot, unless a power cut tore a slot change. |
| `ImplementsUpdateCycle` | `FirmwareUpdate_proofs` | `UpdateCycleSpec`: The update implements the abstract cycle: one record per acknowledged start, of the image that was started. |
| `HeaderFollowsEeprom` | `FirmwareUpdate_proofs` | `HeaderDiffersOnlyIfBlanked`: The version in RAM and the EEPROM differ only where an 8-character text has blanked the EEPROM. |
| `SendTypeCorrect` | `FirmwareSend_proofs` | `TypeOK`: The sender's position, key and counters keep their ranges for any image size and number of rounds. |
| `OnlyWholeImagesStart` | `FirmwareSend_proofs` | `SealedMeansWhole`: The last four bytes are sent only over a whole image, for any image size, number of rounds and number of late answers; the only holes are the packets to which a late answer of another packet was credited. |
| `OnlyDecodedImagesStart` | `FirmwareSend_proofs` | `SealedMeansDecoded`: Late answers or not, what a startable image has in its place was decoded with its own key, but for packet 0 of images after the first since power-up. |
| `OnlyAlignedImagesStart` | `FirmwareSend_proofs` | `SealedMeansAligned`: However many answers come late, no block of a startable image lies at another block's address. |
| `DialerTypeCorrect` | `Dialer_proofs` | `TypeOK`: The dialer's variables keep their ranges: the redial queue and the semaphore never hold more than one. |
| `RedialIsNeverLost` | `Dialer_proofs` | `NoLostRedial`: After the device has been online, a lost link always has a redial queued, about to be queued, or at work. |
| `OnlineIsUp` | `Dialer_proofs` | `OnlineMeansUp`: A connection attempt succeeds only on the status of a link that is up or whose loss is being posted. |
| `BlockedDialerIsWoken` | `Dialer_proofs` | `BlockedDialerHasEvent`: A dialer that waits for the semaphore has a status posted, under way, or owed by the PPP unit. |
| `TypeCorrect` | `SocketExchange_proofs` | `TypeOK`: Every variable of the exchange keeps its range, for any images, numbers of tries and bounds. |
| `Backlog` | `SocketExchange_proofs` | `BacklogIsStray`: The socket never holds more datagrams than replies have outlived their request, and the answer in hand. |
| `ImageInOrder` | `SocketExchange_proofs` | `FreshImage`: Without a stray reply every block is stored at its place, and a download that ends with any block has them all, for any image size and any number of lost replies and refusals. |
| `ShiftIsBounded` | `SocketExchange_proofs` | `ShiftBounded`: However many replies have outlived their request, a block lies no further from its place than there are stray replies. |
| `FlashTypeCorrect` | `FlashPages_proofs` | `TypeOK`: The driver and the chip keep their ranges for any size of chip, pages and blocks; the chip is enabled or busy only for the operation in hand. |
| `OperationsAreExact` | `FlashPages_proofs` | `DoneAsAsked`: A write or erase that returns has changed exactly what it was asked to, wherever the data lie across pages. |
| `CutsTearOneUnit` | `FlashPages_proofs` | `CutTearsOneUnit`: A power cut leaves at most one page of a write, or the block of an erase, in an unknown state. |
| `NetworkSaidSo` | `HuaweiModem_proofs` | `OpenIsRegistered`: The modem is taken for registered, or denied, only when the network said so, however its lines are cut, late or left over. |
| `PointerIsWhole` | `HuaweiModem_proofs` | `FillPointerWhole`: As long as no transfer is cut, the fill pointer is where the data ends, for any endpoint and however many lines a transfer brings. |
| `RangesKept` | `HuaweiModem_proofs` | `TypeOK`: Every variable keeps its range for any buffer larger than a transfer: as long as no transfer ended within a line the fill pointer stays inside the buffer. |
| `AnswersAreOwn` | `HuaweiModem_proofs` | `AnswerIsOwn`: A command that returns a result returns that of its own answer if no transfer was cut, no answer was late, and the lines nobody asked for and empty transfers leave it three reads. |
| `BytesStayBytes` | `CoapPdu_proofs` | `TypeOK`: The bytes of the message, the count and the greatest number keep their ranges, whatever options are added in whatever order. |
| `OptionsAreInOrder` | `CoapPdu_proofs` | `OptionsInOrder`: However many options are added in whatever order, the message holds exactly them, sorted by number and stably, each with its value. |
| `ReceiverReadsTheSent` | `CoapPdu_proofs` | `ReceiverReadsWhatWasSent`: A receiver of the message, whole or cut at any byte, has the options and payload that were sent or the first of them, or refuses a cut one. |
| `MoreIsAsSent` | `CoapPdu_proofs` | `MoreIsWhatWasSent`: The receiver asks for another block exactly when an option it has received says so, for any value of at most two bytes. |

Only model-checked:

* the liveness properties (`HandoverEnds`, `CommandIsHandedOver`, `RedialReconnects`, `CallsEnd`, `ConnectEnds`, `OperationsEnd`), because fairness and ENABLED are out
  of the prover's reach.

The five expected violations are counterexamples of TLC.

## 5. Not modelled, and what is left

Not modelled:

* The buffered path of the USB serial port (`WANDongleSerialPort::readPacket`, `writePacket` and their interrupt handlers, `USBSerialStream`, `MtxCircBuffer`) and
  `IOSerialStream`. `WANDongleSerialPort::connect` calls `readPacket` once for each port when the dongle is enumerated (`USBHost3GModule/WANDongleSerialPort.cpp:276`), before the first command; otherwise nothing in this
  program calls it. What that transfer receives goes into a buffer that nothing reads: both the AT interface and PPP use the direct transfers (`atInstRead`, `pppSioRead`). To
  the models a line that it takes is one that the modem has not sent.
* `PPPIPInterface::disconnect`, `HuaweiUSBCDMAModem::disconnect`, `power` and `cleanup`, `ATCommandsInterface::close`, `flash25spi::clearSector` and `clearMem`, the watchdog
  feeder: no caller that this program reaches.
* Third-party and vendored code: `mbed/`, `rtos/`, `lwip/`, `USBHost/`, `http/`, `MbedJSONValue/`. It is most of the repository's lines and is taken as external behaviour where
  the program meets it.
* LEDs and console output: pure output.
* The heap: the array that `getOptions` allocates for every block is never freed (`cantcoap/cantcoap.cpp:857`); the models take an allocation to succeed or fail at any time.
* The hardware under two SPI objects on the same pins: the updater and the sender each have one (`USER/main.cpp:81`, `USER/remoteupdate.cpp:367`); `SenderOwnsSlot` shows that the sender
  reads only while the updater is not downloading.

Left, in this order:

1. The frame parser of `userfwpro::CheckCode` (header, length, checksum, bytes of two answers in one buffer), in the place of `AnsweredRound` and `StrayAnswer` of `FirmwareSend`.
2. `setURI` and `getURI` of `CoapPDU`: splitting a path into options and joining it, as an inverse pair over bounded inputs.
3. `SocketExchange` under the power cuts of `FirmwareUpdate`, and an abstract download (a sequence of blocks, or none) that both implement.
4. Proofs of what keeps the liveness properties true short of fairness: the counters that every try, read and page brings down.
