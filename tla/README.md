# A verification of the data link protocol

TLA+ specifications of `netlink`, a file transfer program over a serial line:
a stop-and-wait data link (`src/src/data_link.c`, `data_link_io.c`) with a small
file transfer protocol on top (`packets.c`). TLC checks the specifications on
small instances, TLAPS proves the theorems for every value of the constants.

    tlc -workers 2 -config link_safety.cfg MCDataLink
    tlapm FrameCodecProofs.tla

`PROJECT.json` lists the runs, what each definition models (file and lines), the
hazards of the code with the properties that cover them, one plausible bug (mutant)
per property, the theorems, and what the runs found.

## The system

| component | files | state it keeps | operations |
|---|---|---|---|
| command line | `netlink.c` | the options read so far | parses arguments, calls `send_file` or `receive_file` |
| file input | `file.c` | none | reads the file, or the standard input, into memory |
| file transfer | `packets.c` | position in the file, sequence number, state of the machine, attempts; `g_connections`, a table indexed by descriptor | `send_file`, `receive_file`: machines with their loops of `llopen`, `transmitter_write`, `llread`, `llclose` |
| data link | `data_link.c` | `connection`: `frame_number`, `is_active`, descriptor, timeouts | `transmitter_connect`, `transmitter_write`, `disconnect`, `receiver_listen`, `receiver_read`, `handle_disconnect`, `wait_for_disconnect` |
| frame exchange | `data_link_io.c` | the alarm and its flag | `f_send_frame`, `f_receive_frame`, `f_send_acknowledged_frame` |
| frame codec | `data_link_io.c` | the buffer `g_buffer` | stuffing, check bytes, `parse_frame_from_array` |
| serial port | `serial_port.c` | the last byte read, the saved `termios` | open, close, write, `serial_port_read` |
| drafts | `working/`, `example_code/` | | earlier versions, not part of the build |

Two programs run, one as transmitter and one as receiver, each sequential. Inside a
program the components call each other downwards. The only concurrency is between the
programs, between a program and its alarm (a signal handler that sets a flag and
interrupts `read`), and with the line, which delays, loses and damages bytes. Nothing
is persisted. After `serial_port_open` a side has a descriptor; the driver keeps
what arrives until it is read, `serial_port_open` flushes it.

What is hard about it:

- **one bit of frame number**, in `data_control_byte` and `data_reply_byte`, tells a new
  frame from a copy of an old one. It is enough only while both `frame_number`s
  stay within one of each other;
- **retransmission against a late answer**: a reply can arrive after the alarm, after the
  exchange was given up, or during the next exchange. The application sleeps 5 s between
  calls in places and the timeout is 5 s, so this happens on a perfect line;
- **which answers count as an attempt**: `f_send_acknowledged_frame` charges timeouts, bad frames
  and whatever looks like REJ (`SET` too: same code), and hands everything else to its caller,
  who sends again for free;
- **results of refused frames**: the parser stores the control byte before it checks the BCC, and
  three callers look at it though the frame was refused;
- **partial failures**: the data is stored before RR is sent; the port is closed before `disconnect`
  knows its result; `send_data_packets` moves on before the write; both sides may
  disconnect at once;
- **frame boundaries**: a damaged byte may make or break flags and escapes; the parser looks
  for the end of a frame in a buffer that still holds older frames; an alarm or a failed
  read may leave the reader in the middle of one;
- **a sequence number modulo 255** in the data packets: packets may go missing (a failed write
  is not repeated), and after a whole round of them the numbers fit again;
- **a failed `llclose`** leads the transmitter to a state number of the receiver's machine,
  which in its own is the state that sends the end packet.

What makes each component correct:

- data link: the frame numbers stay in step; packets are delivered in order, each at most once; a
  confirmed packet was delivered; faults below the retry limit are invisible to the client;
  a successful disconnect means both sides are leaving; every exchange returns;
- frame codec: a frame survives the line unchanged; one flipped bit is refused (with two exceptions, see
  the findings); damage to one frame does not cost the next; nothing is written outside the caller's buffer;
- serial port: `serial_port_read` splits the bytes into the frames that were sent; each alarm or
  failure costs one frame at most; a call with a timeout returns;
- file transfer: the received file is a prefix of the file that was sent, the whole of it when
  nothing failed; a transmitter that reports success has been told that the end arrived; both machines
  end; descriptors, memory and port settings survive failed attempts;
- command line: what the usage promises is what the transfer is started with.

## Modules

| module | models |
|---|---|
| `DataLinkCodes` | `data_link_codes.h`, return codes, the two functions that number control bytes |
| `DataLink` | both sides of a session: every call of `data_link.c` over the exchange of `data_link_io.c` |
| `LinkService` | what the data link promises: an abstract stop-and-wait delivery service |
| `FileTransfer` | `send_file` and `receive_file` over `LinkService` |
| `CommandLine` | `parse_args` up to the call of one of the two |
| `SerialFraming` | the two loops of `f_receive_frame` over `serial_port_read`, byte by byte, with the alarm |
| `FrameCodec` | the bytes: building, stuffing, reading up to flags, parsing, over a line that flips bits |
| `EarlierFraming`, `EarlierCodec` | the same in two drafts, `working/filipe` and `working/daniel`, for comparison |
| `DataLinkInv` | the inductive invariants of `DataLink`: `LinkInv` (what is on the lines), `PacketInv` (what the frames carry) and `AttemptsInv` (what the attempts of an exchange are spent on) |
| `FileTransferInv` | those of `FileTransfer`: `FileInv`, `PrefixInv` (the debugging build's numbers) and `TransferInv` (a transfer without trouble) |
| `DataLinkProofs`, `DataLinkSession` | theorems about `DataLink`: types, frame numbers, order and the service; the session's beginning, its faults and its end |
| `FileTransferProofs`, `FileTransferPrefix`, `FileTransferWhole` | theorems about `FileTransfer` |
| `SerialFramingProofs`, `FrameCodecProofs`, `CommandLineProofs` | theorems about `SerialFraming`, `FrameCodec` and `CommandLine`, with their inductive invariants |
| `MCDataLink`, `MCFrameCodec`, `MCFileTransfer`, `MCCommandLine` | instances for TLC |

How they fit together: `FrameCodec` and `SerialFraming` justify what `DataLink` takes for granted of
one frame (what is not damaged is read as it was sent, damage is refused but for the exceptions below, an
interrupted reader loses at most one frame and finds the next).
`DataLink` implements `LinkService` (`ServiceSpec`, a refinement that is checked and proved).
`FileTransfer` takes the actions of `LinkService` as conjuncts of its own, so that what holds of it
holds over the data link. `CommandLine` shows that the two machines are started with the
parameters `FileTransfer` assumes, but for one number of retries: one more than `INT_MAX` is negative.

### DataLink and the code

A side is in one call at a time: `op[s]` names it, `none` between calls, `start` before
the first, `closed` once the port is. When `serial_port_close` fails the disconnection returns -1, and the
descriptor may stay open (`left_open`): `transmitter_write` does not ask for `is_active`, so its client may write
on, and either side may disconnect again (`HasPort`). One step of a call runs from one return of
`f_receive_frame` to the next call of it, so everything done in between (the test of
the reply, `frame_number++`, the next `f_send_frame`, closing the port) is one action. The
operators have the names of the functions they model:

- `f_send_frame`, `f_receive_frame` give the set of results a call may have, with the line and the
  faults each result goes with;
- `Begin`, `Complete`, `GiveUp`, `Resend` are the paths through the loop that
  `transmitter_connect`, `transmitter_write`, `disconnect` and `handle_disconnect` share with
  `f_send_acknowledged_frame`. `OutFrame` and `Wanted` say what the four send and wait for;
  `Charged` and `Left` what an answer does to the attempts; `Return` what the client sees and
  what the call closes. `ntries` is the number of attempts left;
- `receive_reply`, `timeout` are the two ways `f_receive_frame` ends in an exchange;
- `listen_receive`, `wait_receive` and `read_receive` (`Reject`, `Accept`, `Disconnected`) are the
  loops of `receiver_listen`, `wait_for_disconnect` and `receiver_read`;
- `lose` is the line. Damage and noise are results of `f_receive_frame` (`Damaged`);
- `crash` is one outcome of a data frame where the caller gave the parser no buffer
  (`FRAME` leaves `data` and `max_data_size` uninitialized). The others are in `Intact` (it was read
  as if nothing had happened) and `Unbuffered` (the uninitialized limit stopped it).

`line[s]` holds the frames on their way to `s`. `packet`, `confirmed` and `delivered` are what the
clients see: the k-th `transmitter_write` writes packet k.

`Policies` says what the clients may do: `retry_after_failure` (the transmitter
writes on after a failed write, as `send_data_packets` does), `receiver_disconnects` (`receive_file`
disconnects on its own, as its machine may), `receiver_waits` (it calls `wait_for_disconnect`, as the
data link's test does), `receiver_first` (the receiver listens before the transmitter connects).

What the model leaves out, and why that is faithful:

- one session per program, as in `netlink`;
- sizes: a payload that does not fit a frame or the reader's buffer is the subject of `FrameCodec`;
  `receiver_read` may return after any frame ("its buffer is full");
- `f_receive_frame` never returns `ERROR_CODE`: `serial_port_read` returns no negative count;
- a failed `transmitter_connect` leaves its descriptor open and a second one flushes the input: it
  flushes a prefix of what is on its way, the rest arrives later;
- what is sent to a side whose port is not open is gone; closing discards what is there;
- `transmitter_write`'s own `--ntries` (`data_link.c:124`) is dead: it is followed by a test that
  only the value 0 reached in the exchange satisfies;
- the alarm that is not cancelled when a frame arrives is seen as a write it interrupts
  (fault kind `unwritten`);
- a damaged frame is always refused. For one flipped bit that is what `FrameCodec`'s `DetectsDamage` says, and
  proves, with two exceptions that `DataLink` leaves out (finding 5 and a bit that makes a flag); what a refused
  frame can do is leave a control byte behind, its own or one of `Misread`.

### LinkService

Packets are submitted one at a time and confirmed or failed; each delivery is later than every
confirmed packet and no earlier than the last delivery, strictly later if `at_most_once`. While the receiver is
`ahead` (it has answered a delivery that the transmitter has not yet taken for the answer to a
submission) nothing is delivered, and only then can a submission be confirmed. The
service does not say that a confirmed packet was delivered, because after a failure it may not
have been (run `late_reply`). The client may submit after a failure. The refinement mapping is at the end of `DataLink`:
`outstanding` is "in `transmitter_write`", `ahead` is "the frame numbers differ", `at_most_once` is "no
reply of the receiver's fails to be written".

### FileTransfer and the code

`snd` and `rcv` are the local variables of `send_file` and of `receive_file` with
`receive_data_packets`: the machine's `state`, its `attempts_left`, sequence number, and what was
returned (`Running`, 0, -1, or `Aborted` when the program ends in the middle, as on a file that could
not be opened). `is_open` is whether the receiver's port is: `llclose` works on it, whether or not the connection is
active. `descriptors` counts `open()` calls, `tty` the settings of the port and
`g_oldtio`. Byte i of the file is the number i; `sent[k]` is packet k of the service.

- `llopen`, `send_start`, `send_data_packets`, `send_end`, `send_llclose` are the cases of the
  transmitter's `switch`; a write ends in `write_confirmed` or `write_failed`. A step of
  `send_data_packets` is one round of its loop, which moves on (`Moved`) before it writes;
- `receive_llopen`, `receive_llclose` are the receiver's first and last cases. `llread` delivers a
  packet, `llread_nothing` is a read that returns 0 and has its buffer parsed all the same (`Junk`
  says what may be there), `llread_fails` one that returns -1: on a connection
  that has ended, where the start packet's memory is freed twice, or for want of memory. What is done with a packet in the
  two states that read is in `parse`: the start packet, `parse_data_packet` with `Numbered`, the end packet;
- `retry` is the loops' decrement: attempts run out, and the machine returns -1. `Advance` gives
  all attempts back, at a change of state only;
- `setup.debug` is the build flag `APPLICATION_LAYER_DEBUG_MODE`: with it a wrong number is refused,
  without it the receiver counts losses and repetitions and writes what it got;
- `llread` returns only what was delivered; the receiver may refuse any packet, for want of memory;
- `CrossTalk` names the situation in which a write of the transmitter and a `DISC` exchange of
  the receiver can be each other's uncharged replies. Every session passes through it, between the end packet's
  arrival and its confirmation; what matters is whether it stays there (`<>[]CrossTalk`).

### SerialFraming and the code

`at` is the loop of `f_receive_frame` in progress (`flag`: skip to one, `frame`: read up to the next),
`buffer` what the `serial_port_read` in progress has stored, `g_last_byte` what
`serial_port_last_byte()` returns. `read_byte` is one `read()` of one byte, `read_error` one that fails (it stores the
byte before once more), `interrupt` one that the alarm ends (the call returns 0 and its bytes are
forgotten), `ring_unheard` an alarm between two reads or calls. `ReadReturns` is what
`f_receive_frame` does with a returned read. The peer's `serial_port_write` may be short.

### FrameCodec and the code

`Built` is what `f_send_frame` writes, `copy_and_stuff_bytes` its data field. The receiver alternates `skip_to_flag`
and `read_frame`, the two `serial_port_read` calls of `f_receive_frame`; `last_byte` is
`serial_port_last_byte()`, which lets the closing flag of one frame open the next. `g_buffer` keeps
its old content between frames because `parse_frame_from_array` does not know the length of what was read. (The
receiver builds its replies in the same buffer. That changes its first five bytes only, which the next frame has
overwritten wherever the parser looks at them.) The parser's loop is `Round`, applied `MaxRounds` times, which is
more than it can go on for: a round reads a byte at least, and the limit in the code ends it; a loop that has
ended stays as it is. `Xor` is C's `^`, by the bits of a byte. All frames are written before the reader begins, and
bits are flipped in between (`Noisy`, with the bounds `MaxFlips` and `Hits`): the reader only waits for what is not there yet, so this hides nothing.
`flipped` records each flip for the properties to speak of. `Put` stores what a read got wherever that falls: that nothing
is stored behind the end of `g_buffer` (`TypeOK`) is due to the number of bytes the two reads ask for, the second one `Room`.
`MCFrameCodec` compares the frames with those of the two drafts. The draft in `working/filipe` stuffs
and destuffs whole arrays, with the same result (`EarlierAgrees`); the draft in
`working/daniel` does not stuff the check byte, and works exactly when it is no flag (`DraftNeedsNoFlag`).

### CommandLine and the code

`at` is the next call in `parse_args`. A flag counts where it stands last, not as the last word;
`index` is `t_index` to `r_index`. Reading a file fails if it is not one of `Files`, or if there is no `memory`; it goes out under
the last part of its path (`basename`, a constant function). Numbers are taken through `atoi`, a
constant function, and added in the arithmetic of `int`. The properties read the usage text
independently of the code's indices: `Usage` says which lines follow it (options, each with the word it
takes, then the port), `IsGiven` which word is an option's last one.

## Runs

Bounds are named in the modules; the numbers here are the values in the `.cfg` files.

| run | checks | instance |
|---|---|---|
| `link_safety` | `TypeOK`, `Window`, `LinkInv`, `PacketInv`, `InOrder`, `BothClosed`, `NeverAfterConfirm`, `ServiceSpec` | 2 attempts, 3 packets, 2 connects; one lost frame, one damaged (or noise, which may read as `SET`), one failed write, on either line; early alarms; the transmitter writes on after failures, the receiver may hang up or wait |
| `link_forward` | `ToleratesForwardFaults`, `AttemptsInv` | 3 attempts, 3 packets, up to 2 losses and 2 damages of the frames to the receiver, which takes any number of frames in a call; no early alarm, receiver listening first |
| `link_liveness` | `ExchangeReturns` | 2 attempts, 2 packets, 2 connects, one fault of each kind, an open or close that fails included, either line; the receiver may hang up or wait; under `FairSpec` |
| `lost_reply` | violates `ToleratesReplyFaults` | 3 attempts, one packet, one lost frame to the transmitter |
| `late_reply` | violates `ConfirmedDelivered` | a client that writes on after a failed write; no fault at all |
| `refused_reply` | violates `ConfirmedDelivered` | one damaged reply, a client that stops at the first failure |
| `serial_framing` | `TypeOK`, `WholeFrames`, `OneFrameEach`, `CallReturns` | buffer of 5 bytes, 3 frames of 1 or 3 bytes between flags, 2 alarms, 1 failed read, short writes |
| `file_transfer` | `TypeOK`, `Prefix`, `PrefixInv`, `TransferInv`, `Whole`, `LostReal`, `DescriptorInTable`, `SentToTheEnd`, `SettingsRestored`, `FileInv`, `FreedOnce`, `TransmitterEnds`, `ReceiverEnds` | 2 attempts on each side, numbers modulo 4, files of no, one and six packets, both builds, any failure of any call; one repeated delivery |
| `file_truncated` | violates `SizesAgree` | a file of two packets, debugging build |
| `command_line` | `TypeOK`, `AsUsed`, `UsageAccepted`, `ReadyToTransfer` | every line of up to 3 words after the program's name, and every one with up to 3 options that follows the usage; with memory and without |
| `codec_escape` | violates `IntegrityVerified` | a frame and a shorter one, one flipped bit, 24-byte buffers |
| `codec` | `TypeOK`, `RoundTrip`, `DetectsDamage`, `Resynchronizes`, `OneByteOver`, `EarlierAgrees`, `DraftNeedsNoFlag` | two frames, one flipped bit anywhere, or two that spoil flags, 24-byte buffers, room for 3 bytes and up to 4 payload bytes |

Why the bounds are enough:

- the data link's state depends on the parity of the frame numbers and on which copies are in flight.
  Three packets cover a parity coming back, so a copy of packet 1 could be mistaken for packet 3; two
  attempts and early alarms put two copies of a frame and two replies on the lines; each fault once, in any
  combination and at any moment, reaches every path of the code. What is proved holds without bounds.
  `link_safety` leaves out the failed open and close, which `link_liveness` has;
- in `file_transfer` the modulus is 4 and the attempts add up to 4, the tightest case that `Prefix`
  claims, and a file of six packets takes the numbers round. One repeated delivery is combined with the short files only
  (`ShortSize`), where the state space stays small: what a repetition does depends on the packet before it, not
  on the wrap. With two attempts `FreedOnce` says that nothing is freed twice; that this takes four attempts and a refused
  start packet is what the theorem says, for any number of them;
- `codec` uses every byte the code treats apart and bytes one bit away from them, as any
  payload of up to three, every payload of the largest size made of bytes that are stuffed or look
  it, and a flip of any bit of either frame. Two flips are combined only where each makes of its byte the one that a flag
  becomes by one bit (`Hits`): two frames without the flags between them are 24 bytes behind the opening flag, one more than `Room`,
  so that the read must stop without a flag. The second frame shows what the first leaves behind in the
  buffer and in the flag between them;
- `serial_framing` has a buffer that a frame of 3 bytes fills exactly, and faults enough to meet twice in
  one frame or hit two frames in a row;
- `command_line`: an option is decided by its neighbour and by the last of its kind, so three words show
  every misreading, and three options every order and repetition.

Deadlock is not checked in any run: sessions and programs end, a receiver without input waits for
ever (it has no timeout), and so does a reader of an empty line.

What the runs found (`findings` in `PROJECT.json`):

1. `lost_reply`: one lost RR makes `transmitter_write` fail: the receiver has moved on and rejects every copy of
   the frame it has accepted (`data_link.c:251`). The retransmission does not make up for lost replies.
2. `late_reply`: after a failed write the frame number stays. If the client writes the next packet, the late RR of
   the failed one confirms it, and the receiver drops it as a copy.
3. `refused_reply`: when the attempts run out on a frame that fails its BCC, its control byte is still
   compared with the wanted one: a damaged reply can confirm a packet.
4. `file_truncated`: `send_data_packets` moves past a chunk before it writes it. A chunk whose write
   fails is skipped, the receiver takes the end packet all the same, and both sides return 0 over a
   file that is too short.
5. `codec_escape`: one bit can turn the check byte, the last before the closing flag, into an escape. The parser
   then takes the flag for the escaped byte (`data_link_io.c:135-141`) and reads on in `g_buffer`, past the frame, in
   what the frame before left there. In the run that is the end of a longer frame, whose check byte happens to
   fit, and three bytes are accepted of which the line carried one. Testing for `FLAG` after an escape would refuse it.

Also met, and stated by the properties as the code has it:

- `receiver_listen` acts on the control byte of refused frames, and noise that reads as `SET` connects it
  (`data_link.c:199-203`). It then rejects the `SET`s of a transmitter that calls, which fails. `link_safety` and
  `link_liveness` have such noise, and frame numbers, order and the ends of exchanges come to no harm by it;
- a frame may hold one byte more than `max_data_size`, and stores it; never two (`OneByteOver`);
- `frame.size` counts the check byte, which `receiver_read` leaves between the packets of one call. `test_7` in
  `data_link_test.c:291-326` has the receiver read any number of frames in one call (line 321) and compares what it got with the
  plain concatenation of the messages, which the check bytes contradict. `packets.c` reads one frame per call;
- the receiver's first packet is freed twice when it has refused two packets before and has an attempt left, which
  takes at least four attempts (`FreedOnce`);
- two exchanges can answer each other for ever, when a receiver disconnects while the transmitter writes: the data frame is read by R as
  a reply (undefined, but a success on most runs), neither wanted nor REJ, so R sends `DISC` again, free of
  charge; that `DISC` is to T a reply neither wanted nor REJ. No fault is needed. `ExchangeReturns` and `TransmitterEnds` show that this
  is the one way never to come to an end: they except runs that from some point on stay in it (`<>[]CrossPurposes`, `<>[]CrossTalk`);
- an alarm that goes off between two reads is not heard by the next one; `CallReturns` shows that this is
  the one way in which a call with a timeout can hang;
- one bit that turns a byte into a flag can cut a frame where the data so far ends in its own
  check byte; `DetectsDamage` names that exception, and that of finding 5, and is proved to have no third one;
- in the release build the receiver's own number is reduced when it takes a packet for a repetition, so what
  is missing is counted late, never twice (`LostReal`).

## Fairness

`DataLink`'s `FairSpec` assumes weak fairness of `receive_reply` and `timeout` on both sides, of `listen_receive`,
`receiver_read`, `read_receive` and `wait_receive`: a program with input reads it, an alarm set before each wait goes off
(`f_receive_frame` sets it, `data_link_io.c:273`), and the receiver's client calls `llread` in a
loop while the connection is active. Nothing is assumed of the line, of the faults, or of the transmitter's
client. Each of the actions is its own program's next step, enabled until taken.

`FileTransfer`'s `Fairness` assumes that the calls the transmitter makes return (what `link_liveness` shows of them),
except in `CrossTalk`, and that the receiver goes on where its call returns at once: `llread` on a
connection that has ended, `llclose` outside `CrossTalk`. It does not assume that `llread` ever returns on
a live connection, since that depends on the transmitter.

`SerialFraming` assumes that `read()` returns when there is a byte, and that an alarm that is set goes off during
a read that waits. `CallReturns` excepts the runs that reach the bound on alarms.

## Proofs

TLAPS checks 34 named theorems, for every value of the constants that the `ASSUME`s of the modules allow. Those
ask for no more than types and sizes: at least one attempt, a modulus above 1, packets that have room for a
byte of data, `LL_MAX_FRAME_SZ > 2` (a buffer for two flags) in the reader and `> 6` (one byte of data) in the codec, frames
whose header holds no flag (so it is with every control byte of the protocol) and `INT_MAX > 4`.

Of the data link, for any number of attempts, packets and faults and any policies, the hypothesis on
`Misread` in brackets (the last two, whose hypothesis says more than that, are about one kind of line only):

- `TypeCorrect`: `Spec => [](TypeOK /\ CallInv)` (none);
- `LinkCorrect`: `Spec => [](TypeOK /\ LinkInv /\ Window)`, and `InStep`: `Spec => []Window` (`RepliesAreSafe`);
- `PacketsInOrder`: `Spec => []PacketInv`, and from it `Ordered`: `Spec => []InOrder` (`RepliesAreSafe`);
- `NothingAfterConfirm`: `Spec => NeverAfterConfirm` (`RepliesAreSafe`);
- `Implements`: `Spec => ServiceSpec`, every step of the data link is one of the service or a stutter (`RepliesAreSafe`);
- `BothSidesClose`: `Spec => []BothClosed` (`C_DISC` not in `Misread`);
- `AttemptsPaid`: `Spec => []AttemptsInv`, and from it `RidesOutForwardFaults`: `Spec => []ToleratesForwardFaults`
  (`OnlyForwardFaults`).

`RepliesAreSafe` says that no damaged header reads as an RR. Each hypothesis is needed, because the code looks
at the control byte of refused frames: `refused_reply` is what happens without the first, and likewise a
damaged header that reads as `DISC` ends a `disconnect` whose peer is still reading. `OnlyForwardFaults` describes the one kind of line on which the attempts
are worth their number: it harms only frames to the receiver, makes no header read as `SET` (which would connect a receiver that nobody called), the alarm does not go
off while a frame is on its way, writes and ports work, and the receiver listens first and leaves hanging up to the
transmitter. `lost_reply` shows what becomes of it when frames to the transmitter are lost as well.

Of the file transfer, for any number of attempts, any sizes, any failures and both builds:

- `FileCorrect`: `Spec => [](TypeOK /\ FileInv)`, and from it `FileTypes`, `TableIsBigEnough`
  (`DescriptorInTable`), `Restored` (`SettingsRestored`), `EndsConfirmed` (`SentToTheEnd`) and `FreesNeedFour` (`FreedOnce`);
- `PrefixCorrect`: `Spec => []PrefixInv`, and from it `NothingOutOfPlace`: `Spec => []Prefix`;
- `TransferCorrect`: `Spec => []TransferInv`, and from it `WholeFile`: `Spec => []Whole`, and `LossesAreReal`:
  `Spec => []LostReal`.

Of the byte-wise reader, for any number and length of frames, any buffer and any number of alarms and failures:

- `SerialFramingTypes` (`TypeOK`), `FramesAreWhole` (`WholeFrames`), `OneFrameIsLost` (`OneFrameEach`).

Of the codec, for any number of frames, of any content up to the largest payload, any buffer, any limit of the caller's
and any number of flipped bits, wherever they fall:

- `CodecInvariant`: `Spec => []IInv`, and from it `CodecTypes` (`TypeOK`, with the end of `g_buffer`), `CodecLimit` (`OneByteOver`),
  `CodecRoundTrip` (`RoundTrip`), `CodecResynchronizes` (`Resynchronizes`) and `CodecDetectsDamage`
  (`DetectsDamage`, which is about at most one flipped bit by its own hypothesis).

Of the command line, for any set of lines of any length:

- `CommandLineTypes` (`TypeOK`), `UsageIsMeaning` (`AsUsed`); `UsageIsAccepted` (`UsageAccepted`: a line that follows the usage
  is refused for want of memory for its file, for a file that cannot be read or for a baudrate that does not exist, and for nothing else);
  `TransferIsReady` (`ReadyToTransfer`: a port the program knows, a size that fits, a file in a transmitter only, and at least the
  one attempt `FileTransfer` assumes exactly when the retries asked for are not `INT_MAX`).

**The data link's argument.** `TypeOK` is not inductive by itself: the number of attempts could go
below 0, and a resent data frame could carry packet 0. `CallInv` rules both out. `Window` needs to know what is on the lines. The receiver
moves on when it takes a data frame with its own parity; that this is the transmitter's current frame and
not a copy of one before follows if, whenever the receiver is ahead, all data frames on their way are copies of
the frame it has accepted, and whenever it is not, copies of the frame before come first (`CopyInv`). The
transmitter moves on when it takes an RR with its parity; that the receiver has moved on follows if there
is never an RR on its way unless the receiver is ahead, and then a single one (`ReplyInv`). `FreshInv` lets
`transmitter_connect` set the number to 0: until a first connection nothing has moved. In `DataLinkProofs`,
`Follows` says that a line has lost some of its first frames and got at most one more at its end; `Kept` shows
that such a change keeps the invariant when the added frame is neither an RR nor a data frame of another
number. It covers every action but two, which `ConfirmKeeps` and `AcceptKeeps` deal with.

`InOrder` and the refinement need to know which packets the frames carry: those on their way are in the order they were
written (`CarryInv`), one that the receiver will take is of a packet later than every confirmed one
and not earlier than any delivered one (`NewInv`), and what was delivered has been confirmed once
the receiver is not ahead (`DeliveredInv`). The proof sorts the steps of `Next` (lemma `Steps`): most are `Silent`,
they change nothing the service shows and add no data frame of a new number; the rest write, accept
or confirm, and are the service's `Submit`, `Deliver` and `Confirm`; a silent step that leaves
`transmitter_write` is its `Fail`.

**The file transfer's argument.** `FileInv` ties the machines to each other through the service: a state of the
transmitter implies confirmations, those imply deliveries (`DeliveryInv`), the first delivery is a start
packet (`StartInv`), and every delivery that did not take the receiver on has cost it an attempt (`RefusedInv`).
`DescriptorInv` adds descriptors and attempts up; `PortInv` follows the saved settings.

`Prefix` says that no byte is out of place although numbers repeat. `PrefixInv` says that there is a number b
of start packets such that data packet s is packet b + s and they hold the file in order (`SentInv`); the received file ends
where the receiver's number says and later packets only can arrive (`TakenInv`); and the receiver is less than a whole
round of numbers behind (`GapInv`): the transmitter gets ahead by one without a delivery only by losing
an attempt, and the receiver misses a delivered packet only by losing one of its own, so with
`max_send_attempts + max_receive_attempts <= sequence_number_modulus` the number in an arriving packet
can agree with the expected one only if it is that packet (`NumbersDiffer`). The default of three attempts on
each side against a modulus of 255 satisfies it.

`Whole` and `LostReal` are about both builds and any modulus, also a small one, so the numbers say nothing by
themselves. `TransferInv` ties the received file to what the service did. Two counts are compared: what was
confirmed and what was delivered. A confirmation takes up a delivery, so if every write that has returned was confirmed,
at least as many packets were delivered (`ConfirmInv`). When the receiver has had no trouble either and there were no more
(`Lockstep`), packet i was the i-th delivered: a delivery then is of the packet that is being written, because it
is later than every confirmed one. `Lockstep` can be lost but never regained (`ServiceStep`), and in it
the receiver has the first data packets, as many as it counts, and an end packet comes only after the last of them
(`CopyInv`). At the end `Whole`'s hypotheses are `Lockstep`.

For `LostReal` the receiver may be in none: packets are missing. `CountInv` says that the receiver has parsed data packet s last,
and that its number differs from s by whole rounds and by what it lags behind: after a wrap the number was reduced, so
some losses are not counted yet. What it has counted and what it lags behind, added up, is at most the
number of packets before s that were not delivered. `CatchesUp` is the arithmetic of one step (the rest
greater, equal or less than the expected one), `PassedOver` the count of the packets it skips.

**The reader's argument.** `SerialFraming`'s `IInv` says which byte can follow which on the line: a flag, or the
byte of a frame after the one before it, so that frames stand one behind the other, the last perhaps cut short (`Order`);
what the reader's loop and buffer have to do with the last byte it read, in particular that the buffer holds the beginning of a
frame that was written unless a read has failed (`InStep`); and that the frames the reader has dropped, and the
one that a flagged alarm is about to cost it, are at most as many as the alarms and the failed reads (`Accounts`).

**The codec's argument.** The bytes are data, and what the code does with them is computed by recursive
functions: `StuffedBytes`, `Bcc`, `Rounds`. No induction theorem can be instantiated, but a set of numbers has
a least element (`Least`, from the well-foundedness of the naturals, which is stated of sets), and that gives
induction over a set (`Induct`) and that a recursive function does what its equation says (`Recursion`,
applied in `StuffingDests`, `BccChecks`, `RoundsResults`). With these:

- *round trip*: what is written for a list of bytes is made of units, of one byte or an escape and another
  (`StuffedUnits`), none of which contains a flag (`NoFlagStuffed`). A round of the parser reads one unit
  (`RoundUnit`), so after i rounds it has the first i bytes and their check byte (`RunsIntact`), and it meets
  the closing flag after the last unit, where the check byte has come out last (`UnstuffsIntact`,
  `ParsesBuilt`), or has stopped one byte over the limit;
- *detection*: a flipped bit may turn an escape into a byte or a byte into an escape, after which the parser's
  units are not those that were written, so what it reads cannot be compared byte by byte. But an escaped byte
  and the two bytes written for it have exclusive ors that differ by 93, whatever the byte is (`XorTwins`): so
  the exclusive or of all bytes of a data field as they stand on the line is 0 or 93 when the parser accepts
  it, and is 0 or 93 as it was written (`FieldCheck`). A flipped bit changes it by a power of two
  (`BccChanged`), and no power of two is 0, or 93, so the parser refuses the field (`Rejects`). A flip in the
  header is found by its own check byte; one in a flag joins two frames or hides the first, which
  `DamagedClosing` and `DamagedOpening` show to be refused. The argument needs the parser to stop at the
  closing flag: it does not when the flag is behind an escape that was made by the flip, which is finding 5;
- *the line*: `IInv` says that there are a line W as it was sent, on which frame k stands where `Layout` says,
  a line V that differs from it in the flipped places, and a place p up to which the receiver has read V.
  Without damage p is between two frames or behind the flag that opens one, and k frames have been received
  (`Clean`); with damage to the first of two frames only, the receiver comes to the flag that opens the
  second, whatever it makes of the first (`Second`): a read has room for more than the first frame, so it
  stops at that flag; with one flipped bit that made no flag it always stops at a flag, and all it has
  accepted was sent (`Single`). The invariant speaks of lines that no variable holds, so no run evaluates it;
  its consequences are the properties of `codec`.

**The command line's argument.** For each flag `parse_args` has the place where it stands last (`Indices`; that the
loop finds it is `LastIndexIsLast`, by the greatest element of a set of numbers), and the variables hold
what the usage gives as far as the calls have come (`Meaning`).

**`DISC` and the receiver.** `BothClosed` needs that a `DISC` on its way to the transmitter comes from a
receiver that is in an exchange of `DISC` or is through with one (`DiscInv`).

**The attempts.** `ToleratesForwardFaults` says that fewer faults than attempts do no harm, and what makes it hard
is that one fault may cost more than one attempt: a REJ has the transmitter send a copy while others
are still on their way, and the receiver rejects each copy of a frame it has accepted. `AttemptsInv` keeps the
account. While the receiver has not taken the frame (`Unanswered`), the attempts used, the REJs on their way back
and the frames that are to be rejected before the first good copy are together at most the faults so far; if no
good copy is left, one attempt fewer than the faults has been used, which leaves one for the timeout. Once it has (`Answered`), the answer is behind
no more REJs than there are attempts. Copies rejected too late to matter to this exchange are carried over to the next, so the frames
on the lines between two calls are also bounded by the faults (`BetweenCalls`), and a call begins within its
budget (`FirstAttempt`). On both sides the proof goes by what a step does to the two lines: for the receiver a frame lost, rejected or ignored
(`Worn`) or the right one answered (`AnswerSent`), for the transmitter a REJ or a timeout that has it send again (`NextAttempt`) or the answer (`AnsweredHead`).

**Only model-checked**: what needs fairness (`ExchangeReturns`, `TransmitterEnds`, `ReceiverEnds`, `CallReturns`),
which is out of the prover's reach; and the comparison with the drafts (`EarlierAgrees`, `DraftNeedsNoFlag`), whose modules use
the bitwise operators and recursion of the libraries, which its backends do not support.

## Not modelled

- the test drivers `data_link_test.c` and `serial_port_test.c`: programs for two machines, read for what they
  expect of the data link;
- the drafts in `working/` but for their framing, and the course examples in `example_code/`: not part of the
  build, and the rest of each is an unfinished copy of what is modelled above;
- `receiver_stats` and all other output;
- time: an alarm that is set again on every round of a loop is as good as one still
  pending, so a line that keeps bringing bytes and puts the timeout off for ever has no counterpart;
- a short `fwrite`, which nobody looks at: the file would be shorter by what is missing.

## Plan

The plan was to model from the protocol outwards, and each step is done: the data link with its service, the
codec, the proofs of `Window`; the file transfer over the service; framing under alarms; the command
line; the proofs of order, of the refinement, of the attempts against the faults, of the received file and of its losses, of the frames the
reader hands over, of the codec and of what the usage promises.

What could follow: `FrameCodec` over the byte-wise reader of `SerialFraming`, which meet only in what they
hand to the parser; a notion of time for the alarm.
