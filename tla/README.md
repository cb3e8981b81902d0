# Verification of diam

`diam` is a Diameter client library in Go: it keeps one TCP connection to a peer
alive, exchanges capabilities, replies to watchdogs, encodes and decodes messages with
the help of dictionaries, and fills messages from text templates. This directory
holds TLA+ models of it, TLC runs over small instances, and TLAPS proofs for every
value of the constants. Paths are relative to the root of the repository.

## 1. The system

| Part | Source | State | Operations |
|---|---|---|---|
| TCP endpoint | `src/conn/conn.go` | `state`, `Conn`, the channels `mgmt_ch`, `rcvd_ch`, `write_ch`, per goroutine its position and local variables | one goroutine in `Start`: `init` (dial until it succeeds, set `state`, set `Conn`, report `tcp_up`), `readLoop` (read, cut into frames, push); ten `Writer`s |
| Framing | `readLoop` | `collect` and its backing array, the slices handed out | append what was read, cut off complete frames, discard on a bad version |
| Diameter connection | `src/conn/diamconn.go` | the channels to the endpoint and to the application | ten workers, each one `select`: a frame (CEA: event to the owner; DWR: reply; else: decode and hand over), a message to send, `tcp_up` (send a CER) |
| Session-Ids | `Gen_Session_Id` | `run_ind`, `start_time`, `mtx` | called by goroutines of the application |
| Message identifiers | `next_h_by_h`, `next_e_to_e` | `hop_by_hop`, `end_to_end`, no lock | called by the workers |
| AVPs, messages | `src/diam/avp*.go`, `message.go` | slices of AVPs that messages may share | construction, `AddAVPs_*`, `FindAVP`, `SetIntValue`, `Encode`, `Decode`, `ToString`, groups |
| Dictionary | `src/diam/dict.go` | `dict`, `avp_enums`, `cmd_codes`, `app_ids` | `Init` from JSON files, four look-ups |
| Templates | `src/templ/diam_template.go` | `templates`, `template_headers` | `Init` from text files, `FillTemplate` |
| Logging, constants | `src/mlog`, `src/diam/const*.go` | - | not modelled |

The application is not part of the repository. It makes `send_mess_ch`,
`rcv_mess_ch` and `mgmt_diam_conn` and is on the other end of them; the peer is on
the other end of the socket.

**How the parts interact.** Reader -> `rcvd_ch` (100) -> workers -> application, or
back through `write_ch` (100) -> Writers -> socket. `tcp_up` is a rendezvous between
`init` and some worker. `state` and `Conn` are plain fields written by the reader's
goroutine and read by the Writers. Workers read the dictionary when they decode. It
and the templates are loaded before a connection is started and only read afterwards.
A message the application sends is copied into the channel, the array of its AVPs is not.

**What is hard.** Twenty-one goroutines with unsynchronised fields; messages queued
for one connection and written to the next; a back-pressure cycle through the peer;
frames that share memory with a buffer that is still growing, and messages that share
it with lists and with each other; lengths, times and counters that run over; parsers
that accept what they mean to reject. `hazards` in `PROJECT.json` lists each at its
line with the properties aimed at it.

**What makes each part correct.** The endpoint and the workers: every frame and
every message taken in comes out exactly once or is given up visibly; nothing about a
connection goes out on an older one; nothing is lost while a connection is up, except
on the old one; no goroutine waits on another for ever; the endpoint reconnects and
introduces itself, and answers the peer's watchdogs (it does not: section 3). Framing: whole
frames, in order, untouched later, none left lying.
Identifiers: distinct as far as the code can make them. Codec: decoding undoes encoding,
a relayed message keeps its octets but for what was changed, printing shows every AVP where
it belongs.
Sharing: what a worker writes is what was sent. Dictionary: the last entry decides.
Templates: the message is the tree and the header the file draws.

## 2. The modules

* **`TcpConn`** - state and actions of the endpoint, network and peer; no
  specification of its own.
* **`DiamConn`** - EXTENDS `TcpConn` with the workers and the application; the
  specification, its fairness and its properties. **`MCDiamConn`** adds symmetry.
* **`Handoff`** - the abstract specification of "accepted things come out once or
  are given up once". `DiamConn` implements it twice, for frames (`Incoming`) and for
  messages (`Outgoing`), by INSTANCE ... WITH a mapping that collects what is inside.
* **`Intake`** - the abstract specification of reading a stream of frames: handed on
  one by one in order, skipped only on a broken connection, nothing kept over a
  reconnect. `Framer` implements it with bytes and slices; `DiamConn`, whose step
  `ReadSome` takes "the next n frames", implements it with whole frames.
* **`SessionIds`**, **`MessageIds`** - the identifiers, one step per load and store.
* **`Framer`** - the inside of one read, over an explicit heap of arrays.
* **`Codec`** - messages as octets, with base `B` in place of 256: a sender that puts a
  message together and encodes it, a receiver that decodes it.
* **`Relay`** - EXTENDS `Codec` with what the receiver does next: look up, set and read
  integers, pass the message on, print it. **`MCRelay`** is the instance of both.
* **`MessageSlices`** - which messages and lists of AVPs share an array.
* **`Dict`**, **`Template`** - loading and using the two kinds of files.
* **`DiamConnProofs`**, **`FramerProofs`**, **`CodecProofs`**, **`MessageSlicesProofs`**,
  **`DictProofs`**, **`TemplateProofs`** - theorems about the module each is named after;
  **`IdsProofs`** - about `SessionIds` and `MessageIds` both; **`Numbers`** - lemmas on
  quotients and remainders, induction over a set of numbers, and functions defined by
  iteration, for the identifiers, the codec and the templates.

Every module names its bounds in the comments of its CONSTANTS. `PROJECT.json`
("map") gives the lines behind each definition. Operators commented "Fault:" are not
part of any specification: each is a changed form of the operator defined below it,
and one of the properties fails when it takes that operator's place.

### DiamConn and TcpConn

One action per step another goroutine can see. The manager (`mpc`) goes dial -> up ->
assign -> notify -> read -> push; `SetUp` and `SetConn` are separate because Writers read
both fields without a lock. A Writer (`tpc`) takes a message, tests `c.state`, loads
`c.Conn`, writes. The test `c.Conn == nil` and the load for `Write` are one step: the
field is never set back to nil. A worker (`wpc`) takes something from a channel and
blocks on the channel its handler ends with. A worker's choice among ready channels is
free, as in Go's `select`.

A frame is its kind and an identity; `conn` records the connection it was sent on, or
the connection that a message of ours is about. The code has no such field. The peer
answers capabilities only after a CER has arrived. A connection ends at any time and
takes an arbitrary suffix of the unread frames with it. `WriteHalfClosed`: the old
socket is never closed by the code, so a peer that has only shut down its own sending
side may still receive a late write. Such a Write may also be held up for as long as that
peer does not read (`WriteHeld`), whatever becomes of the connections after it: the Writer
is lost to them meanwhile, as it is while the network of the current connection is full.

Of the octets of a message of ours `OutMsg` has what the peer can tell apart: its kind, the R
flag (`request`) and its identifiers. `GenMess` is called with the arguments of the code, so
that `DWA`, like `createDWA`, makes a watchdog message with the R flag set.

### SessionIds, MessageIds

`SessionIds` splits `Gen_Session_Id` at every statement; `Restart` kills the process at
any point. `MessageIds` splits `c.x = c.x + 1; ...; return c.x` into load, store and
reload. `overlapped` remembers on which counter two calls were ever under way together.
The names of `SessionIds` that `MessageIds` also needs start with `Session` or `session`, so
that one module can speak of both.

### Framer

A slice is [arr, off, len] over `heap`. `Appended` is Go's `append`: into the array
while it has room, else into a new array with an arbitrary amount of spare room.
Two assumptions about the peer limit what the properties of this module say. Length fields
are well formed (at least a header): with a smaller one the code cuts off what is no frame,
and with 0 its loop hands on empty slices for ever. A byte that is not the first of a frame
is not 1 where the reader looks for a version after a discard: if it is, the reader takes the
middle of a frame for its start and stays out of step. `rcvd_ch` has no bound here: that the
reader gets on is what `EverythingDrains` of `DiamConn` is about.

### Codec, Relay

`data` is <<n>> or octets, `avps` the members of a group; floating-point AVPs are integers
of the same width. What recurses is a function: `Encode_group` on the depth of nesting,
`Decode_AVPs` on the octets, so that something can be proved about it. `Decode_AVPs` models the early returns and marks a slice out of range with
`Panic`; data shorter than its format (an AVP sent with another format than the
dictionary's) is 0 for the formats read through `binary.Read` and a panic for the
others. Octets have 8 values in the run: lengths run over at 512 and 32-bit integers at
4096, within TLC's integers.

In `Relay`, whose steps beyond `Codec`'s leave the variables of `Codec` alone,
`FindAVP` is `Message.FindAVP` followed by `AVP.FindAVP` in what was found; its result
is a place in the message, and `SetIntValue` changes the message there, as it does
through the pointer. Printing gives a sequence of lines; a line has its level, the key,
the flags and the value with the verb it is printed with. `avpToValue` prints numbers, times
and addresses as digits and an OctetString in hexadecimal, but a UTF8String as it is. So the
lines a reader sees (`TextLines`) are more than those printed if a string has a line break
in it, and what follows the break may look like the line of an AVP (`LineTexts`), which the
run has an example of. `PrintedInFull` reads the
lines back, by their indentation (`Reread`): a line and those further in below it are an
AVP and its members. An AVP that has no line, or a group without the lines of its members,
would not be read back. The property asks that no string has a line break in it and nothing is
floating point, where a NaN prints without its bits (`SeenWhole`); without the first TLC finds
a message whose lines show an AVP it does not have. As for `RelayedUnchanged`, no AVP may be in
the dictionary under another format than the sender's, unless that is a string.

### MessageSlices

`heap` as in `Framer`, a cell for an AVP. The application has variables for messages and
for lists of AVPs and calls what the package offers on them; workers take copies of
messages and encode them one AVP at a time. `meant` is what an application that takes
messages for values believes its variables hold; `unsure` collects those the code makes
no promise about: a message and what it was copied from or made of, a message changed
through a pointer older than its last `AddAVPs`. What the two properties say is that
nothing else needs to be on that list.

### Dict, Template

`Dict` has one step per entry; the loop over the names of an Enumerated AVP leaves open
which of two keys with the same number wins, as Go's map order does. File boundaries do
not matter and are left out. `Template` reads header lines pair by pair and AVP lines; a
line that fails one of the textual checks (tabs, spaces, quotes, types, numbers, braces
that cannot be taken apart) is the action `BadLine`. An expression is a record of what is
written between the braces. `Converted` has the conversion of each kind of type with
what it falls back to; a bad address panics (`Panic`), and the process ends. `collectRow`
is a recursive function of where a part of the rows starts, its level and where it ends; the
code cuts a slice for each group instead (`GroupEnd` is the end of the cut).

## 3. The runs

| Run | Instance | Distinct states | What it shows |
|---|---|---|---|
| `conn_safety` | 2 workers, 2 Writers, channels of 1, network of 2, 2 connections, 2 frames, 1 send | 2.1 million | hand-off, intake as a stream, causes, losses, no internal deadlock |
| `conn_live` | 2 workers, 1 Writer, 2 connections, 1 frame, 1 send | 92 000 | liveness |
| `session_ids` | 3 callers, counter mod 3, 4 ids per life, 2 lives | 5 700 | Session-Ids |
| `message_ids` | 2 workers, counters mod 3, 4 messages | 490 000 | message identifiers |
| `framer` | header 2, frames of 2 or 3, reads up to 4, array of 5, 3 frames, 2 connections | 81 000 | framing, memory, the stream, progress |
| `codec` | 2 AVPs of 17 kinds, 2 nested groups | 240 000 | encoding, changing, printing |
| `message_slices` | 2 messages, 1 list, 2 workers, 6 calls, up to 2 spare cells | 3.6 million | shared arrays |
| `dict` | 13 kinds of entry, 4 entries | 59 000 | look-ups |
| `template` | 2 files, 5 lines, 4 levels, 5 types, 14 values, 6 header pairs | 1.6 million | groups, values, headers |
| `conn_watchdog`, `template_jump`, `dict_member` | small | - | findings, below |

**Why the bounds are enough to be interesting.** Two of each kind of goroutine give
every race between two; capacities of 1 and 2 make every channel and the network full;
two connections give a reconnect with work of the first still inside; two frames are in
`collect` at once (a smaller network would hide an error in their order). Two
frames are enough to block both workers at the application, with the `tcp_up` event of the next
connection behind them, and with the send and both CERs there are messages to block both
Writers at the peer, on the same connection or on both, with more behind them. The reader
in front of a full channel with all workers blocked takes four frames, too many for the run;
`NeverBlocksItself` (section 4) proves `NoInternalDeadlock` for that too. Counters mod 3 run over
within 4 calls. The array of 5 bytes fills up in the middle of frames of 3.
The codec's strings reach the longest length that fits and one octet more; AVPs are
changed in messages of up to `MaxChange` octets, which leaves out only those with the
long strings. Six calls are enough to make a message and a list, join them, make or
change something else and send, with and without room in either array.

In `Template` five lines on four levels give a group in a group in a group, followed by
lines further out. Every line of a form other than a group or a fixed text counts three
times against `MaxRows`, and so does every pair of a header other than the plainest
(`PlainExprs`, `PlainPairs`): the run has every nesting of plain lines, and every kind of
value, parameter and pair inside and outside a group, in the first file or the second,
but not their product.

**Fairness.** In `conn_live` and `conn_watchdog`, Go's scheduler runs every goroutine that can run: weak
fairness for the manager, for each Writer and each worker. The application receives from
its two channels and the peer reads its socket: weak fairness, an assumption about them. The
peer of an earlier connection that was not closed reads what is held up there, or goes away:
weak fairness of the Writers that are held up, an assumption as well and stated apart from
that of the other steps of a Writer.
The peer accepts some of infinitely many dials: strong fairness of `DialSucceeds`. The
application and the peer need never send, and no connection has to end. Liveness of a
connection is stated up to its end (`... \/ ~Live(c)`). In `framer` only the goroutine of
`readLoop` is fair; its sends to `rcvd_ch` do not block there, which `EverythingDrains`
justifies for an application that receives.

Deadlock checking is on in every run but `message_slices`, whose application may simply
have made its last call; in the others the states in which a model may stop have a
disjunct of their own (`Idle`, `Stopped`, `Done`, `Finished`, `Exited`).

### Findings

1. `template_jump`: the check for a "misaligned row" looks at steps of one level only. A
   line that jumps in by two is accepted and left out of every message.
2. `conn_watchdog`: `createDWA` passes true for the R flag (`diamconn.go:236`), so the reply to
   a watchdog request is another request. On a connection that stays open every request gets
   such a reply, with its identifiers (`WatchdogRepliedTo`), and none an answer
   (`WatchdogAnswered`).
3. `dict_member`: `dict_vodafone.json` names its values in a member "enumerated";
   `Init` reads "enumarated". The names are never found.

Behaviour worth knowing that contradicts nothing the repository says: messages queued
before a connection was lost are written to the next one, possibly before its CER;
entries with a code or vendor from 10^6 on are never found; overlapping calls give out
equal hop-by-hop or end-to-end identifiers; a key of an enumeration of which `Dict.Init`
logs that it "cannot convert" it is entered under 0 all the same; `AddAVPs_Head` may put
the AVPs of a message into the array of the list it is given, so that a list used for two
messages joins them; an AVP found before `AddAVPs` may no longer be the message's; a header
without a command code makes messages with command code 9999; a string with a line break in it
prints as several lines, which may look like further AVPs; a Writer may be held up on a
connection that was replaced long ago.

## 4. The proofs

TLC checks instances; the theorems hold for every number of goroutines, capacity and bound
that satisfies the assumptions on the constants: `TcpAssumption` and `DiamAssumption`
(channels have room for one item, there is a worker and a Writer), `SessionIdsAssumption`, `FreeIsNoCaller` and
`MessageIdsAssumption` (counters have a range), `FramerAssumption` (a header has an octet, a
frame a header, a read returns something), `MessageSlicesAssumption` (a variable is not both
a message and a list), `DictAssumption` (codes and vendors are natural numbers, as in the
protocol; an entry is an AVP's or a name's, being in different members of the file),
`TemplateAssumption` (files have different names; a line has a type, and a value unless it is
Grouped; the empty text is no number; braces without a parameter hold an action alone),
`CodecAssumption` (an octet has two flag bits, so `B` is a multiple of 4; what the sender
makes are values of the Go types). Each inductive invariant was first checked by TLC on the
instance of the module's run; of `CodecInv`, which speaks of all octets that could follow,
TLC checked what it says of the whole message (`RoundTrip`, `RelayedUnchanged`,
`WholeWords`, `HeaderOnTheWire`), and of `TemplateInv` what it says of the keys and values that
occur.

**`DiamConnProofs`.** `IndInv == TypeOK /\ ManagerInv /\ CauseInv`. `CauseBeforeWrite` is
not inductive: it needs that whatever is queued, held or collected anywhere is about a
connection that `c.Conn` has already reached (`CauseInv`), which needs that `c.Conn`
only grows and that frames are read only after `SetConn`, so the manager's program
counter has to be tied to `state`, `Conn` and `dials` (`ManagerInv`). One lemma for each
kind of goroutine shows that its steps keep `IndInv`, with one step per action. Results:
`TypeCorrect`, `NothingBeforeItsCause`, `EstablishedState`, and the action property
`LossOnlyOnOldConnection`.

**`DiamConnProofs`, second part.** The two abstract specifications, each implemented step
by step. For `Intake` the mapping needs, on top of `IndInv`, `StreamInv`: the manager dials only
after the connection was closed, and `collect` holds frames only while they are being pushed.
Lemmas say what `Ids` makes of frames appended, removed and cut off; then there is one
lemma for each kind of goroutine, in which every action is a step of `Intake` or leaves its
variables as they are: `ManagerReadsFrames`.

`NoInternalDeadlock` names the conditions under which a goroutine can go on (`CanRun`), written
out from the guards of the actions since ENABLED is out of the prover's reach. From the types,
`ManagerInv` and `StreamInv`: if no goroutine can go on and nobody waits for the application or the peer, all Writers are at `write_ch`, so it is empty and no worker is
blocked on it; then all workers are at their `select`, so `rcvd_ch` is empty, the reader is not
pushing, and nothing is left inside (`NeverBlocksItself`).

For `Handoff` a step may only move something from inside to outside if no second copy stays
inside. `FramesApart`: a frame is in one place only, and there once: on the wire, among those
to be pushed, in `rcvd_ch`, with one worker, or handled; and what the peer sends next is
new. `MessagesApart` says the same of messages in `write_ch`, with a worker or with a Writer;
that a new message is nowhere yet follows from the messages ever made (`MessagesMade`): one CER
for each connection `init` has reported, one reply for each watchdog request a worker replied to. Both are inductive together with `IndInv` (`StayApart`), and give `FramesPassedOnce` and
`MessagesPassedOnce`.

**`IdsProofs`, Session-Ids.** Mutual exclusion over the program counters (`Exclusion`), the
counter as the number of increments modulo `RunMod` (`CounterInv`), and the ids issued and
in flight as values of that function, no two from the same increment (`IssuedInv`). With
lemmas on quotient and remainder, `SessionIdsUnique` follows: two ids of one life with
the same `run` are `RunMod` calls apart. `SessionTypeCorrect` is the first conjunct.

**`IdsProofs`, identifiers of messages.** Without a lock the counter is not the number of calls. What is left:
identifiers handed out and calls under way are together as many as the calls begun, which are
no more than the messages made (`CountInv`); the counter and every value loaded lie in the window of the calls begun
(`WindowInv`), which gives `NoneInvented`; and as long as no two calls on a counter overlapped
it is that number, modulo its range, and identifiers handed out belong to different calls
(`SerialInv`), which gives `DistinctWhileSerial`.

**`FramerProofs`.** The bytes of `collect` followed by those on the wire are one stream
(`FlowInv`): frames of this connection in the order sent, whole but for the first after a
discard and for the last once the connection has ended. Reading moves bytes within it,
cutting and discarding take them off its front. `PartsInv` says that a part handed out that
is in the array of `collect` lies in front of it, so an append in place writes behind it;
together they give `PartsStayIntact`. A frame read to its end has been handed on, or its last
byte is still in `collect` and the loop is not done (`ReceivedInv`): `ReadsWhenNeeded`.

The mapping to `Intake` takes the first bytes of frames in that stream, in their order
(`FramesIn`). Lemmas about it: counting off with `Begin` lists them in order (`BeginLists`),
whatever lists them in order is that list (`ListIsBegin`), so the frames of two streams put
together are those of the first and then those of the second (`FramesJoined`). With what each
action does to the stream, reading is a stutter, `CutFrame` hands on the first frame, sending
appends one, and what `Discard` and the end of a connection take away lies at the front or at
the end: `ReadLoopReadsFrames`.

**`CodecProofs`**, about `Codec` and `Relay`. `CodecInv` says of the message under construction that it encodes to
whole words of octets (`Built`) and that a receiver reads it (`Readable`): if it fits and the
dictionary has each AVP in the sender's format or as octets, there is a list `r` with the
same octets, and in front of whatever octets the receiver can go on with, it reads `r` and
then the rest; if the dictionary knows every AVP made, `r` is the message. That something may
follow is what makes this inductive: an AVP at the end, one at the front and a group around
all of it each preserve it (`ReadableTail`, `ReadableHead`, `ReadableGroup`). From it and the
places of the header's fields (`MessageParts`, `HeaderBack`) follow `DecodedAsPutTogether`,
`PassedOnUnchanged`, `HeaderReadBeforeDecoding` and `EveryAvpFillsWords`, for any number of
AVPs, any nesting, any strings, and any size of an octet, 256 included.

The induction over the message is thus one over the steps that build it. The other
inductions are over numbers: a set that has 0 and with every number the next has all of them
(`SetInduction`, from the least number it lacks). With it the recursive functions exist:
`Iteration` for powers and prefixes, and for `AVPs`, `Encode_group` and `Decode_AVPs` the
union of functions that agree on what is less deep or shorter. Lemmas on digits give
`UnsignedRoundTrip` and `SignedRoundTrip` (an integer comes back from the octets of its
width, two's complement included), `ValueBack` the same for each format, `FindsParts` that
`Decode_AVP` finds in octets what `AVP.Encode` put there, the flags in the octet they share
with the top of the length included.

`ChangesOneAvp` is about the message a receiver has changed. `Received` are the AVPs as a
receiver can have them; a list of them is read as it is (`SelfReads`), so an AVP changed into
another of them would already be decoded right. But `SetIntValue` may leave a value that no
receiver has, a time out of the era or a string of another length. So the changed AVP is
replaced by one with the same octets that is in `Received` (`SetIs`), and lists that differ
in such AVPs have the same octets at any depth (`AlikeAtPlace`). Places are followed by `Way`
through groups, with lemmas for what `FindAVP` finds (`FindLeads`), and for replacing at a
place what was replaced there before (`WithTwice`), which puts the old AVP back. Integers
that are cut off come back exactly if the format holds them, since octets determine the
integer (`UnsignedInjective`, `SignedIn`, `IntegerSet`). `RelayInv` adds to `CodecInv` that
what was changed was found and set in what had been received. `ChangedOnly` asks that both
messages fit into their length fields and that the sender's formats are the dictionary's or
strings in it, as `RelayedUnchanged` does. `RelayKeepsCodec`: `RelaySpec` implements `Spec`,
so the theorems about `Codec` hold with such an application as well.

`PrintsAllOfIt` reads printed lines back. `PrintsAll` says of a list of AVPs that `Reread` of its
lines is the list, that none of the lines is further out than it was printed, and that it starts
with a line at that level. That ends the block of the AVP before it, whose other lines are
further in (`Below`): so a line, its block and the lines of the rest are read back as one AVP
and the others (`RereadBlock`). The
proof is an induction on the depth (`PrintedBack`), with one on the length of a list inside
(`PrintedList`). One line shows all of a received AVP but its members (`ShownBack`): the
V flag is not printed, but is set exactly if there is a vendor, and the format is not, but is
the dictionary's. Since what is read back is the list that was received, its octets are those
that came in by `PassedOnUnchanged`. What is seen are the printed lines, since none
has a break in it (`SeenAsPrinted`). `RereadAsStep` and `PrintSteps` say that the two recursive
functions exist, as before.

**`MessageSlicesProofs`.** Who has an array. Two variables that share one are unsure
(`SharingInv`); so is one that has the array of a pointer, or of a message under way, without
being the variable that came from (`PointerInv`, `JobsInv`). A message under way lies at the
front of whatever has its array, so that an append writes behind it. With these `OwnContents` is inductive, and
`ContentsAsBelieved` and `WrittenAsSent` follow.

**`DictProofs`.** For each key of each map, the place in `loaded` its value comes from is the
last of the entries that give one (`EntriesInv`, `EnumsInv`, `NamesInv`). A key of the files
determines code and vendor, and what is looked up is a key of the files only below `ExpLimit`
(`KeysApart`, `KeyLookedUp`). `LastEntryCounts`, `EnumNamesAccumulate` and
`KindsKeptApart` follow.

**`TemplateProofs`.** `collectRow` goes forward from a row to the next one of its level;
`Drawn` looks back from a line to the last one further out. What connects them is the span of
a line: the lines after it that are further in, up to the first that is not (`Span`). Where
levels do not jump, the rows a call of `collectRow` takes up are the lines whose parent is the
line before the span (`RowsOfACall`); the part of the rows that a Grouped one takes is its own
span (`SpanOfAGroup`); and every other line of the span is in one of these parts, that of a
Grouped line (`NoLineLeftOut`, where the check for misaligned rows is needed). The induction is
from the last line to the first (`CollectsDrawnStep`): a call for the lines under p makes what
is drawn under p, or panics exactly if a line of its span has an address that is none. A value
is computed as the line means it in each of the six forms (`ValueMeant`), and only an address
can have no value (`ConvertedPanics`). That both recursive functions exist is shown in the same
direction, each value being made of later ones only (`CollectStepLocal`, `DrawnStepLocal`).
The invariant `TemplateInv` is about reading: the rows and the header so far are those of the
lines read so far of this file and no other, which is what `EndOfFile` has to reset them for;
the files before it are loaded, and when all are read every name has its template (`Filling`).
`HeaderSays` makes the map of the header the last pair for each key (`PairSaid`).
`FillsAsDrawn` follows.

**Only model-checked:** liveness (fairness is out of the prover's reach).

## 5. Plan

1. *Done:* all parts of section 1 but logging and constants; the abstract specifications
   `Handoff` and `Intake` with the refinements; the theorems above.
2. *Left:* nothing that the provers can reach of the properties the runs check. What could
   still be modelled is listed below.

## 6. Not modelled

Logging and the tables of constants, which no other behaviour depends on. Reading
directories, JSON and text, and the textual checks on a template line one by one (I/O and
parsing). The layout of printed lines, and what is seen of a message with line breaks in its strings
beyond that it may be anything. `SetIntValue` and `GetIntValue` on floating-point
AVPs, and the textual forms of addresses and times. Octets from the peer that no encoder
makes: malformed length fields (those below the size of a header, 0 included, which keeps the
reader busy for ever), a byte 1 inside a frame where a version is looked for after a discard, the V flag with vendor 0. `watchdog` and `createDWR`, which
nothing calls. How many sockets are still open: the code never closes one. More than one
`DiamConn` in a process (they share only the mutex `mtx`).
