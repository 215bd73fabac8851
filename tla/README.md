# libmobile: TLA+ specification

libmobile emulates the Mobile Adapter GB, an accessory that connects a handheld
console to a phone.  A console exchanges bytes with the library over a serial
link; the library turns them into packets, executes the commands they carry
(calls, internet connections, name requests, configuration) with the sockets of
its host, and sends back responses.  This directory holds a model of the
library, configurations with which TLC checks it, and proofs about it.

## The system

| Component | State | Operations | Interacts with |
|---|---|---|---|
| Main loop (`mobile.c`) | `start`, `active`, `packet_parsed`, `number_fetch_active`, `number_fetch_retries` | `mobile_loop` = `mobile_actions_get` + `mobile_actions_process`; `mobile_start`, `mobile_stop`, `mobile_init` | calls the command handlers, the relay client, the configuration; reads and writes the serial state |
| Serial protocol (`serial.c`) | `state`, `active`, `mode_32bit`, the packet buffer | `mobile_transfer`, `mobile_transfer_32bit`, from an interrupt or a thread | hands a packet to the main loop (`RESPONSE_WAITING`) and gets the response back (`RESPONSE_INIT`) |
| Command handlers (`commands.c`) | `session_started`, `mode_32bit`, `state`, `connections[]`, `dns2_use`, the progress of the packet (`processing*`) | one handler per command; a handler that returns NULL is called again at the next iteration | socket callbacks, relay client, DNS client |
| Relay client (`relay.c`) | `state`, `processing`, a buffer shared with DNS | polled procedures to call, to wait and to get a number | one TCP socket; the relay token in the configuration |
| DNS client (`dns.c`) | `id`, a buffer shared with the relay | send a query, poll for the answer | one UDP socket |
| Configuration (`config.c`) | device, DNS, port, relay and token, `dirty`, `loaded`; storage with a region of the games and one of the library | load, verify, clear, save, `mobile_config_set_*`; EEPROM_WRITE of the games | a change of relay or token resets the number fetch; the settings outlive the program |
| Socket callbacks (`mobile.h`, `callback.c`) | the implementation's sockets | open, close, connect, listen, accept, send, recv | provided by the host program |
| Addresses (`util.c`, `inet_pton.c`) | none | parse dotted quads, IPv6 addresses and addresses dialled as phone numbers | what the console dials, logs in with and looks up |
| Debug output (`debug.c`) | one line of text | a message per packet and per event | the log callback of the host |

What makes it hard:

* three parties act on the same state: the interrupt handler, the main loop and
  the user; `mobile_actions_get` and `mobile_actions_process` look at state that
  the interrupt handler may change between them;
* a handler is a state machine that survives between iterations, in memory that
  is a union with the serial buffer, and may be cut off by a drop, a stop or a
  change of configuration at any of its polls;
* slot 0, the relay state, the network buffer and one timer are shared by the
  number fetch, a waiting call, a call and name requests;
* `mobile.h` promises the host that certain calls are never made ("libmobile
  shall never do this"), and the library keeps that promise only through the
  agreement of `state`, `connections[]`, the progress of the packet and the
  relay state.

What makes each part correct: the socket contract (sockets); no two users of a
shared resource at once (relay, DNS, number fetch); every packet answered, and a
packet in progress forgotten when its exchange is (commands, main loop); the
mode of the port what the host was told and never changed within a packet
(serial); what is handed over and accepted is what was sent, on a line that
garbles (serial); numbers shown to the user withdrawn when they end (relay,
commands); settings in storage when they are said to be, and a half-written
region never loaded (configuration); an address only from an answer to the
question (DNS); a stream understood whatever the pieces it arrives in (relay).

## Modules

| Module | Models |
|---|---|
| `Sockets` | the contract of the socket callbacks (external); a call outside of it leaves a slot `Misused` |
| `Relay` | `relay.c`: connect, handshake, number, call, wait |
| `Commands` | `commands.c`: sessions, calls, data, internet, name requests; `command_handle` of `mobile.c` |
| `Adapter` | `mobile.c`, the packets of `serial.c`, the setters of `config.c`, time; the specification and its properties |
| `Exchange` | abstract: what the serial protocol promises the main loop, at the level of packets |
| `Serial` | `serial.c`: every state of `mobile_serial_transfer`, byte by byte, both modes |
| `SerialLink` | `Serial` with a console that retries and a line that garbles (external) |
| `Config` | `config.c`: memory, both regions of storage, EEPROM_WRITE, loss of power |
| `Dns` | `dns.c`: queries, and answers parsed byte by byte |
| `Addresses` | `inet_pton.c`, `util.c`: parsers, with reference definitions |
| `RelayStream` | `relay.c` and `command_data` of a call, byte by byte, reads and sends in pieces |
| `Debug` | `debug.c`: the line buffer and every message, as lengths of text |
| `Sums` | the additive checksums of `serial.c`, `mobile.c` and `config.c` |
| `MC...` | commands, packets, answers and other constants of the runs |

| Proofs | About |
|---|---|
| `AdapterProofs` | `Adapter`, in three parts: types, the hand-over of packets, the mode of the serial port, `Adapter` implements `Exchange`; the slot discipline and the socket contract; the numbers the user is shown, the shared network buffer, the DNS server that is tried first |
| `SumProofs` | `Sums`: induction, and what a sum notices |
| `SerialProofs` | `Serial`: array bounds, checksums, `Serial` implements `Exchange`; `SerialLink`: retries |
| `ConfigProofs` | `Config`: what storage holds, torn writes, the games' data |
| `StreamProofs` | `RelayStream`: answers and data in pieces, `RelayStream` implements `Relay` |
| `DebugProofs` | `Debug`: the line buffer |
| `DnsProofs` | `Dns`: what is made of a name, how it is read back, and what is taken from an answer |
| `AddressProofs` | `Addresses`: texts that are addresses, dotted quads, IPv6 addresses |

### Adapter

`Sockets`, `Relay`, `Commands`, `Adapter`: each module extends the one before it; the variables are the fields of the C
structures, under their names where TLA+ allows it.  A few carry less than the C
field: `config_relay` and `processing_addr` only the type of an address,
`connections` the table, `sock` what the host's socket is, `net_buffer` who wrote
the union last, `arg` the contents of a packet that the handlers branch on.
`user_number` and `peer_number` say whether the host was last told a number or
NULL.  Definitions marked "Mutant" are deliberate faults that show that a
property can fail; no other definition uses them.

Steps:

* a handler is an action with a parameter `reply` ("pending", "ok", "error"); it
  runs while `serial.state` is `RESPONSE_WAITING`, when the interrupt handler
  only polls, so a call of it is one step;
* `mobile_actions_get` is two steps (`ActionsLatch`, `ActionsCollect`) because the
  interrupt handler may run between the latch and the tests;
  `mobile_actions_process` is one step per action it may take;
* the serial protocol is at the level of packets: a packet starts
  (`TransferStart`), is dropped (`TransferDrop`) or is complete
  (`TransferPacket`); the response is fetched (`TransferResponse`) and
  acknowledged (`TransferAcknowledge`); any other byte is `TransferByte`;
* a poll of the relay is one step with a result `rc`; what the server sends, and
  in how many pieces, is nondeterministic;
* a timer holds the last limit that it has passed.  `TickSerial` and
  `TickCommand` move it to the next one, between iterations, which includes any
  delay of the loop.  The command timer stands still when nothing can read it
  before it is latched again.

What memory holds when it should not be read is made visible: the response and
the next packet overwrite the progress of a command (`"clobbered"`), and
`connections` is arbitrary before the first session because nothing sets it.

Assumptions: `mobile_config_load` happens in `mobile_start` and finds any
configuration; a send that returns 0 fails, any other result is a success, as the
code has it.

Five constants describe what the environment may do beyond ordinary use, which
`port`, `outside` and the deviations below let it do: `OutsideCommands`,
`FetchOpenMayFail`, `UserMayReinit`, `UserMayWithhold`, and `UserMayInterleave`
(the user configures the library between `mobile_actions_get` and
`mobile_actions_process`).

### The bytes

`Serial` has one action per state of `mobile_serial_transfer`; in 32-bit mode a
call takes four of them, and `word` holds the replies of the call under way, so
that the main loop can be let in between (`Threads`).  The counters share memory
with the progress of a command, so `SerialRespond` leaves them arbitrary
(`Leftovers`).  `SerialLink` adds the other end: an exchange moves a unit in both
directions at once and the console gets the reply to its previous unit
(`mobile.h:502-503`); the line garbles at most `MaxFaults` bytes, to any of
`Noise`; the console refuses responses that are not intact, and `MaxNaks` that
are; it starts over when the library has gone back to waiting.

`Exchange` is the interface between the two levels: Serial's states grouped into
phases implement it, and so does Adapter's `serial_state`.  Adapter is a little
stricter than the bytes: after an acknowledgement in 32-bit mode the rest of the
word may begin a packet although the mode is to be switched; `Exchange` and
`Serial` have that step.

`RelayStream` runs the client against a stream: `relay_recv` gets any part of
what is there at each poll, the server answers well or badly, and the peer's data
follow the last answer.  `ImplementsRelay` says that each poll is one of `Relay`
with the same result, so what is proved of `Relay` in `Adapter` carries over.
`command_data` is modelled for a call; `Commands` has the internet case, and the
result -10 of `sock_recv` (echo) is left out.  After an error the game hangs up.
Of the server it is assumed (`AnswersAssumption`) that it stops at the end of a
well formed answer; an answer that is not well formed may be anything.

`Config` keeps the library's region as 11 cells, each the consecutive bytes of one
setting that storage is taken to write together (an address's type, its host, the
token; the port, written a byte at a time, has two), and each holds the sum of its
bytes, so that the additive checksum is what it is in the code.  A torn write
leaves the first cells new and the others old; a tear inside a cell is not
modelled.  The games' region is two halves, tied together by a checksum.  Power may be lost at every step, and `mobile_init` begins again.

`Dns` and `Addresses` are pure but for the order of events: names, answers and
strings are built from small alphabets, the parsers are recursive functions over
the bytes.  `Debug` replaces each text by its length, since its properties are
about where the text goes.

## Runs

| Run | Instance | Checks |
|---|---|---|
| `calls` | 1 slot, IPv6 relay, IPv4 DNS; calls, waits, login, name requests, the number fetch | types; the socket contract; the slot discipline; no number fetch in a session; the shared network buffer; the relay is never polled in a state it does not expect; the number of a peer is withdrawn with the call, the user's own with a change of the settings and by nothing else |
| `internet` | 2 slots, no relay, 4 DNS addresses of two types | the socket contract; the order of the DNS servers changes only when one answers, which is then preferred |
| `port` | withheld actions, a user between the halves of `mobile_loop`, a second `mobile_init`, CHANGE_CLOCK outside a session | a parsed packet belongs to its exchange; the host knows the mode; `Adapter` implements `Exchange`, so the mode never changes within a packet |
| `live` | 1 slot, no relay, with fairness | every command is answered; a silent session is dropped; a mode change completes |
| `serial` | 6 packets through both modes, 2 devices, 1 garbled byte, 1 refused response | types and array bounds; a packet is handed over, and a response sent, with its sum; what is handed over and accepted is what was sent; a refused response is sent again; every packet is answered in the end; `Serial` implements `Exchange` |
| `config` | settings one by one, 2 versions of a game's data, 1 loss of power, 1 failing call of storage | clean settings are in storage; a torn region is refused; the games' data are cleared only when not valid, and never within a session; a game cannot reach the library's region |
| `dns` | 6 names around the limits of a label and of a packet, 2 servers, 3 requests, 9 shapes of answers, late and duplicate | an address comes from an answer to this request; the first one is found; a query is made exactly for the names that fit, and asks for the name |
| `addresses` | texts of up to 8 tokens of one of three alphabets | the parsers agree with the reference, octets of four digits apart; an address is never taken for a name |
| `stream` | 2 procedures, 2 packets, every split of every answer, sends that fail or take a part | answers understood; the peer's bytes kept; a game's data sent once, in order; a procedure whose requests and answers are whole ends; `RelayStream` implements `Relay` |
| `debug` | every command, packets of 12 lengths up to 255 | text and terminator stay in the buffer, the 8-bit index never wraps |

Two more runs expect a violation, a disagreement of the code with a comment or
with `mobile.h` that `PROJECT.json` quotes:

| Run | Violates | Shows |
|---|---|---|
| `outside` | `SocketContract` | `serial.c:80-85` undoes the "stop parsing" of `serial.c:61-67`; a command outside a session reaches handlers whose table was never set up |
| `dns_records` | `AnswerFound` | a record that does not match is not skipped with its data, so an address behind a CNAME record is not found |

### Known deviations

The models have the following behaviour too, each a disagreement with what the
code or `mobile.h` says, and what the passing runs and the theorems leave out.  No run
is kept for them; the change on the right, to the named configuration, makes TLC show
it.

| Where | What | How to see it |
|---|---|---|
| `mobile.c:136` | the number fetch ignores a failed `sock_open` and connects the slot (`mobile.h:246-249`: "libmobile shall never do this") | `calls`: `FetchOpenMayFail = TRUE`; `SocketContract` |
| `mobile.c:22` | `mobile_init` after `mobile_stop` forgets the socket of a number fetch, and the next one opens it again (`mobile.h:574`: "Can be used to reset the library as well") | `calls`: `UserMayReinit = TRUE`; `SocketContract` |
| `mobile.c:211` | actions withheld, as `mobile.h:460-462` allows, let a number fetch start in a session | `calls`: `UserMayWithhold = TRUE`; `SocketContract` |
| `mobile.c:136` | a relay set to none between the halves of `mobile_loop` makes the fetch open a socket for no address (`mobile.h:255`: "IPV4 vs [...] IPV6") | `calls`: `UserMayInterleave = TRUE` and `"none"` in `RelaySettings`; `SocketContract` |
| `serial.c:249` | "If an error happened, retry" (`serial.c:260`): in 32-bit mode the verdict is looked for a word too early, and a refused response is given up | `serial`: `RefusedIsRetried` without `~mode_32bit` |
| `serial.c:284` | `mobile_transfer` and `mobile_transfer_32bit` are "the only thread-safe functions" and "may be called wherever and whenever" (`mobile.h:520-525`), but a response that another thread hands over in the middle of a word begins there, and a console that receives words does not find it | `serial`: `Threads = TRUE`, `MaxFaults = 0`; `RequestCompletes` |
| `serial.c:80` | a size "may not be bigger than 0xff" (`serial.c:54`): the refusal is overwritten, and the low byte is taken | `serial`: an invariant `state \in {"DATA", "CHECKSUM"} => header[3] = 0` |
| `config.c:208` | "Makes sure the configuration has been written" (`mobile.h:448`): a failed write counts as one | `config`: `CleanIsStored` without `failures = 0` |
| `config.c:37` | a failing read of storage is taken for data that are not valid, which are cleared; no document says otherwise | `config`: `GameDataKept` without `failures = 0` |
| `dns.c:160` | the counter of requests outgrows the 16 bits of the identifier, and no answer is recognised any more | `dns`: `IdBase = 2`, `MaxRequests = 5`; `AnswerFound` |
| `dns.c:45` | a name that ends with a dot is followed by one zero byte too many in the query | `dns`: such a name in `SomeNames`; `QuerySent` without `NoEmptyLabel` |
| `inet_pton.c:107` | octets of four digits pass ("max 3-digit", `inet_pton.c:36-37`), in IPv6 addresses as well | `addresses`: `QuadParsed` or `V6Parsed` without its condition |
| `relay.c:107` | a partial or failed send of a request counts as success (`mobile.h:350-353`), and the client waits for the answer to it; also `relay.c:175, 230, 292` | `stream`: `ProcedureSettles` without `sent # meant` |
| `debug.c:183` | "Every line is separate" (`mobile.h:125`): a packet without its first byte leaves its line open; also `debug.c:216, 248, 261, 269, 346` | by reading; `Debug` has the open lines, and `LineFits` holds with them |

Bounds.  `MaxConnections` is 1 where only slot 0 is used and 2 where slots
compete: the code treats slot 0 and "the first free one" apart, nothing depends
on a third.  `MaxData = 1` distinguishes empty, partial and complete sends.
`FetchRetries = 1` stands for the 3 of the code: an attempt left, and none.  Timers have only the limits the code compares them with.
`PppDnsChoices` is every set of servers in `internet`, and one elsewhere.  The
sets of commands are split over the runs so that each finishes in minutes.
`calls` has no change between a relay and none; the theorems of `AdapterProofs` do.

One garbled byte is enough for each field of a packet to be wrong in each
position; two are not tried.  The requests include data that look like the start
of a packet and data of one, four and five bytes, so every padding but two.
`Leftovers` is the value that would do most harm as an index.  `Noise` has no
error code: in 32-bit mode one in the place of a device byte makes the library
repeat its response from within a word.  Nothing is garbled or refused while the
mode changes, when the two sides may clock differently.  Sizes of the relay
are scaled (magic 3 for 5 bytes, token 3 for 16, numbers 3 for 16, buffer the
largest answer), as are labels and packets in `dns` (3 for 63, 80 for 512) and
IPv6 addresses in `addresses` (4 groups for 8); the code only compares them.  In
`config` the user saves one setting before changing the next (`OneAtATime`): a sum
does not notice a tear between two settings that were exchanged in one save, so
`TornIsRefused` has that as a condition.  One failing call and one loss of power reach
every combination of a failure, a loss and what follows them.
The passing runs that end in a deadlock of the model say so: requests,
procedures and strings are bounded there.

Fairness (`live`): the main loop goes on (`mobile.h:486`: "Must be called
regularly"); time passes between its iterations (strong fairness, since the loop
interrupts it); a console that began an exchange fetches and acknowledges the
response.  Nothing is assumed about the network or about a console that is silent.

Fairness (`SerialLink`): the console goes on with what it began and gives up
waiting in the end (strong fairness of its timeout, which other exchanges
interrupt); the library reads every unit (an interrupt handler runs); the main loop
answers (strong fairness: it may find the handler in the middle of a word).

Fairness (`RelayStream`): the main loop polls on and gets at least a byte of what has
arrived, and the server answers a request.  No call is assumed to fail, and no timeout
to strike: a poll that finds nothing leaves the client where it is, so
`ProcedureSettles` says that the client never waits for bytes that are not part of the
answer.  It leaves out requests that were sent short and answers that the server cuts
short, for which the client does wait until its caller's timeout
(`commands.c:385, 393`), and without an end in a wait for a call (`commands.c:548-558`).

## Proofs

The theorems hold for every value of the constants that the named assumptions of
the modules allow: any `MaxConnections` and `FetchRetries` above 0, any commands,
settings, storage contents, packets, answers and sizes.  Each theorem that states
a property of a run goes beyond the bounds of that run.

| Theorem | States | Assumes |
|---|---|---|
| `TypeCorrect` | `TypeOK` of `Adapter` | |
| `ParsedPacketsWait`, `PortModesAgree`, `ModeSwitchesIdle` | a parsed packet belongs to its exchange; the host knows the mode; the mode changes only between exchanges | |
| `AdapterExchanges` | `Adapter` implements `Exchange` | |
| `SlotsDisciplined`, `ContractKept`, `FetchAndSessionApart`, `RelayStaysInStep` | slots, socket contract, number fetch, progress of the relay | `OrderlyUse` |
| `PeerNumberWithdrawn`, `BufferNotMixed`, `AnsweringServerFirst` | number of the peer; shared buffer; what changes the order of the DNS servers, and how | `OrderlyUse` |
| `NumberFollows` | a change of relay or token withdraws the user's own number, and nothing else does | `~UserMayReinit` |
| `IndexesStayInBounds`, `PacketsAreSummed` | every index within its array; sums | |
| `SerialExchanges` | `Serial` implements `Exchange` | |
| `RefusedAreRetried` | a refused response is sent again in 8-bit mode (`SerialLink`) | |
| `SettingsTyped`, `CleanSettingsStored`, `TornRegionRefused`, `GameWritesSafe`, `GameDataSafe` | settings and games' data in storage | |
| `AnswerSafe`, `PeerBytesSafe`, `SentOnce` | answers understood, bytes of the peer kept, data sent once | |
| `RelayImplemented` | `RelayStream` implements `Relay` | no empty number is called |
| `LinesFit` | the line buffer of the log | |
| `QueriesAreSent`, `AnswersAreSound` | queries: within the packet, for the names that fit, for that name; an address comes from a record for the name in the answer to this request | |
| `AddressesAreFound` | `AnswerFound` of `Dns` | `AddressesFirst`, and fewer requests than identifiers |
| `AddressesAreNoNames` | an address is not looked up, and has one family | |
| `QuadsAreParsed` | dotted quads, and telephone numbers that are addresses | no octet of four digits |
| `AddressesAreParsed` | IPv6 addresses: what is taken, and its bytes | no octet of four digits at the end |

### Adapter

`AdapterProofs`, first part.  `TypeCorrect`: one lemma per handler and per action.  The last
conjuncts of `TypeOK` matter to the others: a packet that waits for the main loop
is a command with contents of its kind, so a handler never branches on a field
that is not there.  `ParsedPacketsWait` is inductive as it stands, `PortModesAgree`
with `StoppedPort` (a stopped adapter's loop is not in the middle of an iteration
that would enable the port again).  `AdapterExchanges`: the initial states map to
initial states, and `ExchangeStep` maps each action to a step of `Exchange` or to a
stutter, one case per action.  A pending command leaves the mode that is wanted
alone (`PendingKeepsMode`); a drop or a stop is `Reset`.

Second part.  `OrderlyUse` excludes exactly what the run `outside` and the
deviations above show to break the contract: commands other than START outside
of a session, a failing `sock_open` in the number fetch, a user who withholds
actions, one who configures the library between the halves of `mobile_loop`, and
a second `mobile_init`.  `SocketContract` is not inductive: that closing slot `c`
is allowed depends on the connection table, the state of the call, the command
that is pending and the progress of the relay.  `SlotDiscipline` says how they
agree, in parts:

- `PendingOK`: a command that waits for its next poll has the slot, in the phase
  and with the address, that its next poll needs;
- `SessionSlots`: during a session the table is right, and the state of the call
  determines the phase of each slot, except for the one of a pending command;
- `FetchSlots`: outside of a session all slots are closed but slot 0 of a number
  fetch, which is where the relay's progress says;
- `ActivityNoticed`: why no number fetch starts in a session.  A START that waits
  has set `serial.active`, or the loop noticed it (`global.active`) and will
  process the packet before it considers the fetch.  Here the interrupt handler
  and the loop meet, and the order of the actions matters (`LaterTurn`).

The argument: lemmas say what each socket callback does when called within the
contract (`OpenAt` ... `CloseAllAt`) and what a poll of the relay does to slot 0
(`RelayConnectSlots`, `RelayProcSlots`); one lemma per handler shows that it
preserves the parts of a session (`SessionPre`, `SessionPost`); one per action
shows the whole.

The third part uses `SlotDiscipline` as the invariant that the three properties
under `OrderlyUse` need.  A wait for a call spans several commands, among them name
requests outside of the wait: `BufferNotMixed` goes through who may look at the
buffer again (`RelayWaits`, `RelayCalls`, `DnsChecks`).  `NumberFollows` needs no
discipline, only that `mobile_init` does not forget what the user was told: the code takes
"no retries left" for "a number is shown", and its invariant `UserNumberSettled` says
that it is right to.  For `AnsweringServerFirst`, `HandlerOrder` says of each handler
what it does to the order of the servers.

### Bytes and storage

`SumProofs`.  `Sum` is a recursive function.  The library's induction theorems have
an operator as a parameter, which the provers cannot instantiate, so `Induction`
is stated for a set that contains 0 and `n + 1` with every `n`, and follows from
the pigeonhole principle; the other lemmas use it.  `SumOfOneChange`: sequences
that differ in one element differ by it in their sums; `SumOfBelow`: a sequence
below another one with the same sum is the same.

`SerialProofs`.  `IndexInBounds` needs the reason why an index is within bounds in
the state that uses it (`Bounds`: `RESPONSE_DATA` is entered only with a size that
fits; the counters a response leaves behind are never used before they are set)
and that a word belongs to one mode (`WordOK`).  `SumInv` says what `checksum` is
after each byte (`HeadSum`, `DataSum`) and that an error of 0 promises a known
command with the right sum until the packet is handed over.  `SerialExchanges`
takes one case per state of `mobile_serial_transfer`.  `RefusedAreRetried` is about
`SerialLink`, for any noise and any number of faults: after a refusal the verdict is
alone on the line until the library has taken it, so that wherever the library is in
its response it goes on with it, and where it reads the verdict it starts over
(`RefusedOK`).

`ConfigProofs`.  `CleanIsStored` is inductive with the types.  For `TornIsRefused`
the invariant `WholeInv` says that, as long as nothing failed and until power is
lost, storage and memory differ in one setting at most; then `TornChange` and
`TornOverBlank` show by the two lemmas on sums that no tear between cells has the
sum of the new region unless it is the new region or the old one.  11 cells of
at most 4590 stay below 2^16, so the width of the sum never hides a difference.
`GameWritesKept` needs that storage is only loaded while the library does not
run (`GameInv`), `GameDataKept` that the two halves are cleared only if they did
not belong together (`ClearInv`).

### The stream

`StreamProofs`.  The four receiving functions of `relay.c` are characterised by the
same words: how long the head of an answer is (`HeadSize`), what the head says
(`Verdict`) and how much is to follow (`Rest`).  `Receives` then says of a call, for
every cut of the stream: nothing is lost between the wire and the buffer, and the
result is the verdict on the answer as soon as the head is there, and nothing
before.  Whole answers are told from their beginnings because no proper prefix of
a well formed answer is well formed.  `StreamInv`, in parts, one per phase of the
client:

- `Connects`: before the first request nothing is on the way;
- `Waits`: what is in the buffer and on the wire is together the answer followed
  by the bytes of the peer, the request was sent as a whole, and the buffer alone
  is not yet an answer (`Awaiting`);
- `Linked`: what the game got and what is on the wire is what the peer sent; what
  was sent, followed by the rest of the pending packet, is what was meant;
- `Idle`: between procedures nothing is pending and the socket is closed.

`PeerBytesKept` and `SentWhole` are conjuncts of it or follow at once;
`AnswerUnderstood` follows for each poll from `Receives`.  `RelayImplemented`
shows one step of `Relay` per action (`RelayStep`).  Its condition
`<<>> \notin CallNumbers` comes from the model, which has the empty number for
"none" where the code passes NULL.

### The log

`DebugProofs`.  The invariant is that whatever is left to write of a message
consists of pieces of at most `MaxText` bytes if `mobile_debug_print` writes them
(`Piece`); one lemma per kind of message, with the rows of a hexadecimal dump by
induction (`FlattenType`).  Since a line of 80 and a text of 68 stay below 256,
the index does not wrap before it is cut off.

### Names and addresses

`DnsProofs` assumes of the constants that a packet has room for a header, that
names consist of bytes, and that the records of an answer have names that can be
written (`DnsAssumption`, `AnswersAssumption`).

`QueriesAreSent`.  The loop invariant of `dns_make_name` (`Packed`) says where each
finished label has its length (`Labels`), where the current one began (`Current`),
and that the other characters are in place; one lemma per branch of the loop.
The loop fails exactly at a name with a label that is too long or at the end of
the packet.  To read the question back, `NameEnd` is extended from the end of a
message to its beginning, since a name goes on at a later byte.  That does not
work for `dns_name_compare`: it follows pointers, which may lead in circles, so
that the function that the model defines by recursion is shown to exist as the
characteristic function of a least fixpoint (`Least`, `SamesDef`).  A name with an empty label is excepted
where the query is read back: its question ends early.

`AnswersAreSound`.  The invariant `Traffic` says that what is on its way answers this
request or an earlier one, and a query that could be sent.  A response is verified
only if its identifier is that of the request (`SameNumber`: an earlier one is
smaller, so it is another one whether or not it was cut off to two bytes) and
its question the name, which then has no empty label (`EmptyLabelEnds`) and is no
other name (`OtherNames`).  So the records begin where the parser looks for them
(`MessageStarts`).  From then on the parser may go on at odd offsets, but takes
nothing there (`Found`): it stays at the first record, or goes behind its name,
where the first byte of the type is a zero and is read as the end of a name
(`NoName`).  So only the first record is ever taken, and what is taken is its data.

`AddressesAreFound` is the other half, as far as the code has it.  `AnswerFound` holds
if a server puts a record with the address for a name before all others
(`AddressesFirst`, which the answers of the run `dns` satisfy; `dns_records` shows
what happens without) and if the counter of requests fits in the identifier
(`dns.c:160`).

`AddressProofs`.  The loop invariant of `inet_pton4` (`QuadInv`) compares it with the parts
that `Split` has found so far: the parser goes on exactly as long as they are octets of up
to four digits, all but the last not empty (`GoodParts`), and has their values; so it
takes `Quad(s, 4)` (`QuadIs`), which is `Quad(s, 3)` where no part is longer.  A telephone
number is the four parts one after the other (`PhoneIsQuad`).
A dotted quad has only digits and dots (`QuadCharacters`).

`inet_pton6` stops before the end of a text (at a quad, or at an error), and the
reference `V6` chooses among all the parts of the whole text; so its loop invariant
(`V6Inv`) is about the final parts, and about where in them the loop is: `Part` and
`Depth` say which part the i-th character is in and how far (`Walk`, `Position`).
The loop is in one of three states.  `V6Going`: the bytes read are those of the parts
before this one (`Uptos`), all of which are groups or empty (`V6Read`), the digits
read are those of this part, and two colons, if any, are where `colonp` says
(`Opened`).  `V6Done`: the last part was taken as a quad.  `V6Lost`: the parser has
failed, and then `V6` refuses the text whatever follows: a part is neither group nor
quad (`V6BadPart`), there are two runs of zeros (`V6TwoGaps`), or a colon at an end
without a second one (`V6Trailing`, `V6Leading`).  One lemma per kind of character keeps
the invariant (`V6Digit`, `V6Colons`, `V6Colon`, `V6Dot`, `V6Other`); at the end it
gives `inet_pton6(s) = V6(s, 4)` (`V6Is`), with quads of octets of up to four digits, which is
`V6(s, 3)` where those of the text are shorter.  Without a colon a text is one part, a quad or two
bytes of the 4 or more of `In6Size` (`V6HasColon`), so no text is of both families.

### Model-checked only

- `HandedOverIntact` and `AcceptedIntact` of `SerialLink`: what both
  sides do together under one garbled byte.  Two garbled bytes can make up for each
  other in a sum, so these hold for the bounds and packets of the run only;
  `PacketsAreSummed` is the part of it that does not depend on them.
- `ProcedureSettles`, `CommandAnswered`, `SilentSessionDropped`,
  `ModeSwitchCompletes` and `RequestCompletes`: liveness under fairness is out of the
  prover's reach.

## Not modelled

* build files, `compat.h`, `atomic.h`: no behaviour of their own; the dispatch of
  callbacks in `callback.c`;
* the getters of the configuration and CHECK_STATUS beyond its result;
* data races below the level of a byte exchanged: the state is read and written
  atomically (`atomic.h`);
* the wording of the log.

## Plan

1. The parts of `HandedOverIntact` that hold for every number of garbled bytes.
