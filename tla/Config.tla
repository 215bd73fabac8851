------------------------------- MODULE Config -------------------------------
(***************************************************************************)
(* config.c: the configuration in memory, and the two regions of storage   *)
(* behind it: the one of the games (written by the console with            *)
(* EEPROM_WRITE, cleared by the library when it is not valid) and the one  *)
(* of the library itself (settings with a checksum).                       *)
(*                                                                         *)
(* Storage outlives the program: power may be lost at any step, in the     *)
(* middle of a write too, and the program starts over with mobile_init.    *)
(* A cell of the library's region stands for consecutive bytes of one      *)
(* setting that storage writes together (both bytes of the port have a     *)
(* cell), and holds their sum.                                             *)
(***************************************************************************)
EXTENDS Integers, Sequences, Sums

CONSTANTS
    Devices,        \* devices the user may set
    Addresses,      \* addresses the user may set: [type, host]
    Ports,          \* ports the user may set
    Tokens,         \* tokens the user or the relay may set
    Saves,          \* versions of a game's data
    Writes,         \* the parts a game may ask to write: [offset, size]
    MaxFailures,    \* how often config_read or config_write fails
    OneAtATime,     \* whether the user saves one setting before the next
    MaxLosses       \* how often power is lost

None == [type |-> 0, host |-> 0]

Byte == 0 .. 255
HalfWord == 0 .. 65535
AddrType == 0 .. 2
HostSum == 0 .. 4590    \* the bytes of an IPv6 address and its port
TokenSum == 0 .. 4080   \* MOBILE_RELAY_TOKEN_SIZE
Address == [type : AddrType, host : HostSum]

ASSUME ConfigAssumption ==
    /\ Devices \subseteq Byte
    /\ Addresses \subseteq Address
    /\ Ports \subseteq HalfWord
    /\ Tokens \subseteq TokenSum
    /\ {"zero", "garbage", "none"} \cap Saves = {}
    /\ Writes \subseteq [offset : Byte, size : 0 .. 254]
    /\ MaxFailures \in Nat
    /\ OneAtATime \in BOOLEAN
    /\ MaxLosses \in Nat

VARIABLES
    config,         \* struct mobile_adapter_config: the settings
    loaded, dirty,  \* config.loaded, config.dirty
    start,          \* global.start
    internal,       \* storage: the two halves of the games' region
    library,        \* storage: the library's region
    pc,             \* where mobile_config_load is
    starting,       \* whether mobile_start called it
    wrote,          \* what the console wrote since mobile_start
    whole,          \* whether the region was written as a whole
    losses,
    failures        \* calls that failed without the library's noticing

settings == <<config, loaded, dirty>>
program == <<start, pc, starting>>
ghosts == <<wrote, whole, losses, failures>>
vars == <<settings, program, internal, library, ghosts>>

Half == Saves \cup {"zero", "garbage"}
DefaultPort == 1027
DeviceBlue == 8
HalfSize == 96          \* MOBILE_CONFIG_SIZE_INTERNAL / 2
RealSize == 256         \* MOBILE_CONFIG_SIZE_REAL
LibraryOffset == 256    \* MOBILE_CONFIG_OFFSET_LIBRARY
MaxChunk == 128

Config == [device : Byte, dns1 : Address, dns2 : Address,
           p2p_port : HalfWord, relay : Address, token_init : BOOLEAN,
           token : TokenSum]

Defaults == [device |-> DeviceBlue, dns1 |-> None, dns2 |-> None,
             p2p_port |-> DefaultPort, relay |-> None,
             token_init |-> FALSE, token |-> 0]

(* Mutant: the addresses and the token are left out of the checksum.       *)
SumOfHead(cells) == Sum(SubSeq(cells, 1, 7)) % 65536

(* The checksum of the library's region.                                   *)
checksum(cells) == Sum(cells) % 65536

(* config_library_save_host: an address without a type leaves zeroes.      *)
Host(addr) == IF addr.type \in {1, 2} THEN addr.host ELSE 0

(* What config_library_save writes, in the order of the addresses.         *)
Image(c) == <<c.device, c.dns1.type, c.dns2.type, c.p2p_port % 256,
              (c.p2p_port \div 256) % 256, c.relay.type,
              IF c.token_init THEN 1 ELSE 0,
              Host(c.dns1), Host(c.dns2), Host(c.relay),
              IF c.token_init THEN c.token ELSE 0>>

(* What the cells may hold.                                                *)
Cells ==
    {cells \in [1 .. 11 -> HostSum] :
        /\ \A i \in {1, 4, 5} : cells[i] \in Byte
        /\ \A i \in {2, 3, 6} : cells[i] \in AddrType
        /\ cells[7] \in {0, 1} /\ cells[11] \in TokenSum}

Region(cells) == [magic |-> TRUE, sum |-> checksum(cells), cells |-> cells]
Blank == [magic |-> FALSE, sum |-> 0, cells |-> [i \in 1 .. 11 |-> 0]]

-----------------------------------------------------------------------------
(* config_library_load.                                                    *)
Matches(r) == r.magic /\ r.sum = checksum(r.cells)

config_check_addrtype(type) == type \in AddrType

TypesKnown(r) == \A i \in {2, 3, 6} : config_check_addrtype(r.cells[i])

(* config_library_load_host: an address without a type keeps its old host. *)
LoadedAddr(old, type, host) ==
    [type |-> type, host |-> IF type = 0 THEN old.host ELSE host]

(* The types are in place when they are found to be unknown.               *)
Loaded(c, r) ==
    LET head == [c EXCEPT !.device = r.cells[1], !.dns1.type = r.cells[2],
                          !.dns2.type = r.cells[3],
                          !.p2p_port = r.cells[4] + 256 * r.cells[5],
                          !.relay.type = r.cells[6],
                          !.token_init = (r.cells[7] # 0)]
    IN  IF ~Matches(r) THEN c
        ELSE IF ~TypesKnown(r) THEN head
        ELSE [head EXCEPT
                !.dns1 = LoadedAddr(c.dns1, r.cells[2], r.cells[8]),
                !.dns2 = LoadedAddr(c.dns2, r.cells[3], r.cells[9]),
                !.relay = LoadedAddr(c.relay, r.cells[6], r.cells[10]),
                !.token = IF r.cells[7] # 0 THEN r.cells[11] ELSE c.token]

(* Mutant: the checksum is added up with the data, so that it is wrong.    *)
VerifySumsAll == FALSE

(* The letters MA in the first half and a checksum in the second one tie   *)
(* the halves of one version together.                                     *)
config_internal_verify == internal[1] \in Saves /\ internal[1] = internal[2]

-----------------------------------------------------------------------------
(* A call of config_read or config_write fails, or does not.               *)
Succeeds == UNCHANGED failures
Fails == failures < MaxFailures /\ failures' = failures + 1

Init ==
    /\ config = Defaults
    /\ loaded = FALSE
    /\ dirty = TRUE
    /\ start = FALSE
    /\ internal \in {<<"garbage", "garbage">>} \cup {<<s, s>> : s \in Saves}
    /\ library = Blank
    /\ pc = "idle"
    /\ starting = FALSE
    /\ wrote = <<"none", "none">>
    /\ whole = FALSE
    /\ losses = 0
    /\ failures = 0

(* Mutant: mobile_config_load does its work while the library runs, too.   *)
LoadAnyTime(by_start) ==
    /\ pc = "idle"
    /\ pc' = IF config_internal_verify THEN "library" ELSE "clear1"
    /\ starting' = by_start
    /\ UNCHANGED <<settings, start, internal, library, ghosts>>

(* mobile_config_load, up to config_internal_verify: data that cannot be   *)
(* read are taken for data that are not valid.                             *)
LoadBegin(by_start) ==
    /\ pc = "idle" /\ ~start
    /\ \/ Succeeds /\ pc' = IF config_internal_verify THEN "library" ELSE "clear1"
       \/ Fails /\ pc' = "clear1"
    /\ starting' = by_start
    /\ UNCHANGED <<settings, start, internal, library, wrote, whole, losses>>

mobile_config_load == LoadBegin(FALSE)

(* config_internal_clear: two writes, whose results are not looked at.     *)
ClearHalf(h, at, after) ==
    /\ pc = at
    /\ pc' = after
    /\ \/ Succeeds /\ internal' = [internal EXCEPT ![h] = "zero"]
       \/ Fails /\ UNCHANGED internal
    /\ UNCHANGED <<settings, start, starting, library, wrote, whole, losses>>

config_internal_clear ==
    ClearHalf(1, "clear1", "clear2") \/ ClearHalf(2, "clear2", "library")

(* The end of mobile_config_load, and of mobile_start.                     *)
config_library_load ==
    /\ pc = "library"
    /\ \/ /\ Succeeds
          /\ config' = Loaded(config, library)
          /\ dirty' = (dirty /\ ~(Matches(library) /\ TypesKnown(library)))
       \/ Fails /\ UNCHANGED <<config, dirty>>
    /\ loaded' = TRUE
    /\ pc' = "idle"
    /\ start' = starting
    /\ starting' = FALSE
    /\ UNCHANGED <<internal, library, wrote, whole, losses>>

mobile_start ==
    /\ ~start /\ pc = "idle"
    /\ IF loaded
       THEN /\ start' = TRUE
            /\ UNCHANGED <<settings, pc, starting, internal, library, ghosts>>
       ELSE LoadBegin(TRUE)

-----------------------------------------------------------------------------
(* Mutant: the configuration is marked as written, but is not.             *)
SaveForgets ==
    /\ dirty
    /\ dirty' = FALSE
    /\ UNCHANGED <<config, loaded, library, whole, failures>>

(* mobile_config_save: the result of the write is not looked at.           *)
mobile_config_save ==
    /\ dirty
    /\ \/ Succeeds /\ library' = Region(Image(config)) /\ whole' = TRUE
       \/ Fails /\ UNCHANGED <<library, whole>>
    /\ dirty' = FALSE
    /\ UNCHANGED <<config, loaded>>

(* By the user, or WRITE_CONFIG of the main loop.                          *)
Save ==
    /\ pc = "idle"
    /\ mobile_config_save
    /\ UNCHANGED <<program, internal, wrote, losses>>

mobile_stop ==
    /\ start /\ pc = "idle"
    /\ start' = FALSE
    /\ wrote' = <<"none", "none">>
    /\ mobile_config_save \/ (~dirty /\ UNCHANGED <<settings, library, whole, failures>>)
    /\ UNCHANGED <<pc, starting, internal, losses>>

(* mobile_config_apply.  The user has called mobile_config_load before     *)
(* (mobile.h:440).                                                         *)
Set(c) ==
    /\ pc = "idle" /\ loaded
    /\ OneAtATime => ~dirty
    /\ config' = c
    /\ dirty' = TRUE
    /\ loaded' = TRUE
    /\ UNCHANGED <<program, internal, library, ghosts>>

mobile_config_set_device == \E d \in Devices : Set([config EXCEPT !.device = d])

mobile_config_set_dns ==
    \E a \in Addresses :
        Set([config EXCEPT !.dns1 = a]) \/ Set([config EXCEPT !.dns2 = a])

mobile_config_set_p2p_port ==
    \E p \in Ports \ {0} : Set([config EXCEPT !.p2p_port = p])

mobile_config_set_relay ==
    \E a \in Addresses : Set([config EXCEPT !.relay = a])

(* By the user or by the relay.                                            *)
mobile_config_set_relay_token ==
    \/ Set([config EXCEPT !.token_init = FALSE])
    \/ \E t \in Tokens : Set([config EXCEPT !.token_init = TRUE, !.token = t])

(* What storage holds after a game wrote a part w of its version s: halves *)
(* that w covers are of that version, halves that w cuts are of none, and  *)
(* bytes behind the games' area are the library's.                         *)
Touches(w, h) ==
    /\ w.size > 0
    /\ w.offset < HalfSize * h /\ w.offset + w.size > HalfSize * (h - 1)

Covers(w, h) ==
    w.offset <= HalfSize * (h - 1) /\ w.offset + w.size >= HalfSize * h

Written(w, s) ==
    /\ internal' = [h \in 1 .. 2 |-> IF ~Touches(w, h) THEN internal[h]
                                      ELSE IF Covers(w, h) \/ internal[h] = s
                                      THEN s ELSE "garbage"]
    /\ wrote' = [h \in 1 .. 2 |-> IF Touches(w, h) THEN internal'[h] ELSE wrote[h]]
    /\ IF w.offset + w.size > LibraryOffset
       THEN library' = [library EXCEPT !.magic = FALSE] ELSE UNCHANGED library

(* Mutant: only the size is checked.                                       *)
WriteAnywhere ==
    /\ start /\ pc = "idle"
    /\ \E w \in Writes, s \in Saves : w.size <= MaxChunk /\ Written(w, s)
    /\ UNCHANGED <<settings, program, whole, losses, failures>>

(* The console writes a part of its data; it is told of a part that is too *)
(* large or goes too far, and of a failure.                                *)
command_eeprom_write ==
    /\ start /\ pc = "idle"
    /\ \E w \in Writes, s \in Saves :
          /\ w.size <= MaxChunk /\ w.offset + w.size <= RealSize
          /\ Written(w, s)
    /\ UNCHANGED <<settings, program, whole, losses, failures>>

-----------------------------------------------------------------------------
(* What storage holds after a write that power was lost in: the first n of *)
(* its parts, the letters and the sum being the first one.                 *)
Torn(n) ==
    LET new == Region(Image(config))
    IN  IF n = 0 THEN library
        ELSE [new EXCEPT !.cells =
                 [i \in 1 .. 11 |-> IF i < n THEN new.cells[i]
                                    ELSE library.cells[i]]]

(* Power is lost, in the middle of a write if there is one, and the        *)
(* program begins with mobile_init.                                        *)
PowerLoss ==
    /\ losses < MaxLosses
    /\ losses' = losses + 1
    /\ UNCHANGED failures
    /\ config' = Defaults
    /\ loaded' = FALSE
    /\ dirty' = TRUE
    /\ start' = FALSE
    /\ pc' = "idle"
    /\ starting' = FALSE
    /\ wrote' = <<"none", "none">>
    /\ \/ UNCHANGED <<internal, library, whole>>
       \/ /\ pc \in {"clear1", "clear2"}
          /\ internal' = [internal EXCEPT ![IF pc = "clear1" THEN 1 ELSE 2] = "garbage"]
          /\ UNCHANGED <<library, whole>>
       \/ /\ pc = "idle" /\ dirty
          /\ \E n \in 1 .. 11 :
                /\ library' = Torn(n)
                /\ whole' = \/ Torn(n) = Region(Image(config))
                            \/ whole /\ Torn(n) = library
          /\ UNCHANGED internal

Next ==
    \/ mobile_config_load \/ config_internal_clear \/ config_library_load
    \/ mobile_start \/ mobile_stop \/ Save \/ PowerLoss
    \/ mobile_config_set_device \/ mobile_config_set_dns
    \/ mobile_config_set_p2p_port \/ mobile_config_set_relay
    \/ mobile_config_set_relay_token \/ command_eeprom_write

Spec == Init /\ [][Next]_vars

-----------------------------------------------------------------------------
(* Properties.                                                             *)

TypeOK ==
    /\ config \in Config
    /\ loaded \in BOOLEAN
    /\ dirty \in BOOLEAN
    /\ start \in BOOLEAN
    /\ internal \in [1 .. 2 -> Half]
    /\ library \in [magic : BOOLEAN, sum : Nat, cells : Cells]
    /\ pc \in {"idle", "clear1", "clear2", "library"}
    /\ starting \in BOOLEAN
    /\ wrote \in [1 .. 2 -> Half \cup {"none"}]
    /\ whole \in BOOLEAN
    /\ losses \in 0 .. MaxLosses
    /\ failures \in 0 .. MaxFailures

(* The settings as far as they mean something: the host of an address that *)
(* has a type, and a token that there is.                                  *)
Meant(c) == [c EXCEPT !.dns1.host = Host(c.dns1), !.dns2.host = Host(c.dns2),
                      !.relay.host = Host(c.relay),
                      !.token = IF c.token_init THEN c.token ELSE 0]

(* config.c:205-210: as long as no call failed, settings that are not      *)
(* marked as changed are in storage, and a mobile_config_load after the    *)
(* next mobile_init gets them from there, wherever power was lost.         *)
(* (mobile_config_save clears the mark of a write that failed as well.)    *)
CleanIsStored ==
    ~dirty /\ failures = 0 =>
        /\ Matches(library) /\ TypesKnown(library)
        /\ Meant(Loaded(Defaults, library)) = Meant(config)

(* config.c:99-101: a region that power was lost in is not loaded, as far  *)
(* as power is lost once and one setting was changed: a sum does not tell  *)
(* two settings that were swapped apart.                                   *)
TornIsRefused ==
    Matches(library) /\ failures = 0 /\ losses <= 1 /\ OneAtATime => whole

(* config.c:200: as long as storage can be read, the library clears the    *)
(* games' data only when they are not valid, wherever power is lost while  *)
(* it does.                                                                *)
GameDataKept ==
    [][(\E s \in Saves : internal = <<s, s>>) /\ failures = 0 =>
          internal' = internal \/ command_eeprom_write]_vars

(* config.c:199: while a game writes its data in several commands, nothing *)
(* is cleared between them, although the data are not valid then, and      *)
(* whatever fails.                                                         *)
GameWritesKept ==
    start => \A h \in 1 .. 2 : wrote[h] # "none" => internal[h] = wrote[h]

=============================================================================
