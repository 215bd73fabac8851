---------------------------- MODULE ConfigProofs ----------------------------
(***************************************************************************)
(* Proofs about Config, for all settings, any number of failing calls and  *)
(* of losses of power.                                                     *)
(***************************************************************************)
EXTENDS Config, SumProofs

(* The type invariant in parts.                                            *)
Regions == [magic : BOOLEAN, sum : Nat, cells : Cells]

FlagsOK == /\ loaded \in BOOLEAN /\ dirty \in BOOLEAN
           /\ start \in BOOLEAN /\ starting \in BOOLEAN /\ whole \in BOOLEAN

StoredOK == config \in Config /\ library \in Regions

GameOK == /\ internal \in [1 .. 2 -> Half]
          /\ wrote \in [1 .. 2 -> Half \cup {"none"}]

CountsOK == /\ pc \in {"idle", "clear1", "clear2", "library"}
            /\ losses \in 0 .. MaxLosses /\ failures \in 0 .. MaxFailures

LEMMA TypeParts == TypeOK <=> FlagsOK /\ StoredOK /\ GameOK /\ CountsOK
  BY DEF TypeOK, FlagsOK, StoredOK, GameOK, CountsOK, Regions

LEMMA TypePartsNext == TypeOK' <=> FlagsOK' /\ StoredOK' /\ GameOK' /\ CountsOK'
  BY DEF TypeOK, FlagsOK, StoredOK, GameOK, CountsOK, Regions

-----------------------------------------------------------------------------
(* Settings and the cells they are stored in.                              *)

LEMMA Numerals ==
    /\ 0 \in AddrType /\ 0 \in HostSum /\ 0 \in TokenSum /\ 0 \in Byte
    /\ DeviceBlue \in Byte /\ DefaultPort \in HalfWord
    /\ \A n \in Byte : n \in HostSum
    /\ \A n \in AddrType : n \in HostSum
    /\ \A n \in {0, 1} : n \in HostSum
    /\ \A n \in TokenSum : n \in HostSum
    /\ \A n \in HostSum : n \in Nat
  <1>1. /\ 0 \in AddrType /\ 0 \in HostSum /\ 0 \in TokenSum /\ 0 \in Byte
        /\ DeviceBlue \in Byte /\ DefaultPort \in HalfWord
    BY DEF AddrType, HostSum, TokenSum, Byte, HalfWord, DeviceBlue, DefaultPort
  <1>2. /\ \A n \in Byte : n \in HostSum
        /\ \A n \in TokenSum : n \in HostSum
    <2>1. \A n \in Byte : n \in HostSum
      BY DEF HostSum, Byte
    <2>2. \A n \in TokenSum : n \in HostSum
      BY DEF HostSum, TokenSum
    <2> QED BY <2>1, <2>2
  <1>3. (\A n \in AddrType : n \in HostSum) /\ (\A n \in {0, 1} : n \in HostSum)
    BY DEF AddrType, HostSum
  <1>4. \A n \in HostSum : n \in Nat
    BY DEF HostSum
  <1> QED BY <1>1, <1>2, <1>3, <1>4

LEMMA HalfWordIs == \A n : n \in HalfWord <=> n \in Nat /\ n <= 65535
  <1> DEFINE top == 65535
  <1>1. HalfWord = 0 .. top /\ top \in Nat
    BY DEF HalfWord
  <1> HIDE DEF top
  <1>2. \A n : n \in HalfWord <=> n \in Nat /\ n <= top
    BY <1>1, WideInterval
  <1> QED BY <1>2 DEF top

LEMMA PortBytes ==
    ASSUME NEW p \in HalfWord
    PROVE  /\ p % 256 \in Byte /\ (p \div 256) % 256 \in Byte
           /\ (p % 256) + 256 * ((p \div 256) % 256) = p
  <1>1. p \in Nat /\ p < 65536
    BY HalfWordIs
  <1>2. /\ p % 256 \in Nat /\ p % 256 < 256
        /\ p \div 256 \in Nat /\ p \div 256 < 256
        /\ (p % 256) + 256 * (p \div 256) = p
    BY <1>1
  <1>3. \A n \in 0 .. 255 : n % 256 = n
    OBVIOUS
  <1>4. p % 256 \in 0 .. 255 /\ p \div 256 \in 0 .. 255
    <2>1. \A n \in Nat : n < 256 => n \in 0 .. 255
      OBVIOUS
    <2> QED BY <1>2, <2>1
  <1>5. (p \div 256) % 256 = p \div 256
    BY <1>3, <1>4
  <1> QED BY <1>2, <1>4, <1>5 DEF Byte

LEMMA PortSplit ==
    ASSUME NEW lo \in Byte, NEW hi \in Byte, NEW p, p = lo + 256 * hi
    PROVE  p % 256 = lo /\ (p \div 256) % 256 = hi
  <1>1. lo \in Nat /\ lo < 256 /\ hi \in Nat /\ hi < 256
    BY DEF Byte
  <1>2. p % 256 = lo /\ p \div 256 = hi
    BY <1>1
  <1>3. hi % 256 = hi
    BY <1>1
  <1> QED BY <1>2, <1>3

LEMMA BytesOfPort ==
    ASSUME NEW lo \in Byte, NEW hi \in Byte
    PROVE  lo + 256 * hi \in HalfWord
  <1>1. lo \in Nat /\ lo <= 255 /\ hi \in Nat /\ hi <= 255
    BY DEF Byte
  <1> DEFINE p == lo + 256 * hi
  <1>2. p \in Nat /\ p <= 65535
    BY <1>1
  <1> HIDE DEF p
  <1>3. p \in HalfWord
    BY <1>2, HalfWordIs
  <1> QED BY <1>3 DEF p

LEMMA NoneType == None \in Address
  BY Numerals DEF None, Address

LEMMA DefaultsType == Defaults \in Config
  BY NoneType, Numerals DEF Defaults, Config

LEMMA HostType == \A a \in Address : Host(a) \in HostSum
  BY Numerals DEF Host, Address

(* Each cell of an image.                                                  *)
LEMMA ImageCells ==
    ASSUME NEW c \in Config
    PROVE  /\ Image(c)[1] = c.device
           /\ Image(c)[2] = c.dns1.type /\ Image(c)[3] = c.dns2.type
           /\ Image(c)[4] = c.p2p_port % 256
           /\ Image(c)[5] = (c.p2p_port \div 256) % 256
           /\ Image(c)[6] = c.relay.type
           /\ Image(c)[7] = (IF c.token_init THEN 1 ELSE 0)
           /\ Image(c)[8] = Host(c.dns1) /\ Image(c)[9] = Host(c.dns2)
           /\ Image(c)[10] = Host(c.relay)
           /\ Image(c)[11] = (IF c.token_init THEN c.token ELSE 0)
           /\ DOMAIN Image(c) = 1 .. 11
  BY DEF Image

LEMMA ConfigFields ==
    ASSUME NEW c \in Config
    PROVE  /\ c.device \in Byte /\ c.p2p_port \in HalfWord
           /\ c.dns1 \in Address /\ c.dns2 \in Address /\ c.relay \in Address
           /\ c.token \in TokenSum
  BY DEF Config

LEMMA TokenFlag == \A c \in Config : c.token_init \in BOOLEAN
  BY DEF Config

LEMMA ImageType ==
    ASSUME NEW c \in Config
    PROVE  Image(c) \in Cells
  <1>1. /\ c.dns1.type \in AddrType /\ c.dns2.type \in AddrType
        /\ c.relay.type \in AddrType
    BY ConfigFields DEF Address
  <1>2. /\ Host(c.dns1) \in HostSum /\ Host(c.dns2) \in HostSum
        /\ Host(c.relay) \in HostSum
    BY ConfigFields, HostType
  <1>3. c.p2p_port % 256 \in Byte /\ (c.p2p_port \div 256) % 256 \in Byte
    BY ConfigFields, PortBytes
  <1>4. (IF c.token_init THEN 1 ELSE 0) \in {0, 1}
    OBVIOUS
  <1>5. (IF c.token_init THEN c.token ELSE 0) \in TokenSum
    BY ConfigFields, Numerals
  <1> DEFINE s == Image(c)
  <1>6. s = [i \in 1 .. 11 |-> s[i]]
    BY DEF Image
  <1>7. /\ s[1] \in Byte /\ s[2] \in AddrType /\ s[3] \in AddrType
        /\ s[4] \in Byte /\ s[5] \in Byte /\ s[6] \in AddrType
        /\ s[7] \in {0, 1} /\ s[8] \in HostSum /\ s[9] \in HostSum
        /\ s[10] \in HostSum /\ s[11] \in TokenSum
    BY <1>1, <1>2, <1>3, <1>4, <1>5, ConfigFields, ImageCells
  <1> HIDE DEF s
  <1>8. \A i \in 1 .. 11 : s[i] \in HostSum
    <2>1. /\ s[1] \in HostSum /\ s[2] \in HostSum /\ s[3] \in HostSum
          /\ s[4] \in HostSum /\ s[5] \in HostSum /\ s[6] \in HostSum
          /\ s[7] \in HostSum /\ s[11] \in HostSum
      BY <1>7, Numerals
    <2> QED BY <1>7, <2>1
  <1>9. s \in [1 .. 11 -> HostSum]
    BY <1>6, <1>8
  <1>10. s \in Cells
    BY <1>7, <1>9 DEF Cells
  <1> QED BY <1>10 DEF s

LEMMA BlankType == Blank \in Regions
  <1>1. Blank.cells \in Cells
    BY Numerals DEF Blank, Cells
  <1> QED BY <1>1 DEF Blank, Regions

LEMMA CellsAreNumbers == \A s \in Cells : s \in Seq(Nat) /\ Len(s) = 11
  <1> SUFFICES ASSUME NEW s \in Cells PROVE s \in Seq(Nat) /\ Len(s) = 11
    OBVIOUS
  <1>1. s \in [1 .. 11 -> Nat] /\ 11 \in Nat /\ DOMAIN s = 1 .. 11
    BY Numerals DEF Cells
  <1>2. s \in Seq(Nat)
    BY <1>1, SeqDef
  <1>3. Len(s) \in Nat /\ 1 .. Len(s) = 1 .. 11
    BY <1>1, <1>2, LenProperties
  <1>4. Len(s) = 11
    <2> DEFINE n == Len(s)
    <2>1. n \in Nat /\ 11 \in 1 .. n
      BY <1>3
    <2>2. n \in 1 .. n => n \in 1 .. 11
      BY <1>3
    <2> HIDE DEF n
    <2>3. n >= 11 /\ n <= 11
      BY <2>1, <2>2
    <2>4. n = 11
      BY <2>1, <2>3
    <2> QED BY <2>4 DEF n
  <1> QED BY <1>2, <1>4

LEMMA RegionType ==
    ASSUME NEW s \in Cells
    PROVE  Region(s) \in Regions /\ Matches(Region(s))
  <1>1. checksum(s) \in Nat
    <2>1. Sum(s) \in Nat
      BY CellsAreNumbers, SumType
    <2> QED BY <2>1 DEF checksum
  <1>2. Region(s) = [magic |-> TRUE, sum |-> checksum(s), cells |-> s]
    BY DEF Region
  <1> QED BY <1>1, <1>2 DEF Regions, Matches

(* The types that storage holds are known.                                 *)
LEMMA StoredTypesKnown == \A r \in Regions : TypesKnown(r)
  BY DEF Regions, Cells, TypesKnown, config_check_addrtype

(* What a region that is accepted is loaded as.                            *)
LEMMA LoadedFields ==
    ASSUME NEW c \in Config, NEW r \in Regions, Matches(r)
    PROVE  Loaded(c, r) =
              [device |-> r.cells[1],
               dns1 |-> LoadedAddr(c.dns1, r.cells[2], r.cells[8]),
               dns2 |-> LoadedAddr(c.dns2, r.cells[3], r.cells[9]),
               p2p_port |-> r.cells[4] + 256 * r.cells[5],
               relay |-> LoadedAddr(c.relay, r.cells[6], r.cells[10]),
               token_init |-> (r.cells[7] # 0),
               token |-> IF r.cells[7] # 0 THEN r.cells[11] ELSE c.token]
  <1>1. TypesKnown(r)
    BY StoredTypesKnown
  <1>2. c = [device |-> c.device, dns1 |-> c.dns1, dns2 |-> c.dns2,
             p2p_port |-> c.p2p_port, relay |-> c.relay,
             token_init |-> c.token_init, token |-> c.token]
    BY DEF Config
  <1> DEFINE s == r.cells
             a1 == LoadedAddr(c.dns1, s[2], s[8])
             a2 == LoadedAddr(c.dns2, s[3], s[9])
             ar == LoadedAddr(c.relay, s[6], s[10])
             port == s[4] + 256 * s[5]
             flag == s[7] # 0
             tok == IF s[7] # 0 THEN s[11] ELSE c.token
             head == [c EXCEPT !.device = s[1], !.dns1.type = s[2],
                               !.dns2.type = s[3], !.p2p_port = port,
                               !.relay.type = s[6], !.token_init = flag]
  <1>3. Loaded(c, r) = [head EXCEPT !.dns1 = a1, !.dns2 = a2, !.relay = ar,
                                    !.token = tok]
    BY <1>1 DEF Loaded
  <1> DEFINE t1 == [c.dns1 EXCEPT !.type = s[2]]
             t2 == [c.dns2 EXCEPT !.type = s[3]]
             tr == [c.relay EXCEPT !.type = s[6]]
  <1>4. head = [device |-> s[1], dns1 |-> t1, dns2 |-> t2, p2p_port |-> port,
                relay |-> tr, token_init |-> flag, token |-> c.token]
    <2>1. head = [c EXCEPT !.device = s[1], !.dns1 = t1, !.dns2 = t2,
                           !.p2p_port = port, !.relay = tr, !.token_init = flag]
      BY <1>2
    <2> HIDE DEF head, port, flag, t1, t2, tr
    <2> QED BY <1>2, <2>1
  <1> HIDE DEF head, a1, a2, ar, port, flag, tok, t1, t2, tr
  <1>5. Loaded(c, r) = [device |-> s[1], dns1 |-> a1, dns2 |-> a2,
                        p2p_port |-> port, relay |-> ar, token_init |-> flag,
                        token |-> tok]
    BY <1>3, <1>4
  <1> QED BY <1>5 DEF a1, a2, ar, port, flag, tok

LEMMA LoadedAddrType ==
    ASSUME NEW a \in Address, NEW t \in AddrType, NEW h \in HostSum
    PROVE  LoadedAddr(a, t, h) \in Address
  BY DEF LoadedAddr, Address

LEMMA CellTypes ==
    ASSUME NEW s \in Cells
    PROVE  /\ s[1] \in Byte /\ s[2] \in AddrType /\ s[3] \in AddrType
           /\ s[4] \in Byte /\ s[5] \in Byte /\ s[6] \in AddrType
           /\ s[7] \in {0, 1} /\ s[8] \in HostSum /\ s[9] \in HostSum
           /\ s[10] \in HostSum /\ s[11] \in TokenSum
  BY DEF Cells

LEMMA LoadedType ==
    ASSUME NEW c \in Config, NEW r \in Regions
    PROVE  Loaded(c, r) \in Config
  <1>1. CASE ~Matches(r)
    BY <1>1 DEF Loaded
  <1>2. CASE Matches(r)
    <2> DEFINE s == r.cells
    <2>1. s \in Cells
      BY DEF Regions
    <2>2. Loaded(c, r) =
              [device |-> s[1], dns1 |-> LoadedAddr(c.dns1, s[2], s[8]),
               dns2 |-> LoadedAddr(c.dns2, s[3], s[9]),
               p2p_port |-> s[4] + 256 * s[5],
               relay |-> LoadedAddr(c.relay, s[6], s[10]),
               token_init |-> (s[7] # 0),
               token |-> IF s[7] # 0 THEN s[11] ELSE c.token]
      BY <1>2, LoadedFields
    <2> HIDE DEF s
    <2>3. s[1] \in Byte /\ s[4] + 256 * s[5] \in HalfWord
      BY <2>1, CellTypes, BytesOfPort
    <2>4. /\ LoadedAddr(c.dns1, s[2], s[8]) \in Address
          /\ LoadedAddr(c.dns2, s[3], s[9]) \in Address
          /\ LoadedAddr(c.relay, s[6], s[10]) \in Address
      BY <2>1, ConfigFields, CellTypes, LoadedAddrType
    <2>5. (s[7] # 0) \in BOOLEAN
      OBVIOUS
    <2>6. (IF s[7] # 0 THEN s[11] ELSE c.token) \in TokenSum
      BY <2>1, ConfigFields, CellTypes
    <2> QED BY <2>2, <2>3, <2>4, <2>5, <2>6 DEF Config
  <1> QED BY <1>1, <1>2

(* The settings that cells stand for.                                      *)
AddrOf(t, h) == [type |-> t, host |-> IF t \in {1, 2} THEN h ELSE 0]

Settings(s) ==
    [device |-> s[1], dns1 |-> AddrOf(s[2], s[8]), dns2 |-> AddrOf(s[3], s[9]),
     p2p_port |-> s[4] + 256 * s[5], relay |-> AddrOf(s[6], s[10]),
     token_init |-> (s[7] # 0), token |-> IF s[7] # 0 THEN s[11] ELSE 0]

LEMMA MeantFields ==
    ASSUME NEW c \in Config
    PROVE  Meant(c) = [device |-> c.device,
                       dns1 |-> AddrOf(c.dns1.type, c.dns1.host),
                       dns2 |-> AddrOf(c.dns2.type, c.dns2.host),
                       p2p_port |-> c.p2p_port,
                       relay |-> AddrOf(c.relay.type, c.relay.host),
                       token_init |-> c.token_init,
                       token |-> IF c.token_init THEN c.token ELSE 0]
  <1>1. c = [device |-> c.device, dns1 |-> c.dns1, dns2 |-> c.dns2,
             p2p_port |-> c.p2p_port, relay |-> c.relay,
             token_init |-> c.token_init, token |-> c.token]
    BY DEF Config
  <1>2. \A a \in Address : [a EXCEPT !.host = Host(a)] = AddrOf(a.type, a.host)
    BY DEF Address, Host, AddrOf
  <1>3. Meant(c) = [device |-> c.device, dns1 |-> [c.dns1 EXCEPT !.host = Host(c.dns1)],
                    dns2 |-> [c.dns2 EXCEPT !.host = Host(c.dns2)],
                    p2p_port |-> c.p2p_port,
                    relay |-> [c.relay EXCEPT !.host = Host(c.relay)],
                    token_init |-> c.token_init,
                    token |-> IF c.token_init THEN c.token ELSE 0]
    <2> DEFINE d1 == c.dns1
               d2 == c.dns2
               rl == c.relay
               h1 == Host(d1)
               h2 == Host(d2)
               hr == Host(rl)
               tok == IF c.token_init THEN c.token ELSE 0
    <2>1. c = [device |-> c.device, dns1 |-> d1, dns2 |-> d2,
               p2p_port |-> c.p2p_port, relay |-> rl,
               token_init |-> c.token_init, token |-> c.token]
      BY <1>1
    <2>2. Meant(c) = [c EXCEPT !.dns1 = [d1 EXCEPT !.host = h1],
                               !.dns2 = [d2 EXCEPT !.host = h2],
                               !.relay = [rl EXCEPT !.host = hr],
                               !.token = tok]
      BY <2>1 DEF Meant
    <2> HIDE DEF d1, d2, rl, h1, h2, hr, tok
    <2>3. Meant(c) = [device |-> c.device, dns1 |-> [d1 EXCEPT !.host = h1],
                      dns2 |-> [d2 EXCEPT !.host = h2],
                      p2p_port |-> c.p2p_port,
                      relay |-> [rl EXCEPT !.host = hr],
                      token_init |-> c.token_init, token |-> tok]
      BY <2>1, <2>2
    <2> QED BY <2>3 DEF d1, d2, rl, h1, h2, hr, tok
  <1> QED BY <1>2, <1>3, ConfigFields

(* A load gets what is stored, whatever was set before.                    *)
LEMMA MeantLoaded ==
    ASSUME NEW c \in Config, NEW r \in Regions, Matches(r)
    PROVE  Meant(Loaded(c, r)) = Settings(r.cells)
  <1> DEFINE s == r.cells
             d == Loaded(c, r)
  <1>1. d \in Config
    BY LoadedType
  <1>2. /\ d.device = s[1] /\ d.p2p_port = s[4] + 256 * s[5]
        /\ d.dns1 = LoadedAddr(c.dns1, s[2], s[8])
        /\ d.dns2 = LoadedAddr(c.dns2, s[3], s[9])
        /\ d.relay = LoadedAddr(c.relay, s[6], s[10])
        /\ d.token_init = (s[7] # 0)
        /\ d.token = IF s[7] # 0 THEN s[11] ELSE c.token
    BY LoadedFields
  <1>3. s \in Cells
    BY DEF Regions
  <1> HIDE DEF s, d
  <1>4. s[2] \in AddrType /\ s[3] \in AddrType /\ s[6] \in AddrType
    BY <1>3, CellTypes
  <1>5. \A a, h : \A t \in AddrType :
           AddrOf(LoadedAddr(a, t, h).type, LoadedAddr(a, t, h).host) = AddrOf(t, h)
    BY DEF AddrOf, LoadedAddr
  <1>6. /\ AddrOf(d.dns1.type, d.dns1.host) = AddrOf(s[2], s[8])
        /\ AddrOf(d.dns2.type, d.dns2.host) = AddrOf(s[3], s[9])
        /\ AddrOf(d.relay.type, d.relay.host) = AddrOf(s[6], s[10])
    BY <1>2, <1>4, <1>5
  <1>7. (IF d.token_init THEN d.token ELSE 0) = IF s[7] # 0 THEN s[11] ELSE 0
    BY <1>2
  <1>8. Meant(d) = Settings(s)
    BY <1>1, <1>2, <1>6, <1>7, MeantFields DEF Settings
  <1> QED BY <1>8 DEF s, d

(* The cells of an image stand for the settings.                           *)
LEMMA SettingsOfImage ==
    ASSUME NEW c \in Config
    PROVE  Settings(Image(c)) = Meant(c)
  <1> DEFINE s == Image(c)
  <1>1. s[4] + 256 * s[5] = c.p2p_port
    BY ConfigFields, ImageCells, PortBytes
  <1>2. /\ s[1] = c.device /\ s[2] = c.dns1.type /\ s[3] = c.dns2.type
        /\ s[6] = c.relay.type
        /\ s[8] = Host(c.dns1) /\ s[9] = Host(c.dns2) /\ s[10] = Host(c.relay)
    BY ImageCells
  <1>3. /\ s[7] = (IF c.token_init THEN 1 ELSE 0)
        /\ s[11] = (IF c.token_init THEN c.token ELSE 0)
    BY ImageCells
  <1> HIDE DEF s
  <1>4. \A a \in Address : AddrOf(a.type, Host(a)) = AddrOf(a.type, a.host)
    BY DEF Address, Host, AddrOf
  <1>5. (s[7] # 0) = c.token_init
    BY <1>3, TokenFlag
  <1>6. (IF s[7] # 0 THEN s[11] ELSE 0) = IF c.token_init THEN c.token ELSE 0
    BY <1>3, <1>5
  <1>7. /\ AddrOf(s[2], s[8]) = AddrOf(c.dns1.type, c.dns1.host)
        /\ AddrOf(s[3], s[9]) = AddrOf(c.dns2.type, c.dns2.host)
        /\ AddrOf(s[6], s[10]) = AddrOf(c.relay.type, c.relay.host)
    BY <1>2, <1>4, ConfigFields
  <1>8. Settings(s) = Meant(c)
    BY <1>1, <1>2, <1>5, <1>6, <1>7, MeantFields DEF Settings
  <1> QED BY <1>8 DEF s
-----------------------------------------------------------------------------
(* Type correctness.                                                       *)

(* Every setter sets a configuration.                                      *)
Setter ==
    \/ mobile_config_set_device \/ mobile_config_set_dns
    \/ mobile_config_set_p2p_port \/ mobile_config_set_relay
    \/ mobile_config_set_relay_token

LEMMA SettersSet ==
    ASSUME StoredOK, Setter
    PROVE  \E c \in Config : Set(c)
  <1>1. config \in Config
    BY DEF StoredOK
  <1>2. CASE mobile_config_set_device
    <2>1. PICK d \in Devices : Set([config EXCEPT !.device = d])
      BY <1>2 DEF mobile_config_set_device
    <2>2. [config EXCEPT !.device = d] \in Config
      BY <1>1, ConfigAssumption DEF Config
    <2> QED BY <2>1, <2>2
  <1>3. CASE mobile_config_set_dns \/ mobile_config_set_relay
    <2>1. PICK a \in Addresses : \/ Set([config EXCEPT !.dns1 = a])
                                 \/ Set([config EXCEPT !.dns2 = a])
                                 \/ Set([config EXCEPT !.relay = a])
      BY <1>3 DEF mobile_config_set_dns, mobile_config_set_relay
    <2>2. a \in Address
      BY ConfigAssumption
    <2>3. /\ [config EXCEPT !.dns1 = a] \in Config
          /\ [config EXCEPT !.dns2 = a] \in Config
          /\ [config EXCEPT !.relay = a] \in Config
      BY <1>1, <2>2 DEF Config
    <2> QED BY <2>1, <2>3
  <1>4. CASE mobile_config_set_p2p_port
    <2>1. PICK p \in Ports : Set([config EXCEPT !.p2p_port = p])
      BY <1>4 DEF mobile_config_set_p2p_port
    <2>2. [config EXCEPT !.p2p_port = p] \in Config
      BY <1>1, ConfigAssumption DEF Config
    <2> QED BY <2>1, <2>2
  <1>5. CASE mobile_config_set_relay_token
    <2>1. CASE Set([config EXCEPT !.token_init = FALSE])
      <3>1. [config EXCEPT !.token_init = FALSE] \in Config
        BY <1>1 DEF Config
      <3> QED BY <2>1, <3>1
    <2>2. CASE \E t \in Tokens : Set([config EXCEPT !.token_init = TRUE, !.token = t])
      <3>1. PICK t \in Tokens : Set([config EXCEPT !.token_init = TRUE, !.token = t])
        BY <2>2
      <3>2. [config EXCEPT !.token_init = TRUE, !.token = t] \in Config
        BY <1>1, ConfigAssumption DEF Config
      <3> QED BY <3>1, <3>2
    <2> QED BY <1>5, <2>1, <2>2 DEF mobile_config_set_relay_token
  <1> QED BY <1>2, <1>3, <1>4, <1>5 DEF Setter

LEMMA FailuresType ==
    failures \in 0 .. MaxFailures /\ (Succeeds \/ Fails)
        => failures' \in 0 .. MaxFailures
  BY ConfigAssumption DEF Succeeds, Fails

LEMMA BeginTypes ==
    ASSUME TypeOK, NEW b \in BOOLEAN, LoadBegin(b)
    PROVE  TypeOK'
  <1>1. FlagsOK /\ StoredOK /\ GameOK /\ CountsOK
    BY TypeParts
  <1>2. FlagsOK'
    BY <1>1 DEF LoadBegin, FlagsOK, settings
  <1>3. StoredOK' /\ GameOK'
    BY <1>1 DEF LoadBegin, StoredOK, GameOK, settings
  <1>4. CountsOK'
    BY <1>1, FailuresType DEF LoadBegin, CountsOK
  <1> QED BY <1>2, <1>3, <1>4, TypePartsNext

LEMMA ClearTypes ==
    ASSUME TypeOK, config_internal_clear
    PROVE  TypeOK'
  <1>1. FlagsOK /\ StoredOK /\ GameOK /\ CountsOK
    BY TypeParts
  <1>2. PICK h \in 1 .. 2 : ClearHalf(h, IF h = 1 THEN "clear1" ELSE "clear2",
                                      IF h = 1 THEN "clear2" ELSE "library")
    BY DEF config_internal_clear
  <1>3. FlagsOK' /\ StoredOK'
    BY <1>1, <1>2 DEF ClearHalf, FlagsOK, StoredOK, settings
  <1>4. GameOK'
    BY <1>1, <1>2 DEF ClearHalf, GameOK, Half
  <1>5. CountsOK'
    BY <1>1, <1>2, FailuresType DEF ClearHalf, CountsOK
  <1> QED BY <1>3, <1>4, <1>5, TypePartsNext

LEMMA LoadTypes ==
    ASSUME TypeOK, config_library_load
    PROVE  TypeOK'
  <1>1. FlagsOK /\ StoredOK /\ GameOK /\ CountsOK
    BY TypeParts
  <1>2. FlagsOK'
    BY <1>1 DEF config_library_load, FlagsOK
  <1>3. StoredOK'
    <2>1. Loaded(config, library) \in Config
      BY <1>1, LoadedType DEF StoredOK
    <2> QED BY <1>1, <2>1 DEF config_library_load, StoredOK
  <1>4. GameOK'
    BY <1>1 DEF config_library_load, GameOK
  <1>5. CountsOK'
    BY <1>1, FailuresType DEF config_library_load, CountsOK
  <1> QED BY <1>2, <1>3, <1>4, <1>5, TypePartsNext

LEMMA StartTypes ==
    ASSUME TypeOK, mobile_start
    PROVE  TypeOK'
  <1>1. CASE loaded
    <2>1. start' = TRUE /\ UNCHANGED <<settings, pc, starting, internal, library, ghosts>>
      BY <1>1 DEF mobile_start
    <2> QED BY <2>1 DEF TypeOK, settings, ghosts
  <1>2. CASE ~loaded
    BY <1>2, BeginTypes DEF mobile_start
  <1> QED BY <1>1, <1>2

LEMMA SaveTypes ==
    ASSUME TypeOK, Save \/ mobile_stop
    PROVE  TypeOK'
  <1>1. FlagsOK /\ StoredOK /\ GameOK /\ CountsOK
    BY TypeParts
  <1>2. \/ mobile_config_save
        \/ UNCHANGED <<settings, library, whole, failures>>
    BY DEF Save, mobile_stop
  <1>3. start' \in BOOLEAN /\ UNCHANGED <<pc, starting, internal, losses>>
    BY <1>1 DEF Save, mobile_stop, program, FlagsOK
  <1>4. config' \in Config /\ library' \in Regions
    <2>1. Region(Image(config)) \in Regions
      BY <1>1, ImageType, RegionType DEF StoredOK
    <2> QED BY <1>1, <1>2, <2>1 DEF mobile_config_save, StoredOK, settings
  <1>5. /\ loaded' \in BOOLEAN /\ dirty' \in BOOLEAN /\ whole' \in BOOLEAN
    BY <1>1, <1>2 DEF mobile_config_save, FlagsOK, settings
  <1>6. failures' \in 0 .. MaxFailures
    BY <1>1, <1>2, FailuresType DEF mobile_config_save, CountsOK
  <1>7. wrote' \in [1 .. 2 -> Half \cup {"none"}]
    BY <1>1 DEF Save, mobile_stop, GameOK
  <1> QED BY <1>1, <1>3, <1>4, <1>5, <1>6, <1>7, TypePartsNext
          DEF FlagsOK, StoredOK, GameOK, CountsOK

LEMMA SetTypes ==
    ASSUME TypeOK, NEW c \in Config, Set(c)
    PROVE  TypeOK'
  <1>1. FlagsOK /\ StoredOK /\ GameOK /\ CountsOK
    BY TypeParts
  <1>2. FlagsOK'
    BY <1>1 DEF Set, FlagsOK, program, ghosts
  <1>3. StoredOK' /\ GameOK' /\ CountsOK'
    BY <1>1 DEF Set, StoredOK, GameOK, CountsOK, program, ghosts
  <1> QED BY <1>2, <1>3, TypePartsNext

(* A game's write does not reach the library's region.                     *)
LEMMA WriteStays ==
    ASSUME command_eeprom_write
    PROVE  \E w \in Writes, s \in Saves : Written(w, s) /\ library' = library
  <1>1. PICK w \in Writes, s \in Saves :
           w.offset + w.size <= RealSize /\ Written(w, s)
    BY DEF command_eeprom_write
  <1>2. w.offset + w.size \in Nat
    <2>1. w \in [offset : Byte, size : 0 .. 254]
      BY ConfigAssumption
    <2>2. w.offset \in Byte /\ w.size \in 0 .. 254
      BY <2>1
    <2>3. \A a \in Byte : \A b \in 0 .. 254 : a + b \in Nat
      BY DEF Byte
    <2> QED BY <2>2, <2>3
  <1>3. ~(w.offset + w.size > LibraryOffset)
    BY <1>1, <1>2 DEF RealSize, LibraryOffset
  <1> QED BY <1>1, <1>3 DEF Written

LEMMA WriteTypes ==
    ASSUME TypeOK, command_eeprom_write
    PROVE  TypeOK'
  <1>1. FlagsOK /\ StoredOK /\ GameOK /\ CountsOK
    BY TypeParts
  <1>2. PICK w \in Writes, s \in Saves : Written(w, s) /\ library' = library
    BY WriteStays
  <1>3. internal' \in [1 .. 2 -> Half]
    BY <1>1, <1>2 DEF Written, GameOK, Half
  <1>4. wrote' \in [1 .. 2 -> Half \cup {"none"}]
    BY <1>1, <1>2, <1>3 DEF Written, GameOK
  <1>5. UNCHANGED <<settings, program, whole, losses, failures>>
    BY DEF command_eeprom_write
  <1>6. FlagsOK'
    BY <1>1, <1>5 DEF FlagsOK, settings, program
  <1>7. StoredOK' /\ CountsOK'
    BY <1>1, <1>2, <1>5 DEF StoredOK, CountsOK, settings, program
  <1> QED BY <1>3, <1>4, <1>6, <1>7, TypePartsNext DEF GameOK

(* What is left of a torn write has cells of their type.                   *)
LEMMA TornType ==
    ASSUME StoredOK, NEW n \in 1 .. 11
    PROVE  Torn(n) \in Regions
  <1> DEFINE s == Image(config)
             mix == [i \in 1 .. 11 |-> IF i < n THEN s[i] ELSE library.cells[i]]
  <1>1. s \in Cells /\ library.cells \in Cells
    BY ImageType DEF StoredOK, Regions
  <1>2. Torn(n) = [Region(s) EXCEPT !.cells = mix]
    BY DEF Torn, Region
  <1> HIDE DEF s
  <1>3. mix \in Cells
    BY <1>1 DEF Cells
  <1>4. Region(s) \in Regions
    BY <1>1, RegionType
  <1> QED BY <1>2, <1>3, <1>4 DEF Regions

LEMMA LossTypes ==
    ASSUME TypeOK, PowerLoss
    PROVE  TypeOK'
  <1>1. FlagsOK /\ StoredOK /\ GameOK /\ CountsOK
    BY TypeParts
  <1>2. internal' \in [1 .. 2 -> Half]
    BY <1>1 DEF PowerLoss, GameOK, Half
  <1>3. library' \in Regions
    BY <1>1, TornType DEF PowerLoss, StoredOK
  <1>4. whole' \in BOOLEAN
    BY <1>1 DEF PowerLoss, FlagsOK
  <1>5. losses' \in 0 .. MaxLosses /\ failures' \in 0 .. MaxFailures
    BY <1>1, ConfigAssumption DEF PowerLoss, CountsOK
  <1>6. wrote' \in [1 .. 2 -> Half \cup {"none"}]
    BY DEF PowerLoss
  <1>7. FlagsOK'
    BY <1>4 DEF PowerLoss, FlagsOK
  <1>8. StoredOK'
    BY <1>3, DefaultsType DEF PowerLoss, StoredOK
  <1>9. CountsOK' /\ GameOK'
    BY <1>2, <1>5, <1>6 DEF PowerLoss, CountsOK, GameOK
  <1> QED BY <1>7, <1>8, <1>9, TypePartsNext

LEMMA TypeInit == Init => TypeOK
  <1> SUFFICES ASSUME Init PROVE TypeOK
    OBVIOUS
  <1>1. FlagsOK
    BY DEF Init, FlagsOK
  <1>2. StoredOK
    BY DefaultsType, BlankType DEF Init, StoredOK
  <1>3. internal \in [1 .. 2 -> Half]
    BY DEF Init, Half
  <1>4. wrote \in [1 .. 2 -> Half \cup {"none"}]
    BY DEF Init
  <1>5. CountsOK
    BY ConfigAssumption DEF Init, CountsOK
  <1> QED BY <1>1, <1>2, <1>3, <1>4, <1>5, TypeParts DEF GameOK

(* The disjuncts of Next, with the setters as one.                         *)
LEMMA NextCases ==
    ASSUME StoredOK, Next
    PROVE  \/ \E b \in BOOLEAN : LoadBegin(b)
           \/ config_internal_clear \/ config_library_load
           \/ mobile_start \/ (Save \/ mobile_stop)
           \/ \E c \in Config : Set(c)
           \/ command_eeprom_write \/ PowerLoss
  BY SettersSet DEF Next, Setter, mobile_config_load

LEMMA TypeStep == TypeOK /\ [Next]_vars => TypeOK'
  <1> SUFFICES ASSUME TypeOK, [Next]_vars PROVE TypeOK'
    OBVIOUS
  <1>1. StoredOK
    BY TypeParts
  <1>2. CASE UNCHANGED vars
    BY <1>2 DEF TypeOK, vars, settings, program, ghosts
  <1>3. CASE Next
    BY <1>1, <1>3, NextCases, BeginTypes, ClearTypes, LoadTypes, StartTypes,
       SaveTypes, SetTypes, WriteTypes, LossTypes
  <1> QED BY <1>2, <1>3

(* Config, TypeOK: the settings, and every cell of storage, stay in the    *)
(* range of their type, whatever fails and wherever power is lost; the     *)
(* address types that are loaded are known ones.                           *)
THEOREM SettingsTyped == Spec => []TypeOK
  BY TypeInit, TypeStep, PTL DEF Spec

-----------------------------------------------------------------------------
(* Clean settings are in storage.                                          *)

LEMMA CleanStep == TypeOK /\ CleanIsStored /\ [Next]_vars => CleanIsStored'
  <1> SUFFICES ASSUME TypeOK, CleanIsStored, [Next]_vars PROVE CleanIsStored'
    OBVIOUS
  <1>1. StoredOK /\ StoredOK' /\ dirty \in BOOLEAN /\ failures \in Nat
    BY TypeParts, TypePartsNext, TypeStep DEF FlagsOK, CountsOK
  <1>2. CASE UNCHANGED <<config, dirty, library>> /\ (failures' = 0 => failures = 0)
    BY <1>2 DEF CleanIsStored
  <1>3. CASE dirty'
    BY <1>3 DEF CleanIsStored
  <1>4. CASE UNCHANGED vars
    BY <1>2, <1>4 DEF vars, settings, ghosts
  <1>5. ASSUME Succeeds \/ Fails, failures' = 0 PROVE Succeeds /\ failures = 0
    BY <1>1, <1>5 DEF Succeeds, Fails
  <1>6. ASSUME NEW b \in BOOLEAN, LoadBegin(b) PROVE CleanIsStored'
    BY <1>2, <1>5, <1>6 DEF LoadBegin, settings
  <1>7. CASE config_internal_clear
    <2>1. UNCHANGED <<settings, library>> /\ (Succeeds \/ Fails)
      BY <1>7 DEF config_internal_clear, ClearHalf
    <2> QED BY <1>2, <1>5, <2>1 DEF settings
  <1>8. CASE config_library_load
    <2>1. CASE Fails
      BY <1>1, <2>1 DEF Fails, CleanIsStored
    <2>2. CASE ~Fails
      <3>1. /\ config' = Loaded(config, library)
            /\ dirty' = (dirty /\ ~(Matches(library) /\ TypesKnown(library)))
            /\ library' = library /\ failures' = failures
        BY <1>8, <2>2 DEF config_library_load, Succeeds
      <3>2. CASE Matches(library)
        <4>1. TypesKnown(library)
          BY <1>1, StoredTypesKnown DEF StoredOK
        <4>2. Meant(Loaded(Defaults, library)) = Meant(Loaded(config, library))
          BY <1>1, <3>2, DefaultsType, MeantLoaded DEF StoredOK
        <4> QED BY <3>1, <3>2, <4>1, <4>2 DEF CleanIsStored
      <3>3. CASE ~Matches(library)
        <4>1. config' = config /\ dirty' = dirty
          BY <1>1, <3>1, <3>3 DEF Loaded
        <4> QED BY <1>2, <3>1, <4>1
      <3> QED BY <3>2, <3>3
    <2> QED BY <2>1, <2>2
  <1>9. CASE mobile_start
    BY <1>2, <1>6, <1>9 DEF mobile_start, settings, ghosts
  <1>10. CASE Save \/ mobile_stop
    <2>1. CASE mobile_config_save
      <3>1. CASE Fails
        BY <1>1, <3>1 DEF Fails, CleanIsStored
      <3>2. CASE ~Fails
        <4>1. library' = Region(Image(config)) /\ config' = config
          BY <2>1, <3>2 DEF mobile_config_save
        <4> DEFINE r == Region(Image(config))
        <4>2. r \in Regions /\ Matches(r) /\ r.cells = Image(config)
          BY <1>1, ImageType, RegionType DEF StoredOK, Region
        <4>3. TypesKnown(r)
          BY <4>2, StoredTypesKnown
        <4>4. Meant(Loaded(Defaults, r)) = Meant(config)
          BY <1>1, <4>2, DefaultsType, MeantLoaded, SettingsOfImage DEF StoredOK
        <4> QED BY <4>1, <4>2, <4>3, <4>4 DEF CleanIsStored
      <3> QED BY <3>1, <3>2
    <2>2. CASE UNCHANGED <<settings, library, whole, failures>>
      BY <1>2, <2>2 DEF settings
    <2> QED BY <1>10, <2>1, <2>2 DEF Save, mobile_stop
  <1>11. ASSUME NEW c \in Config, Set(c) PROVE CleanIsStored'
    BY <1>3, <1>11 DEF Set
  <1>12. CASE command_eeprom_write
    <2>1. library' = library /\ UNCHANGED <<settings, failures>>
      BY <1>12, WriteStays DEF command_eeprom_write
    <2> QED BY <1>2, <2>1 DEF settings
  <1>13. CASE PowerLoss
    BY <1>3, <1>13 DEF PowerLoss
  <1> QED BY <1>1, <1>4, <1>6, <1>7, <1>8, <1>9, <1>10, <1>11, <1>12, <1>13,
             NextCases

(* Config, CleanIsStored: as long as no call of storage failed, settings   *)
(* without the mark of a change survive: wherever power is lost, the next  *)
(* load finds them, for all settings and any number of losses.             *)
THEOREM CleanSettingsStored == Spec => []CleanIsStored
  <1>1. Init => CleanIsStored
    BY DEF Init, CleanIsStored
  <1> QED BY <1>1, CleanStep, SettingsTyped, PTL DEF Spec

-----------------------------------------------------------------------------
(* The data of the games.                                                  *)

(* Storage is loaded only while the library does not run, and what was     *)
(* written is forgotten when it stops.                                     *)
GameInv ==
    /\ pc # "idle" => ~start
    /\ ~start => wrote = <<"none", "none">>
    /\ GameWritesKept

LEMMA GameStep == GameInv /\ [Next]_vars => GameInv'
  <1> SUFFICES ASSUME GameInv, [Next]_vars PROVE GameInv'
    OBVIOUS
  <1>1. CASE UNCHANGED <<pc, start, wrote, internal>>
    BY <1>1 DEF GameInv, GameWritesKept
  <1>2. CASE UNCHANGED vars
    BY <1>1, <1>2 DEF vars, program, ghosts
  <1>3. ASSUME NEW b, LoadBegin(b) PROVE GameInv'
    BY <1>3 DEF LoadBegin, GameInv, GameWritesKept
  <1>4. CASE config_internal_clear
    BY <1>4 DEF config_internal_clear, ClearHalf, GameInv, GameWritesKept
  <1>5. CASE config_library_load
    <2>1. ~start /\ wrote = <<"none", "none">>
      BY <1>5 DEF config_library_load, GameInv
    <2> QED BY <1>5, <2>1 DEF config_library_load, GameInv, GameWritesKept
  <1>6. CASE mobile_start
    <2>1. CASE loaded
      <3>1. ~start /\ wrote = <<"none", "none">> /\ UNCHANGED <<pc, internal, wrote>>
            /\ pc = "idle"
        BY <1>6, <2>1 DEF mobile_start, GameInv, ghosts
      <3> QED BY <3>1 DEF GameInv, GameWritesKept
    <2> QED BY <1>3, <1>6, <2>1 DEF mobile_start
  <1>7. CASE Save
    BY <1>1, <1>7 DEF Save, program
  <1>8. CASE mobile_stop
    BY <1>8 DEF mobile_stop, GameInv, GameWritesKept
  <1>9. ASSUME NEW c, Set(c) PROVE GameInv'
    BY <1>1, <1>9 DEF Set, program, ghosts
  <1>10. CASE Setter
    BY <1>9, <1>10 DEF Setter, mobile_config_set_device, mobile_config_set_dns,
       mobile_config_set_p2p_port, mobile_config_set_relay,
       mobile_config_set_relay_token
  <1>11. CASE command_eeprom_write
    <2>1. PICK w \in Writes, s \in Saves : Written(w, s)
      BY <1>11 DEF command_eeprom_write
    <2>2. start /\ start' /\ pc' = "idle"
      BY <1>11 DEF command_eeprom_write, program
    <2>3. ASSUME NEW h \in 1 .. 2, wrote'[h] # "none" PROVE internal'[h] = wrote'[h]
      <3>1. wrote'[h] = IF Touches(w, h) THEN internal'[h] ELSE wrote[h]
        BY <2>1 DEF Written
      <3>2. ~Touches(w, h) => internal'[h] = internal[h]
        BY <2>1 DEF Written
      <3> QED BY <2>2, <2>3, <3>1, <3>2 DEF GameInv, GameWritesKept
    <2> QED BY <2>2, <2>3 DEF GameInv, GameWritesKept
  <1>12. CASE PowerLoss
    BY <1>12 DEF PowerLoss, GameInv, GameWritesKept
  <1> QED BY <1>2, <1>3, <1>4, <1>5, <1>6, <1>7, <1>8, <1>10, <1>11, <1>12
          DEF Next, Setter, mobile_config_load

(* Config, GameWritesKept: what a game wrote since the library started is  *)
(* in storage until it stops, for every order and size of the writes and   *)
(* whatever fails.                                                         *)
THEOREM GameWritesSafe == Spec => []GameWritesKept
  <1>1. Init => GameInv
    BY DEF Init, GameInv, GameWritesKept
  <1>2. GameInv => GameWritesKept
    BY DEF GameInv
  <1> QED BY <1>1, <1>2, GameStep, PTL DEF Spec

(* Data that are being cleared are not valid.                              *)
ValidData == \E s \in Saves : internal = <<s, s>>

ClearInv == failures = 0 /\ pc \in {"clear1", "clear2"} => ~ValidData

LEMMA ClearsInvalid == TypeOK /\ ClearInv /\ [Next]_vars => ClearInv'
  <1> SUFFICES ASSUME TypeOK, ClearInv, [Next]_vars PROVE ClearInv'
    OBVIOUS
  <1>1. StoredOK /\ failures \in Nat
    BY TypeParts DEF CountsOK
  <1>2. CASE pc' \notin {"clear1", "clear2"}
    BY <1>2 DEF ClearInv
  <1>3. CASE UNCHANGED <<pc, internal, failures>>
    BY <1>3 DEF ClearInv, ValidData
  <1>4. CASE UNCHANGED vars
    BY <1>3, <1>4 DEF vars, program, ghosts
  <1>5. ASSUME NEW b \in BOOLEAN, LoadBegin(b) PROVE ClearInv'
    <2>1. internal' = internal
      BY <1>5 DEF LoadBegin
    <2>2. CASE Fails
      BY <1>1, <2>2 DEF Fails, ClearInv
    <2>3. CASE ~Fails
      <3>1. pc' = IF config_internal_verify THEN "library" ELSE "clear1"
        BY <1>5, <2>3 DEF LoadBegin
      <3>2. ValidData => config_internal_verify
        BY DEF ValidData, config_internal_verify
      <3> QED BY <2>1, <3>1, <3>2 DEF ClearInv, ValidData
    <2> QED BY <2>2, <2>3
  <1>6. CASE config_internal_clear
    <2>1. CASE ClearHalf(1, "clear1", "clear2")
      <3>1. CASE Fails
        BY <1>1, <3>1 DEF Fails, ClearInv
      <3>2. CASE ~Fails
        <4>1. internal' = [internal EXCEPT ![1] = "zero"]
          BY <2>1, <3>2 DEF ClearHalf
        <4>2. internal'[1] = "zero"
          BY <4>1 DEF TypeOK
        <4> QED BY <4>2, ConfigAssumption DEF ClearInv, ValidData
      <3> QED BY <3>1, <3>2
    <2>2. CASE ClearHalf(2, "clear2", "library")
      BY <1>2, <2>2 DEF ClearHalf
    <2> QED BY <1>6, <2>1, <2>2 DEF config_internal_clear
  <1>7. CASE config_library_load
    BY <1>2, <1>7 DEF config_library_load
  <1>8. CASE mobile_start
    BY <1>3, <1>5, <1>8 DEF mobile_start, ghosts
  <1>9. CASE Save \/ mobile_stop
    BY <1>2, <1>9 DEF Save, mobile_stop, program
  <1>10. ASSUME NEW c \in Config, Set(c) PROVE ClearInv'
    BY <1>2, <1>10 DEF Set, program
  <1>11. CASE command_eeprom_write
    BY <1>2, <1>11 DEF command_eeprom_write, program
  <1>12. CASE PowerLoss
    BY <1>2, <1>12 DEF PowerLoss
  <1> QED BY <1>1, <1>4, <1>5, <1>6, <1>7, <1>8, <1>9, <1>10, <1>11, <1>12,
             NextCases

LEMMA KeptStep ==
    TypeOK /\ ClearInv /\ [Next]_vars =>
        [ValidData /\ failures = 0 =>
             internal' = internal \/ command_eeprom_write]_vars
  <1> SUFFICES ASSUME TypeOK, ClearInv, Next, ValidData, failures = 0
               PROVE  internal' = internal \/ command_eeprom_write
    OBVIOUS
  <1>1. StoredOK
    BY TypeParts
  <1>2. pc \notin {"clear1", "clear2"}
    BY DEF ClearInv
  <1> QED BY <1>1, <1>2, NextCases DEF LoadBegin, config_internal_clear, ClearHalf,
          config_library_load, mobile_start, Save, mobile_stop, Set, PowerLoss

(* Config, GameDataKept: the library clears only data that are not valid,  *)
(* wherever power is lost while it does.                                   *)
THEOREM GameDataSafe == Spec => GameDataKept
  <1>1. Init => ClearInv
    BY DEF Init, ClearInv
  <1>2. [ValidData /\ failures = 0 =>
             internal' = internal \/ command_eeprom_write]_vars
          => [(\E s \in Saves : internal = <<s, s>>) /\ failures = 0 =>
                 internal' = internal \/ command_eeprom_write]_vars
    BY DEF ValidData
  <1> QED BY <1>1, <1>2, KeptStep, ClearsInvalid, SettingsTyped, PTL
          DEF Spec, GameDataKept

-----------------------------------------------------------------------------
(* A region that power was lost in.                                        *)

(* The cells are too small for their sum to overflow.                      *)
LEMMA CellBounds ==
    ASSUME NEW s \in Cells
    PROVE  \A i \in 1 .. 11 : s[i] \in Nat /\ s[i] <= 4590
  <1>1. \A n \in HostSum : n \in Nat /\ n <= 4590
    BY DEF HostSum
  <1> QED BY <1>1 DEF Cells

LEMMA ChecksumIsSum ==
    ASSUME NEW s \in Cells
    PROVE  checksum(s) = Sum(s) /\ Sum(s) \in Nat
  <1>1. s \in Seq(Nat) /\ Len(s) = 11
    BY CellsAreNumbers
  <1>2. Sum(s) \in Nat
    BY <1>1, SumType
  <1>3. Sum(s) <= 4590 * Len(s)
    <2>1. \A m \in Nat : (\A i \in 1 .. Len(s) : s[i] <= m) => Sum(s) <= m * Len(s)
      BY <1>1, SumBound
    <2>2. \A m \in Nat : (\A i \in 1 .. 11 : s[i] <= m) => Sum(s) <= m * Len(s)
      BY <1>1, <2>1
    <2>3. \A i \in 1 .. 11 : s[i] <= 4590
      BY CellBounds
    <2> QED BY <2>2, <2>3
  <1> DEFINE n == Sum(s)
  <1>4. n \in Nat /\ n <= 50490
    BY <1>1, <1>2, <1>3
  <1> HIDE DEF n
  <1>5. n % 65536 = n
    BY <1>4
  <1> QED BY <1>2, <1>5 DEF checksum, n

(* The cells t, of which only those before n are written over s.           *)
Mixed(s, t, n) == [i \in 1 .. 11 |-> IF i < n THEN t[i] ELSE s[i]]

LEMMA MixedType ==
    ASSUME NEW s \in Cells, NEW t \in Cells, NEW n \in 1 .. 11
    PROVE  Mixed(s, t, n) \in Cells
  BY DEF Mixed, Cells

LEMMA SameCells ==
    ASSUME NEW s \in Cells, NEW t \in Cells, \A i \in 1 .. 11 : s[i] = t[i]
    PROVE  s = t
  BY DEF Cells

(* Over a region that is blank, the sum tells every tear.                  *)
LEMMA TornOverBlank ==
    ASSUME NEW s \in Cells, NEW t \in Cells, NEW n \in 1 .. 11,
           \A i \in 1 .. 11 : s[i] = 0,
           checksum(Mixed(s, t, n)) = checksum(t)
    PROVE  Mixed(s, t, n) = t
  <1> DEFINE m == Mixed(s, t, n)
  <1>1. \A i \in 1 .. 11 : m[i] = t[i] \/ m[i] = 0
    BY DEF Mixed
  <1>2. m \in Cells
    BY MixedType
  <1>3. Sum(m) = Sum(t)
    BY <1>2, ChecksumIsSum
  <1> HIDE DEF m
  <1>4. /\ m \in Seq(Nat) /\ Len(m) = 11
        /\ t \in Seq(Nat) /\ Len(t) = 11
    BY <1>2, CellsAreNumbers
  <1>5. \A i \in 1 .. 11 : m[i] <= t[i]
    BY <1>1, CellBounds
  <1>6. \A i \in 1 .. 11 : m[i] = t[i]
    <2>1. Len(m) = Len(t) /\ \A i \in 1 .. Len(m) : m[i] <= t[i]
      BY <1>4, <1>5
    <2>2. \A i \in 1 .. Len(m) : m[i] = t[i]
      BY <1>3, <1>4, <2>1, SumOfBelow
    <2> QED BY <1>4, <2>2
  <1>7. m = t
    BY <1>2, <1>6, SameCells
  <1> QED BY <1>7 DEF m

(* The cells of one setting; two sets of cells that differ in one setting. *)
Groups == {<<1, 1>>, <<2, 8>>, <<3, 9>>, <<4, 5>>, <<6, 10>>, <<7, 11>>}

OneChange(s, t) ==
    \E g \in Groups : \A i \in 1 .. 11 : i \notin {g[1], g[2]} => s[i] = t[i]

(* After a change of one setting, the sum tells every tear that leaves     *)
(* neither the old region nor the new one.                                 *)
LEMMA TornChange ==
    ASSUME NEW s \in Cells, NEW t \in Cells, NEW n \in 1 .. 11, OneChange(s, t),
           checksum(Mixed(s, t, n)) = checksum(t)
    PROVE  Mixed(s, t, n) = t \/ Mixed(s, t, n) = s
  <1> DEFINE m == Mixed(s, t, n)
  <1>1. PICK g \in Groups : \A i \in 1 .. 11 : i \notin {g[1], g[2]} => s[i] = t[i]
    BY DEF OneChange
  <1> DEFINE a == g[1]
             b == g[2]
  <1>2. a \in 1 .. 11 /\ b \in 1 .. 11 /\ a <= b
    BY DEF Groups
  <1>3. \A i \in 1 .. 11 : m[i] = IF i < n THEN t[i] ELSE s[i]
    BY DEF Mixed
  <1>4. m \in Cells
    BY MixedType
  <1>5. Sum(m) = Sum(t)
    BY <1>4, ChecksumIsSum
  <1> HIDE DEF m, a, b
  <1>6. \A i \in 1 .. 11 : i # a /\ i # b => m[i] = t[i] /\ s[i] = t[i]
    BY <1>1, <1>3 DEF a, b
  <1>7. CASE n <= a
    <2>1. \A i \in 1 .. 11 : m[i] = s[i]
      <3>1. m[a] = s[a] /\ m[b] = s[b]
        BY <1>2, <1>3, <1>7
      <3> QED BY <1>6, <3>1
    <2> QED BY <1>4, <2>1, SameCells DEF m
  <1>8. CASE a < n
    <2>1. m[a] = t[a]
      BY <1>2, <1>3, <1>8
    <2>2. \A i \in 1 .. 11 : i # b => m[i] = t[i]
      BY <1>6, <2>1
    <2>3. m[b] = t[b]
      <3>1. /\ m \in Seq(Nat) /\ Len(m) = 11
            /\ t \in Seq(Nat) /\ Len(t) = 11
        BY <1>4, CellsAreNumbers
      <3>2. Sum(m) + t[b] = Sum(t) + m[b]
        <4>1. Len(m) = Len(t) /\ b \in 1 .. Len(m)
          BY <1>2, <3>1
        <4>2. \A i \in 1 .. Len(m) : i # b => m[i] = t[i]
          BY <2>2, <3>1
        <4> QED BY <3>1, <4>1, <4>2, SumOfOneChange
      <3>3. /\ Sum(m) \in Nat /\ Sum(t) \in Nat
            /\ m[b] \in Nat /\ t[b] \in Nat
        BY <1>2, <1>4, CellBounds, ChecksumIsSum
      <3> QED BY <1>5, <3>2, <3>3
    <2>4. \A i \in 1 .. 11 : m[i] = t[i]
      BY <2>2, <2>3
    <2> QED BY <1>4, <2>4, SameCells DEF m
  <1>9. n <= a \/ a < n
    BY <1>2
  <1> QED BY <1>7, <1>8, <1>9

(* What a region that was written as a whole holds: nothing but zeroes     *)
(* where a setting has no value.                                           *)
Canonical(r) ==
    /\ r = Region(r.cells)
    /\ r.cells[2] = 0 => r.cells[8] = 0
    /\ r.cells[3] = 0 => r.cells[9] = 0
    /\ r.cells[6] = 0 => r.cells[10] = 0
    /\ r.cells[7] = 0 => r.cells[11] = 0

LEMMA ImageCanonical == \A c \in Config : Canonical(Region(Image(c)))
  <1> SUFFICES ASSUME NEW c \in Config PROVE Canonical(Region(Image(c)))
    OBVIOUS
  <1>1. \A a : a.type = 0 => Host(a) = 0
    BY DEF Host
  <1> DEFINE s == Image(c)
  <1>2. /\ s[2] = 0 => s[8] = 0
        /\ s[3] = 0 => s[9] = 0
        /\ s[6] = 0 => s[10] = 0
    BY <1>1, ImageCells
  <1>3. s[7] = 0 => s[11] = 0
    BY ImageCells
  <1> HIDE DEF s
  <1>4. Region(s).cells = s
    BY DEF Region
  <1>5. Canonical(Region(s))
    BY <1>2, <1>3, <1>4 DEF Canonical
  <1> QED BY <1>5 DEF s

(* What was loaded from such a region is saved to it unchanged.            *)
LEMMA ImageOfLoaded ==
    ASSUME NEW c \in Config, NEW r \in Regions, Matches(r), Canonical(r)
    PROVE  Image(Loaded(c, r)) = r.cells
  <1> DEFINE s == r.cells
             d == Loaded(c, r)
             t == Image(d)
  <1>1. d \in Config /\ s \in Cells
    BY LoadedType DEF Regions
  <1>2. /\ d.device = s[1] /\ d.p2p_port = s[4] + 256 * s[5]
        /\ d.dns1 = LoadedAddr(c.dns1, s[2], s[8])
        /\ d.dns2 = LoadedAddr(c.dns2, s[3], s[9])
        /\ d.relay = LoadedAddr(c.relay, s[6], s[10])
    BY LoadedFields
  <1>3. d.token_init = (s[7] # 0)
    BY LoadedFields
  <1>4. d.token = IF s[7] # 0 THEN s[11] ELSE c.token
    BY LoadedFields
  <1>5. /\ s[2] = 0 => s[8] = 0
        /\ s[3] = 0 => s[9] = 0
        /\ s[6] = 0 => s[10] = 0
        /\ s[7] = 0 => s[11] = 0
    BY DEF Canonical
  <1>6. t \in Cells
    BY <1>1, ImageType
  <1>7. /\ t[1] = d.device /\ t[2] = d.dns1.type /\ t[3] = d.dns2.type
        /\ t[4] = d.p2p_port % 256 /\ t[5] = (d.p2p_port \div 256) % 256
        /\ t[6] = d.relay.type
        /\ t[8] = Host(d.dns1) /\ t[9] = Host(d.dns2) /\ t[10] = Host(d.relay)
    BY <1>1, ImageCells
  <1>8. /\ t[7] = (IF d.token_init THEN 1 ELSE 0)
        /\ t[11] = (IF d.token_init THEN d.token ELSE 0)
    BY <1>1, ImageCells
  <1> HIDE DEF s, d, t
  <1>9. \A a, h : \A y \in AddrType : (y = 0 => h = 0) =>
           LoadedAddr(a, y, h).type = y /\ Host(LoadedAddr(a, y, h)) = h
    BY DEF LoadedAddr, Host, AddrType
  <1>10. t[4] = s[4] /\ t[5] = s[5]
    <2> DEFINE p == d.p2p_port
    <2>1. s[4] \in Byte /\ s[5] \in Byte /\ p = s[4] + 256 * s[5]
      BY <1>1, <1>2, CellTypes
    <2>2. t[4] = p % 256 /\ t[5] = (p \div 256) % 256
      BY <1>7
    <2> HIDE DEF p
    <2>3. p % 256 = s[4] /\ (p \div 256) % 256 = s[5]
      BY <2>1, PortSplit
    <2> QED BY <2>2, <2>3
  <1>11. t[1] = s[1] /\ t[2] = s[2] /\ t[3] = s[3] /\ t[6] = s[6]
         /\ t[8] = s[8] /\ t[9] = s[9] /\ t[10] = s[10]
    BY <1>1, <1>2, <1>5, <1>7, <1>9, CellTypes
  <1>12. t[7] = s[7] /\ t[11] = s[11]
    <2>1. s[7] \in {0, 1}
      BY <1>1, CellTypes
    <2>2. CASE s[7] = 0
      BY <1>3, <1>5, <1>8, <2>2
    <2>3. CASE s[7] = 1
      <3>1. (s[7] # 0) = TRUE
        BY <2>3
      <3>2. d.token_init = TRUE
        BY <1>3, <3>1
      <3>3. d.token = s[11]
        BY <1>4, <3>1
      <3> QED BY <1>8, <2>3, <3>2, <3>3
    <2> QED BY <2>1, <2>2, <2>3
  <1>13. \A i \in 1 .. 11 : t[i] = s[i]
    BY <1>10, <1>11, <1>12
  <1>14. t = s
    BY <1>1, <1>6, <1>13, SameCells
  <1> QED BY <1>14 DEF s, d, t

(* Cells that two configurations with a setting in common have in common.  *)
LEMMA CommonCells ==
    ASSUME NEW c \in Config, NEW d \in Config
    PROVE  LET s == Image(c)
               t == Image(d)
           IN  /\ c.device = d.device => s[1] = t[1]
               /\ c.dns1 = d.dns1 => s[2] = t[2] /\ s[8] = t[8]
               /\ c.dns2 = d.dns2 => s[3] = t[3] /\ s[9] = t[9]
               /\ c.p2p_port = d.p2p_port => s[4] = t[4] /\ s[5] = t[5]
               /\ c.relay = d.relay => s[6] = t[6] /\ s[10] = t[10]
               /\ c.token_init = d.token_init /\ c.token = d.token =>
                     s[7] = t[7] /\ s[11] = t[11]
  <1> DEFINE s == Image(c)
             t == Image(d)
  <1>1. c.device = d.device => s[1] = t[1]
    BY ImageCells
  <1>2. c.dns1 = d.dns1 => s[2] = t[2] /\ s[8] = t[8]
    BY ImageCells
  <1>3. c.dns2 = d.dns2 => s[3] = t[3] /\ s[9] = t[9]
    BY ImageCells
  <1>4. c.p2p_port = d.p2p_port => s[4] = t[4] /\ s[5] = t[5]
    BY ImageCells
  <1>5. c.relay = d.relay => s[6] = t[6] /\ s[10] = t[10]
    BY ImageCells
  <1>6. c.token_init = d.token_init /\ c.token = d.token =>
           s[7] = t[7] /\ s[11] = t[11]
    BY ImageCells
  <1> QED BY <1>1, <1>2, <1>3, <1>4, <1>5, <1>6

(* A setter changes the cells of one setting.                              *)
LEMMA SetterChanges ==
    ASSUME StoredOK, StoredOK', Setter
    PROVE  OneChange(Image(config), Image(config'))
  <1>1. config \in Config /\ config' \in Config
    BY DEF StoredOK
  <1> DEFINE s == Image(config)
             t == Image(config')
             same_device == config.device = config'.device
             same_dns1 == config.dns1 = config'.dns1
             same_dns2 == config.dns2 = config'.dns2
             same_port == config.p2p_port = config'.p2p_port
             same_relay == config.relay = config'.relay
             same_token == /\ config.token_init = config'.token_init
                           /\ config.token = config'.token
  <1>2. /\ same_device => s[1] = t[1]
        /\ same_dns1 => s[2] = t[2] /\ s[8] = t[8]
        /\ same_dns2 => s[3] = t[3] /\ s[9] = t[9]
        /\ same_port => s[4] = t[4] /\ s[5] = t[5]
        /\ same_relay => s[6] = t[6] /\ s[10] = t[10]
        /\ same_token => s[7] = t[7] /\ s[11] = t[11]
    BY <1>1, CommonCells
  <1>3. \/ same_dns1 /\ same_dns2 /\ same_port /\ same_relay /\ same_token
        \/ same_device /\ same_dns2 /\ same_port /\ same_relay /\ same_token
        \/ same_device /\ same_dns1 /\ same_port /\ same_relay /\ same_token
        \/ same_device /\ same_dns1 /\ same_dns2 /\ same_relay /\ same_token
        \/ same_device /\ same_dns1 /\ same_dns2 /\ same_port /\ same_token
        \/ same_device /\ same_dns1 /\ same_dns2 /\ same_port /\ same_relay
    <2>1. CASE mobile_config_set_device
      BY <1>1, <2>1 DEF mobile_config_set_device, Set, Config
    <2>2. CASE mobile_config_set_dns
      BY <1>1, <2>2 DEF mobile_config_set_dns, Set, Config
    <2>3. CASE mobile_config_set_p2p_port
      BY <1>1, <2>3 DEF mobile_config_set_p2p_port, Set, Config
    <2>4. CASE mobile_config_set_relay
      BY <1>1, <2>4 DEF mobile_config_set_relay, Set, Config
    <2>5. CASE mobile_config_set_relay_token
      BY <1>1, <2>5 DEF mobile_config_set_relay_token, Set, Config
    <2> QED BY <2>1, <2>2, <2>3, <2>4, <2>5 DEF Setter
  <1> HIDE DEF s, t, same_device, same_dns1, same_dns2, same_port, same_relay,
               same_token
  <1>4. \E g \in Groups : \A i \in 1 .. 11 : i \notin {g[1], g[2]} => s[i] = t[i]
    <2>1. CASE same_dns1 /\ same_dns2 /\ same_port /\ same_relay /\ same_token
      <3>1. \A i \in 1 .. 11 : i \notin {1, 1} => s[i] = t[i]
        BY <1>2, <2>1
      <3> QED BY <3>1 DEF Groups
    <2>2. CASE same_device /\ same_dns2 /\ same_port /\ same_relay /\ same_token
      <3>1. \A i \in 1 .. 11 : i \notin {2, 8} => s[i] = t[i]
        BY <1>2, <2>2
      <3> QED BY <3>1 DEF Groups
    <2>3. CASE same_device /\ same_dns1 /\ same_port /\ same_relay /\ same_token
      <3>1. \A i \in 1 .. 11 : i \notin {3, 9} => s[i] = t[i]
        BY <1>2, <2>3
      <3> QED BY <3>1 DEF Groups
    <2>4. CASE same_device /\ same_dns1 /\ same_dns2 /\ same_relay /\ same_token
      <3>1. \A i \in 1 .. 11 : i \notin {4, 5} => s[i] = t[i]
        BY <1>2, <2>4
      <3> QED BY <3>1 DEF Groups
    <2>5. CASE same_device /\ same_dns1 /\ same_dns2 /\ same_port /\ same_token
      <3>1. \A i \in 1 .. 11 : i \notin {6, 10} => s[i] = t[i]
        BY <1>2, <2>5
      <3> QED BY <3>1 DEF Groups
    <2>6. CASE same_device /\ same_dns1 /\ same_dns2 /\ same_port /\ same_relay
      <3>1. \A i \in 1 .. 11 : i \notin {7, 11} => s[i] = t[i]
        BY <1>2, <2>6
      <3> QED BY <3>1 DEF Groups
    <2> QED BY <1>3, <2>1, <2>2, <2>3, <2>4, <2>5, <2>6
  <1> QED BY <1>4 DEF OneChange, s, t

(* As long as no call failed, each setting is saved before the next one is *)
(* changed, and power was lost at most once: a region that is accepted was *)
(* written as a whole, and before the loss it differs from the settings in *)
(* memory by one of them.                                                  *)
SavedInv ==
    /\ Matches(library) => whole
    /\ whole => Canonical(library)
    /\ ~dirty => whole /\ library.cells = Image(config)
    /\ losses = 0 => \/ library = Blank /\ dirty
                     \/ whole /\ OneChange(library.cells, Image(config))

WholeInv == failures = 0 /\ OneAtATime /\ losses <= 1 => SavedInv

LEMMA CanonicalMatches == \A r : Canonical(r) => Matches(r)
  BY DEF Canonical, Region, Matches

LEMMA NoChange == \A s : OneChange(s, s)
  BY DEF OneChange, Groups

(* The steps of WholeInv, from a state to one where it says something.     *)
LEMMA LoadSaved ==
    ASSUME StoredOK, FlagsOK, SavedInv, config_library_load, ~Fails
    PROVE  SavedInv'
  <1>1. /\ config' = Loaded(config, library)
        /\ dirty' = (dirty /\ ~(Matches(library) /\ TypesKnown(library)))
        /\ library' = library /\ whole' = whole /\ losses' = losses
    BY DEF config_library_load
  <1>2. CASE Matches(library)
    <2>1. whole /\ Canonical(library)
      BY <1>2 DEF SavedInv
    <2>2. Image(config') = library.cells
      BY <1>1, <1>2, <2>1, ImageOfLoaded DEF StoredOK
    <2> QED BY <1>1, <2>1, <2>2, NoChange DEF SavedInv
  <1>3. CASE ~Matches(library)
    <2>1. ~whole /\ dirty
      BY <1>3, CanonicalMatches DEF SavedInv, FlagsOK
    <2>2. dirty'
      BY <1>1, <1>3, <2>1
    <2>3. config' = config
      BY <1>1, <1>3 DEF Loaded
    <2> QED BY <1>1, <1>3, <2>1, <2>2, <2>3 DEF SavedInv
  <1> QED BY <1>2, <1>3

LEMMA SaveSaved ==
    ASSUME StoredOK, mobile_config_save, ~Fails
    PROVE  SavedInv'
  <1>1. /\ library' = Region(Image(config)) /\ whole' = TRUE
        /\ dirty' = FALSE /\ config' = config
    BY DEF mobile_config_save
  <1>2. Canonical(library') /\ library'.cells = Image(config')
    BY <1>1, ImageCanonical DEF StoredOK, Region
  <1> QED BY <1>1, <1>2, NoChange DEF SavedInv

LEMMA SetSaved ==
    ASSUME StoredOK, StoredOK', FlagsOK, SavedInv, OneAtATime, Setter
    PROVE  SavedInv'
  <1>1. PICK c \in Config : Set(c)
    BY SettersSet
  <1>2. ~dirty /\ dirty' = TRUE /\ UNCHANGED <<library, whole, losses>>
    BY <1>1 DEF Set, ghosts
  <1>3. whole /\ library.cells = Image(config)
    BY <1>2 DEF SavedInv
  <1>4. OneChange(library.cells, Image(config'))
    BY <1>3, SetterChanges
  <1> QED BY <1>2, <1>3, <1>4 DEF SavedInv

LEMMA LossSaved ==
    ASSUME StoredOK, SavedInv, PowerLoss, losses = 0
    PROVE  SavedInv'
  <1>1. losses' = 1 /\ dirty' = TRUE
    BY DEF PowerLoss
  <1>2. CASE UNCHANGED <<library, whole>>
    BY <1>1, <1>2 DEF SavedInv
  <1>3. ASSUME NEW n \in 1 .. 11, dirty, library' = Torn(n),
               whole' = (\/ Torn(n) = Region(Image(config))
                         \/ whole /\ Torn(n) = library)
        PROVE  SavedInv'
    <2> DEFINE t == Image(config)
               s == library.cells
               m == Mixed(s, t, n)
    <2>1. s \in Cells /\ t \in Cells
      BY ImageType DEF StoredOK, Regions
    <2>2. Torn(n) = [magic |-> TRUE, sum |-> checksum(t), cells |-> m]
      <3>1. n # 0
        OBVIOUS
      <3>2. Torn(n) = [Region(t) EXCEPT !.cells = m]
        <4>1. Torn(n) = [Region(t) EXCEPT !.cells =
                            [i \in 1 .. 11 |-> IF i < n THEN Region(t).cells[i]
                                               ELSE s[i]]]
          BY <3>1 DEF Torn
        <4> HIDE DEF s, t
        <4>2. Region(t).cells = t
          BY DEF Region
        <4> QED BY <4>1, <4>2 DEF Mixed
      <3> HIDE DEF t, m
      <3> QED BY <3>2 DEF Region
    <2> HIDE DEF s, t, m
    <2>3. Canonical(Region(t))
      BY ImageCanonical DEF StoredOK, t
    <2>4. whole' => Canonical(library')
      BY <1>3, <2>3 DEF SavedInv, t
    <2>5. ASSUME Matches(Torn(n)) PROVE  Torn(n) = Region(t) \/ (whole /\ Torn(n) = library)
      <3>1. checksum(m) = checksum(t)
        BY <2>2, <2>5 DEF Matches
      <3>2. CASE library = Blank
        <4>1. \A i \in 1 .. 11 : s[i] = 0
          BY <3>2 DEF Blank, s
        <4>2. m = t
          BY <2>1, <3>1, <4>1, TornOverBlank DEF m
        <4>3. Torn(n) = Region(t)
          BY <2>2, <4>2 DEF Region
        <4> QED BY <4>3
      <3>3. CASE whole /\ OneChange(s, t)
        <4>1. m = t \/ m = s
          BY <2>1, <3>1, <3>3, TornChange DEF m
        <4>2. CASE m = t
          <5>1. Torn(n) = Region(t)
            BY <2>2, <4>2 DEF Region
          <5> QED BY <5>1
        <4>3. CASE m = s
          <5>1. library = Region(s)
            BY <3>3 DEF SavedInv, Canonical, s
          <5>2. Torn(n) = Region(s)
            BY <2>2, <3>1, <4>3 DEF Region
          <5> QED BY <3>3, <5>1, <5>2
        <4> QED BY <4>1, <4>2, <4>3
      <3> QED BY <3>2, <3>3 DEF SavedInv, s, t
    <2>6. Matches(library') => whole'
      BY <1>3, <2>5 DEF t
    <2> QED BY <1>1, <2>4, <2>6 DEF SavedInv
  <1> QED BY <1>2, <1>3 DEF PowerLoss

LEMMA WholeInit == Init => WholeInv
  <1> SUFFICES ASSUME Init PROVE SavedInv
    BY DEF WholeInv
  <1>1. library = Blank /\ dirty /\ ~whole
    BY DEF Init
  <1>2. ~Matches(library)
    BY <1>1 DEF Blank, Matches
  <1> QED BY <1>1, <1>2 DEF SavedInv

LEMMA WholeStep == TypeOK /\ WholeInv /\ [Next]_vars => WholeInv'
  <1> SUFFICES ASSUME TypeOK, WholeInv, [Next]_vars,
                      failures' = 0, OneAtATime, losses' <= 1
               PROVE  SavedInv'
    BY DEF WholeInv
  <1>1. /\ FlagsOK /\ StoredOK /\ StoredOK' /\ failures \in Nat /\ losses \in Nat
        /\ MaxLosses \in Nat
    BY TypeParts, TypePartsNext, TypeStep, ConfigAssumption DEF CountsOK
  <1>2. ~Fails
    BY <1>1 DEF Fails
  <1>3. ASSUME UNCHANGED <<losses, failures>> PROVE SavedInv
    BY <1>3 DEF WholeInv
  <1>4. CASE UNCHANGED <<config, dirty, library, whole, losses, failures>>
    BY <1>3, <1>4 DEF SavedInv
  <1>5. CASE UNCHANGED vars
    BY <1>4, <1>5 DEF vars, settings, ghosts
  <1>6. CASE \E b \in BOOLEAN : LoadBegin(b)
    BY <1>2, <1>4, <1>6 DEF LoadBegin, settings, Succeeds
  <1>7. CASE config_internal_clear
    BY <1>2, <1>4, <1>7 DEF config_internal_clear, ClearHalf, settings, Succeeds
  <1>8. CASE config_library_load
    <2>1. UNCHANGED <<losses, failures>>
      BY <1>2, <1>8 DEF config_library_load, Succeeds
    <2> QED BY <1>1, <1>2, <1>3, <1>8, <2>1, LoadSaved
  <1>9. CASE mobile_start
    BY <1>4, <1>6, <1>9 DEF mobile_start, settings, ghosts
  <1>10. CASE Save \/ mobile_stop
    <2>1. CASE mobile_config_save
      BY <1>1, <1>2, <2>1, SaveSaved
    <2>2. CASE mobile_stop /\ UNCHANGED <<settings, library, whole, failures>>
      BY <1>4, <2>2 DEF mobile_stop, settings
    <2> QED BY <1>10, <2>1, <2>2 DEF Save, mobile_stop
  <1>11. CASE Setter
    <2>1. UNCHANGED <<losses, failures>>
      <3>1. PICK c \in Config : Set(c)
        BY <1>1, <1>11, SettersSet
      <3> QED BY <3>1 DEF Set, ghosts
    <2> QED BY <1>1, <1>3, <1>11, <2>1, SetSaved
  <1>12. CASE command_eeprom_write
    <2>1. library' = library
      BY <1>12, WriteStays
    <2> QED BY <1>4, <1>12, <2>1 DEF command_eeprom_write, settings
  <1>13. CASE PowerLoss
    <2>1. losses = 0 /\ failures = 0
      BY <1>1, <1>13 DEF PowerLoss
    <2>2. SavedInv
      BY <2>1 DEF WholeInv
    <2> QED BY <1>1, <1>13, <2>1, <2>2, LossSaved
  <1> QED BY <1>5, <1>6, <1>7, <1>8, <1>9, <1>10, <1>11, <1>12, <1>13
          DEF Next, Setter, mobile_config_load

(* Config, TornIsRefused: a region that power was lost in is not loaded,   *)
(* whatever the settings are, as far as power is lost once and each        *)
(* setting is saved before the next one is changed.                        *)
THEOREM TornRegionRefused == Spec => []TornIsRefused
  <1>1. TypeOK /\ WholeInv => TornIsRefused
    BY DEF WholeInv, SavedInv, TornIsRefused
  <1> QED BY <1>1, TypeInit, TypeStep, WholeInit, WholeStep, PTL DEF Spec

=============================================================================
