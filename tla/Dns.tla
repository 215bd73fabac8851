--------------------------------- MODULE Dns ---------------------------------
(***************************************************************************)
(* dns.c: queries, and the parser of the answers, over the bytes of a      *)
(* message.  The servers (external) answer with well-formed messages that  *)
(* hold any records in any order; the network delays and repeats answers,  *)
(* so that one may come when the next request is under way.                *)
(*                                                                         *)
(* An offset counts from 0, as in the code.                                *)
(***************************************************************************)
EXTENDS Integers, Sequences

CONSTANTS
    Names,          \* names to look up, sequences of characters
    Servers,
    Answers,        \* lists of records a server may answer with
    PacketSize,     \* MOBILE_DNS_PACKET_SIZE
    MaxLabel,       \* the length of a label, 63
    IdBase,         \* values of a byte of the identifier, 256
    MaxRequests

Dot == 46
HeaderSize == 12
QdSize == 4
RrSize == 10
TypeA == 1
Pointer == 192      \* 0xC0

ASSUME DnsAssumption ==
    /\ PacketSize \in Nat /\ PacketSize > HeaderSize
    /\ MaxLabel \in 1 .. 63
    /\ IdBase \in 1 .. 256
    /\ MaxRequests \in Nat
    /\ Names \subseteq Seq(0 .. 255)

VARIABLES
    id,             \* dns.id
    request,        \* buffer.dns.id and the name and server of the request
    net,            \* answers on their way
    outcome,        \* the result of the last request
    taken           \* the answer that led to it

vars == <<id, request, net, outcome, taken>>

Failed == [ok |-> FALSE]
NoAnswer == [to |-> 0]

-----------------------------------------------------------------------------
(* Mutant: one byte too many is taken to fit.                              *)
MakesLongNames(name, offset) ==
    LET Full(s) == offset + Len(s.data) > PacketSize
        step[i \in 0 .. Len(name)] ==
          IF i = 0 THEN [ok |-> TRUE, data |-> <<0>>, plen |-> 1, count |-> 0]
          ELSE LET s == step[i - 1]
               IN  IF \/ ~s.ok \/ Full(s)
                      \/ name[i] # Dot /\ s.count >= MaxLabel
                   THEN [s EXCEPT !.ok = FALSE]
                   ELSE IF name[i] = Dot
                   THEN [ok |-> TRUE, plen |-> Len(s.data) + 1, count |-> 0,
                         data |-> Append([s.data EXCEPT ![s.plen] = s.count], 0)]
                   ELSE [s EXCEPT !.data = Append(@, name[i]), !.count = @ + 1]
        last == step[Len(name)]
    IN  IF ~last.ok \/ Full(last) THEN [ok |-> FALSE, data |-> last.data]
        ELSE [ok |-> TRUE,
              data |-> Append([last.data EXCEPT ![last.plen] = last.count], 0)]

(* The labels of a name, each after its length.  plen is where the length  *)
(* of the current label goes, and Len(data) is pdat.                       *)
dns_make_name(name, offset) ==
    LET Full(s) == offset + Len(s.data) + 1 > PacketSize
        step[i \in 0 .. Len(name)] ==
          IF i = 0 THEN [ok |-> TRUE, data |-> <<0>>, plen |-> 1, count |-> 0]
          ELSE LET s == step[i - 1]
               IN  IF \/ ~s.ok \/ Full(s)
                      \/ name[i] # Dot /\ s.count >= MaxLabel
                   THEN [s EXCEPT !.ok = FALSE]
                   ELSE IF name[i] = Dot
                   THEN [ok |-> TRUE, plen |-> Len(s.data) + 1, count |-> 0,
                         data |-> Append([s.data EXCEPT ![s.plen] = s.count], 0)]
                   ELSE [s EXCEPT !.data = Append(@, name[i]), !.count = @ + 1]
        last == step[Len(name)]
    IN  IF ~last.ok \/ Full(last) THEN [ok |-> FALSE, data |-> last.data]
        ELSE [ok |-> TRUE,
              data |-> Append([last.data EXCEPT ![last.plen] = last.count], 0)]

At(m, p) == m[p + 1]
Word(m, p) == At(m, p) * 256 + At(m, p + 1)

(* Where a name ends, or -1.  In a well-formed message a pointer leads     *)
(* back to a name before it.                                               *)
NameEnd(m, offset) ==
    LET end[p \in 0 .. Len(m)] ==
          IF p >= Len(m) THEN -1
          ELSE IF At(m, p) = 0 THEN p + 1
          ELSE IF At(m, p) >= Pointer THEN IF p + 2 > Len(m) THEN -1 ELSE p + 2
          ELSE IF At(m, p) >= 64 \/ p + 1 + At(m, p) + 1 > Len(m) THEN -1
          ELSE end[p + 1 + At(m, p)]
    IN  end[offset]

dns_name_len(m, offset) ==
    IF NameEnd(m, offset) < 0 THEN -1 ELSE NameEnd(m, offset) - offset

(* Whether the name at an offset is the given one.  The code moves the     *)
(* offset to its end if it is.                                             *)
dns_name_compare(m, offset, name) ==
    LET same[x \in (0 .. Len(m)) \X (0 .. Len(name))] ==
          LET p == x[1]
              q == x[2]
              len == At(m, p)
              to == (len - Pointer) * 256 + At(m, p + 1)
              r == IF q = 0 THEN 0 ELSE q + 1
          IN  IF p >= Len(m) THEN FALSE
              ELSE IF len = 0 THEN q = Len(name)
              ELSE IF len >= Pointer
              THEN p + 2 <= Len(m) /\ to < Len(m) /\ same[<<to, q>>]
              ELSE /\ len < 64 /\ p + 1 + len + 1 <= Len(m)
                   /\ q # 0 => q < Len(name) /\ name[q + 1] = Dot
                   /\ r + len <= Len(name)
                   /\ SubSeq(m, p + 2, p + 1 + len) = SubSeq(name, r + 1, r + len)
                   /\ same[<<p + 1 + len, r + len>>]
    IN  Len(name) > 0 /\ same[<<offset, 0>>]

-----------------------------------------------------------------------------
Header(n, flags, ancount) ==
    <<(n \div IdBase) % IdBase, n % IdBase, flags \div 256, flags % 256,
      0, 1, 0, ancount, 0, 0, 0, 0>>

(* The question of a query for addresses (type A, class IN).               *)
dns_make_query(n, name) ==
    LET made == dns_make_name(name, HeaderSize)
        query == Header(n, 256, 0) \o made.data \o <<0, TypeA, 0, 1>>
    IN  IF ~made.ok THEN Failed
        ELSE IF Len(query) > PacketSize THEN Failed
        ELSE [ok |-> TRUE, data |-> query]

(* Mutant: whose answer it is is not checked.                              *)
VerifyAnyId(m, n, name) ==
    LET offset == NameEnd(m, HeaderSize)
    IN  IF /\ At(m, 2) \in {129, 133} /\ At(m, 3) % 16 = 0
           /\ Word(m, 4) = 1 /\ Word(m, 6) >= 1
           /\ dns_name_compare(m, HeaderSize, name)
           /\ Word(m, offset) = TypeA /\ Word(m, offset + 2) = 1
        THEN offset + QdSize ELSE -1

(* Where the records begin, or -1.  The flags: a response to a query, not  *)
(* truncated, recursion desired, no error.                                 *)
dns_verify_response(m, n, name) ==
    LET offset == NameEnd(m, HeaderSize)
    IN  IF /\ Len(m) >= HeaderSize
           /\ At(m, 0) * IdBase + At(m, 1) = n
           /\ At(m, 2) \in {129, 133} /\ At(m, 3) % 16 = 0
           /\ Word(m, 4) = 1 /\ Word(m, 6) >= 1
           /\ dns_name_compare(m, HeaderSize, name)
           /\ offset + QdSize <= Len(m)
           /\ Word(m, offset) = TypeA /\ Word(m, offset + 2) = 1
        THEN offset + QdSize ELSE -1

(* Mutant: the length of the other type is asked for.                      *)
AnswerLong(m, offset, name) ==
    LET info == offset + dns_name_len(m, offset)
    IN  IF dns_name_len(m, offset) < 0 \/ info + RrSize + 4 > Len(m)
        THEN [rc |-> -1, offset |-> offset]
        ELSE IF dns_name_compare(m, offset, name) /\ Word(m, info + 8) = 16
        THEN [rc |-> info + RrSize, offset |-> info + RrSize + 16]
        ELSE [rc |-> -2, offset |-> offset]

(* One record: its rdata, -1 if it does not fit, -2 if it is another kind  *)
(* of record.  Then the offset stays where it is, or moves past the name.  *)
dns_get_answer(m, offset, name) ==
    LET len == dns_name_len(m, offset)
        info == offset + len
        rdata == info + RrSize
        rdlength == Word(m, info + 8)
    IN  IF len < 0 \/ rdata > Len(m) THEN [rc |-> -1, offset |-> offset]
        ELSE IF rdata + rdlength > Len(m) THEN [rc |-> -1, offset |-> offset]
        ELSE IF ~dns_name_compare(m, offset, name)
        THEN [rc |-> -2, offset |-> offset]
        ELSE IF Word(m, info) # TypeA \/ Word(m, info + 2) # 1 \/ rdlength # 4
        THEN [rc |-> -2, offset |-> info]
        ELSE [rc |-> rdata, offset |-> rdata + rdlength]

(* mobile_dns_request_recv, for a message of the server that was asked:    *)
(* the first record that is taken, out of ancount.                         *)
ReadAnswer(m, n, name) ==
    LET first == dns_verify_response(m, n, name)
        scan[k \in 0 .. Word(m, 6)] ==
          IF k = 0 THEN [rc |-> -2, offset |-> first]
          ELSE IF scan[k - 1].rc # -2 THEN scan[k - 1]
          ELSE dns_get_answer(m, scan[k - 1].offset, name)
        found == scan[Word(m, 6)].rc
    IN  IF first < 0 \/ found < 0 THEN Failed
        ELSE [ok |-> TRUE, ip |-> SubSeq(m, found + 1, found + 4)]

-----------------------------------------------------------------------------
(* A server's answer: the question again, and records whose names point at *)
(* it if they are the same.                                                *)
Plain(name) == dns_make_name(name, 0).data

LabelsFit(name) ==
    \A i, j \in 0 .. Len(name) :
        i + MaxLabel < j => \E k \in i + 1 .. j : name[k] = Dot

NoEmptyLabel(name) ==
    \A j \in 0 .. Len(name) :
        j = 0 \/ name[j] = Dot => j < Len(name) /\ name[j + 1] # Dot

(* The records of a server have names that can be written.                 *)
ASSUME AnswersAssumption ==
    \A records \in Answers :
        /\ records \in Seq([name : Seq(0 .. 255), type : 0 .. 255, rdata : Seq(0 .. 255)])
        /\ \A i \in 1 .. Len(records) :
              /\ LabelsFit(records[i].name) /\ NoEmptyLabel(records[i].name)
              /\ Len(records[i].name) + 2 <= PacketSize

RecordBytes(r, name) ==
    (IF r.name = name THEN <<Pointer, HeaderSize>> ELSE Plain(r.name))
        \o <<0, r.type, 0, 1, 0, 0, 0, 0, 0, Len(r.rdata)>> \o r.rdata

Message(n, name, records) ==
    LET bytes[i \in 0 .. Len(records)] ==
          IF i = 0 THEN Header(n, 33152, Len(records)) \o Plain(name)
                           \o <<0, TypeA, 0, 1>>
          ELSE bytes[i - 1] \o RecordBytes(records[i], name)
    IN  bytes[Len(records)]

Init ==
    /\ id = 0
    /\ request = [active |-> FALSE]
    /\ net = {}
    /\ outcome = Failed
    /\ taken = NoAnswer

(* A request is sent, and the server answers it, sooner or later, if the   *)
(* answer fits in a packet.  (Otherwise it would be marked as truncated,   *)
(* and refused.)                                                           *)
mobile_dns_request_send ==
    /\ ~request.active /\ id < MaxRequests
    /\ id' = id + 1
    /\ \E name \in Names, server \in Servers, records \in Answers :
          LET query == dns_make_query(id', name)
              fits == Len(Message(id', name, records)) <= PacketSize
          IN  /\ request' = [active |-> query.ok, id |-> id', name |-> name,
                             server |-> server]
              /\ net' = IF ~query.ok \/ ~fits THEN net
                        ELSE net \cup {[to |-> id', from |-> server,
                                        records |-> records, name |-> name]}
    /\ outcome' = Failed
    /\ taken' = NoAnswer

Received(a) == Message(a.to, a.name, a.records)

(* An answer arrives.  It may arrive again.  That of another server is     *)
(* discarded; any other one ends the request.                              *)
mobile_dns_request_recv(a) ==
    /\ request.active
    /\ \/ a.from # request.server /\ UNCHANGED <<request, outcome, taken>>
       \/ /\ a.from = request.server
          /\ request' = [request EXCEPT !.active = FALSE]
          /\ outcome' = ReadAnswer(Received(a), request.id, request.name)
          /\ taken' = a
    /\ UNCHANGED <<id, net>>

(* The command gives up waiting, and goes on to the next server or fails.  *)
TimedOut ==
    /\ request.active
    /\ request' = [request EXCEPT !.active = FALSE]
    /\ UNCHANGED <<id, net, outcome, taken>>

Next == mobile_dns_request_send \/ TimedOut
        \/ \E a \in net : mobile_dns_request_recv(a)

Spec == Init /\ [][Next]_vars

-----------------------------------------------------------------------------
(* Properties.                                                             *)

(* A record that gives an address for the name that is asked for.          *)
GivesAddress(r) ==
    r.name = request.name /\ r.type = TypeA /\ Len(r.rdata) = 4

(* dns.c:157-219, 258-264: an address that a request ends with comes from  *)
(* a record for the name, in the answer to this very request: not in a     *)
(* late one to an earlier request, and not from the middle of a record,    *)
(* although the parser goes on at odd offsets.                             *)
AnswerSound ==
    outcome.ok =>
        /\ taken.to = request.id
        /\ \E i \in 1 .. Len(taken.records) :
              /\ GivesAddress(taken.records[i])
              /\ outcome.ip = taken.records[i].rdata

(* dns.c:11, "Implemented RFCs: RFC1035": the answer of the server that    *)
(* was asked ends the request with the first address it holds for the name,*)
(* whatever records come before it and however many requests were made.    *)
AnswerFound ==
    taken # NoAnswer /\ taken.to = request.id =>
        \A i \in 1 .. Len(taken.records) :
            /\ GivesAddress(taken.records[i])
            /\ \A k \in 1 .. i - 1 : ~GivesAddress(taken.records[k])
            => outcome = [ok |-> TRUE, ip |-> taken.records[i].rdata]

(* dns.c:38-60, 145: nothing is written past the packet, a query is sent   *)
(* exactly for the names whose labels are not too long and that fit, and   *)
(* then it asks for that name.  (The question of a name with an empty      *)
(* label, such as "a.", ends early, with one zero byte too many after it.) *)
QuerySent ==
    id > 0 =>
        LET query == dns_make_query(request.id, request.name)
            made == dns_make_name(request.name, HeaderSize)
        IN  /\ HeaderSize + Len(made.data) <= PacketSize
            /\ query.ok <=>
                 /\ LabelsFit(request.name)
                 /\ HeaderSize + Len(request.name) + 2 + QdSize <= PacketSize
            /\ query.ok /\ NoEmptyLabel(request.name) =>
                 /\ dns_name_compare(query.data, HeaderSize, request.name)
                 /\ NameEnd(query.data, HeaderSize) + QdSize = Len(query.data)

=============================================================================
