--------------------------- MODULE DebuggerProofs ---------------------------
(***************************************************************************)
(* The debugger and its link, for every script, ROM, burst and number of   *)
(* faults: what the program shows of the processor is true, a ROM it       *)
(* starts is loaded, the test dialog counts what the scripts returned, and *)
(* PC, line and interface together do what one reliable session does.      *)
(*                                                                         *)
(* None of this is inductive as it stands.  DbgInv (DebuggerInv) relates   *)
(* the bytes on the line to the packets they were cut from: while nothing  *)
(* has failed, what the interface has not read yet is the rest of the      *)
(* packet it is in, followed by the packets sent and not begun; what the   *)
(* machine will have become when it ends that packet is what the packet    *)
(* asks for; and what it has answered and the program has not taken is the *)
(* answers of the packets that ended.  For the host it adds which commands *)
(* a job may still hold, and what of a ROM they have yet to write.         *)
(***************************************************************************)
EXTENDS DebuggerInv, SequenceTheorems, FiniteSetTheorems, TLAPS

(* A packet is its opcode, its header and its data, and the header names   *)
(* the address and the length of the data (dbgpacket.cpp:146-479).         *)
LEMMA WordSize == WORD = 65536 /\ WORD \in Nat /\ WORD \in Int
BY SMT DEF WORD

LEMMA WordInt == WORD \in Int /\ WORD \in Nat
BY WordSize, SMT

LEMMA Ranges ==
  ASSUME NEW w \in Int, NEW x
  PROVE  /\ x \in 1 .. w <=> x \in Int /\ 1 <= x /\ x <= w
         /\ x \in 0 .. w - 1 <=> x \in Int /\ 0 <= x /\ x < w
BY SMT

LEMMA WordIs ==
  ASSUME NEW x
  PROVE  x \in Word <=> x \in Int /\ 0 <= x /\ x < 65536
<1>1. x \in Word <=> x \in 0 .. WORD - 1
  BY DEF Word
<1>2. x \in 0 .. WORD - 1 <=> x \in Int /\ 0 <= x /\ x < WORD
  BY WordInt, Ranges, SMT
<1>3. x \in Int => (x < WORD <=> x < 65536)
  BY WordSize, SMT
<1> QED
  BY <1>1, <1>2, <1>3, SMT

LEMMA UpToWord ==
  ASSUME NEW x
  PROVE  x \in 1 .. WORD <=> x \in Int /\ 1 <= x /\ x <= 65536
<1>2. x \in 1 .. WORD <=> x \in Int /\ 1 <= x /\ x <= WORD
  BY WordInt, Ranges, SMT
<1>3. x \in Int => (x <= WORD <=> x <= 65536)
  BY WordSize, SMT
<1> QED
  BY <1>2, <1>3, SMT

LEMMA Quotient ==
  ASSUME NEW q \in Int, NEW r \in Int, NEW n \in Int, n = r + 256 * q,
         0 <= r, r <= 255, 0 <= n, n <= 65535
  PROVE  0 <= q /\ q <= 255
OBVIOUS

LEMMA U16Bytes ==
  ASSUME NEW n \in Word
  PROVE  U16(n) = <<n % 256, n \div 256>> /\ n % 256 \in Octet /\ n \div 256 \in Octet
         /\ Num(n % 256, n \div 256) = n
<1>1. n \in Int /\ 0 <= n /\ n <= 65535
  BY WordIs, SMT
<1>2. /\ n % 256 \in 0 .. 255 /\ n \div 256 \in 0 .. 255 /\ (n % 256) + 256 * (n \div 256) = n
  <2>1. n % 256 \in Int /\ 0 <= n % 256 /\ n % 256 <= 255
    BY <1>1
  <2>2. n \div 256 \in Int /\ (n % 256) + 256 * (n \div 256) = n
    BY <1>1
  <2> DEFINE q == n \div 256
             r == n % 256
  <2>3. q \in Int /\ r \in Int /\ n = r + 256 * q /\ 0 <= r /\ r <= 255
    BY <2>1, <2>2
  <2> HIDE DEF q, r
  <2>4. 0 <= q /\ q <= 255
    BY <1>1, <2>3, Quotient
  <2>5. q \in 0 .. 255 /\ r \in 0 .. 255
    BY <2>3, <2>4
  <2> QED
    BY <2>2, <2>5 DEF q, r
<1>3. (n \div 256) % 256 = n \div 256
  BY <1>2
<1>4. U16(n) = <<n % 256, n \div 256>>
  BY <1>3 DEF U16, BYTE
<1> QED
  BY <1>2, <1>4 DEF Octet, BYTE, Num

(* The bytes of the packets.                                               *)
LEMMA ShortTuple ==
  ASSUME NEW S, NEW a \in S, NEW b \in S
  PROVE  /\ <<a>> \in Seq(S) /\ <<a, b>> \in Seq(S)
         /\ Len(<<a>>) = 1 /\ Len(<<a, b>>) = 2
OBVIOUS

LEMMA Joined ==
  ASSUME NEW S, NEW s \in Seq(S), NEW t \in Seq(S)
  PROVE  /\ s \o t \in Seq(S) /\ Len(s \o t) = Len(s) + Len(t)
         /\ Len(s) \in Nat /\ Len(t) \in Nat
         /\ \A i \in 1 .. Len(s) : (s \o t)[i] = s[i]
         /\ \A i \in 1 .. Len(t) : (s \o t)[Len(s) + i] = t[i]
         /\ s \in Seq(S) /\ t \in Seq(S)
OBVIOUS

LEMMA HeadOne ==
  ASSUME NEW S, NEW o \in S, NEW t \in Seq(S)
  PROVE  /\ <<o>> \o t \in Seq(S) /\ Len(<<o>> \o t) = 1 + Len(t) /\ Len(t) \in Nat
         /\ (<<o>> \o t)[1] = o
         /\ \A i \in 1 .. Len(t) : (<<o>> \o t)[1 + i] = t[i]
<1>1. <<o>> \in Seq(S) /\ Len(<<o>>) = 1 /\ <<o>>[1] = o
  OBVIOUS
<1> QED
  BY <1>1, Joined

LEMMA HeadTwo ==
  ASSUME NEW S, NEW a \in S, NEW b \in S, NEW t \in Seq(S)
  PROVE  /\ <<a, b>> \o t \in Seq(S) /\ Len(<<a, b>> \o t) = 2 + Len(t) /\ Len(t) \in Nat
         /\ (<<a, b>> \o t)[1] = a /\ (<<a, b>> \o t)[2] = b
         /\ \A i \in 1 .. Len(t) : (<<a, b>> \o t)[2 + i] = t[i]
<1>1. <<a, b>> \in Seq(S) /\ Len(<<a, b>>) = 2 /\ <<a, b>>[1] = a /\ <<a, b>>[2] = b
  OBVIOUS
<1> QED
  BY <1>1, Joined

LEMMA OpCodes ==
  /\ \A o \in DOMAIN Op : Op[o] \in 0 .. 12
  /\ DOMAIN Op = {"Echo", "CpuMemRd", "CpuMemWr", "DbgHlt", "DbgRun", "CpuRegRd", "CpuRegWr",
                  "QueryHlt", "QueryErrCode", "PpuMemRd", "PpuMemWr", "PpuDisable", "CartSetCfg"}
  /\ Op["Echo"] = 0 /\ Op["CpuMemRd"] = 1 /\ Op["CpuMemWr"] = 2 /\ Op["DbgHlt"] = 3
  /\ Op["DbgRun"] = 4 /\ Op["CpuRegRd"] = 5 /\ Op["CpuRegWr"] = 6 /\ Op["QueryHlt"] = 7
  /\ Op["QueryErrCode"] = 8 /\ Op["PpuMemRd"] = 9 /\ Op["PpuMemWr"] = 10
  /\ Op["PpuDisable"] = 11 /\ Op["CartSetCfg"] = 12
BY DEF Op

LEMMA OpOctet == \A o \in DOMAIN Op : Op[o] \in Octet
<1>1. 0 .. 12 \subseteq Octet
  BY DEF Octet, BYTE
<1> QED
  BY <1>1, OpCodes

LEMMA EchoShape ==
  ASSUME NEW c, IsCommand(c), c.op = "Echo"
  PROVE  /\ P(c) \in Seq(Octet) /\ Len(P(c)) = 3 + Len(c.data) /\ P(c)[1] = 0
         /\ Num(P(c)[2], P(c)[3]) = Len(c.data)
         /\ \A i \in 1 .. Len(c.data) : P(c)[3 + i] = c.data[i]
         /\ Expect(c) = Len(c.data)
<1> DEFINE n == Len(c.data)
           d == c.data
<1>1. PacketData(c) = EchoPacket(c.data)
  BY DEF PacketData, CpuPacket
<1>2. c.data \in Seq(Octet) /\ n \in Word
  BY DEF IsCommand
<1>3. PICK lo, hi : U16(n) = <<lo, hi>> /\ lo \in Octet /\ hi \in Octet /\ Num(lo, hi) = n
  BY <1>2, U16Bytes
<1> DEFINE t == <<lo, hi>> \o d
<1>4. P(c) = <<0>> \o t
  <2>1. EchoPacket(d) = [bytes |-> <<Op["Echo"]>> \o (U16(n) \o d), expected |-> n]
    BY DEF EchoPacket, DbgPacket
  <2>2. P(c) = EchoPacket(d).bytes
    BY <1>1 DEF P
  <2> HIDE DEF n, d
  <2>3. P(c) = <<Op["Echo"]>> \o (U16(n) \o d)
    BY <2>1, <2>2
  <2> QED
    BY <2>3, <1>3, OpCodes
<1>5. Expect(c) = n
  BY <1>1 DEF Expect, EchoPacket, DbgPacket
<1>6. 0 \in Octet
  BY DEF Octet, BYTE
<1>7. t \in Seq(Octet) /\ Len(t) = 2 + n /\ n \in Nat /\ t[1] = lo /\ t[2] = hi
      /\ \A i \in 1 .. n : t[2 + i] = d[i]
  <2>1. d \in Seq(Octet) /\ n = Len(d)
    BY <1>2
  <2> HIDE DEF d, n
  <2> QED
    BY <2>1, <1>3, HeadTwo
<1> HIDE DEF t
<1>8. P(c) \in Seq(Octet) /\ Len(P(c)) = 1 + Len(t) /\ P(c)[1] = 0
      /\ \A i \in 1 .. Len(t) : P(c)[1 + i] = t[i]
  BY <1>4, <1>6, <1>7, HeadOne
<1> HIDE DEF n
<1>9. P(c)[2] = t[1] /\ P(c)[3] = t[2] /\ \A i \in 1 .. n : P(c)[3 + i] = t[2 + i]
  <2>1. 1 \in 1 .. Len(t) /\ 2 \in 1 .. Len(t) /\ 1 + 1 = 2 /\ 1 + 2 = 3
        /\ \A i \in 1 .. n : 2 + i \in 1 .. Len(t) /\ 1 + (2 + i) = 3 + i
    BY <1>7
  <2> QED
    BY <2>1, <1>8
<1>10. Num(P(c)[2], P(c)[3]) = n /\ Len(P(c)) = 3 + n
  BY <1>3, <1>7, <1>8, <1>9
<1> QED
  BY <1>5, <1>7, <1>8, <1>9, <1>10 DEF n, d

LEMMA MemWrShape ==
  ASSUME NEW c, IsCommand(c), c.op \in {"CpuMemWr", "PpuMemWr"}
  PROVE  /\ P(c) \in Seq(Octet) /\ Len(P(c)) = 5 + Len(c.data) /\ P(c)[1] = Op[c.op]
         /\ Num(P(c)[2], P(c)[3]) = c.addr /\ Num(P(c)[4], P(c)[5]) = Len(c.data)
         /\ \A i \in 1 .. Len(c.data) : P(c)[5 + i] = c.data[i]
         /\ Expect(c) = 0
<1> DEFINE n == Len(c.data)
           d == c.data
<1>1. PacketData(c) = DbgPacket(c.op, U16(c.addr) \o U16(n) \o c.data, 0)
  BY DEF PacketData, CpuPacket, CartPacket, CpuMemWrPacket, PpuMemWrPacket
<1>2. c.data \in Seq(Octet) /\ n \in Word /\ c.addr \in Word
  BY DEF IsCommand
<1>3. PICK lo, hi : U16(n) = <<lo, hi>> /\ lo \in Octet /\ hi \in Octet /\ Num(lo, hi) = n
  BY <1>2, U16Bytes
<1>4. PICK al, ah : U16(c.addr) = <<al, ah>> /\ al \in Octet /\ ah \in Octet /\ Num(al, ah) = c.addr
  BY <1>2, U16Bytes
<1>5. Op[c.op] \in Octet
  BY OpCodes DEF Octet, BYTE
<1> DEFINE t == <<lo, hi>> \o d
           u == <<al, ah>> \o t
<1>6. P(c) = <<Op[c.op]>> \o u
  <2>1. <<al, ah>> \in Seq(Octet) /\ <<lo, hi>> \in Seq(Octet)
    BY <1>3, <1>4, ShortTuple
  <2>2. (U16(c.addr) \o U16(n)) \o d = u
    BY <1>2, <1>3, <1>4, <2>1, ConcatAssociative
  <2> QED
    BY <1>1, <2>2 DEF P, DbgPacket
<1>7. Expect(c) = 0
  BY <1>1 DEF Expect, DbgPacket
<1>8. t \in Seq(Octet) /\ Len(t) = 2 + n /\ n \in Nat /\ t[1] = lo /\ t[2] = hi
      /\ \A i \in 1 .. n : t[2 + i] = d[i]
  <2>1. d \in Seq(Octet) /\ n = Len(d)
    BY <1>2
  <2> HIDE DEF d, n
  <2> QED
    BY <2>1, <1>3, HeadTwo
<1> HIDE DEF t
<1>9. u \in Seq(Octet) /\ Len(u) = 2 + Len(t) /\ u[1] = al /\ u[2] = ah
      /\ \A i \in 1 .. Len(t) : u[2 + i] = t[i]
  BY <1>4, <1>8, HeadTwo
<1> HIDE DEF u
<1>10. P(c) \in Seq(Octet) /\ Len(P(c)) = 1 + Len(u) /\ P(c)[1] = Op[c.op]
      /\ \A i \in 1 .. Len(u) : P(c)[1 + i] = u[i]
  BY <1>5, <1>6, <1>9, HeadOne
<1> HIDE DEF n
<1>11. Len(u) = 4 + n
  BY <1>8, <1>9
<1>12. P(c)[2] = u[1] /\ P(c)[3] = u[2] /\ P(c)[4] = t[1] /\ P(c)[5] = t[2]
       /\ \A i \in 1 .. n : P(c)[5 + i] = t[2 + i]
  <2>1. 1 \in 1 .. Len(u) /\ 2 \in 1 .. Len(u) /\ 3 \in 1 .. Len(u) /\ 4 \in 1 .. Len(u)
        /\ 1 \in 1 .. Len(t) /\ 2 \in 1 .. Len(t) /\ 1 + 1 = 2 /\ 1 + 2 = 3 /\ 1 + 3 = 4 /\ 1 + 4 = 5
        /\ 2 + 1 = 3 /\ 2 + 2 = 4
    BY <1>8, <1>11
  <2>2. \A i \in 1 .. n : /\ 2 + i \in 1 .. Len(t) /\ 2 + (2 + i) \in 1 .. Len(u)
                         /\ 1 + (2 + (2 + i)) = 5 + i
    BY <1>8, <1>11
  <2>3. P(c)[2] = u[1] /\ P(c)[3] = u[2] /\ P(c)[4] = u[3] /\ P(c)[5] = u[4]
    BY <2>1, <1>10
  <2>4. u[3] = t[1] /\ u[4] = t[2]
    BY <2>1, <1>9
  <2>5. \A i \in 1 .. n : P(c)[5 + i] = t[2 + i]
    <3>1. TAKE i \in 1 .. n
    <3>2. P(c)[1 + (2 + (2 + i))] = u[2 + (2 + i)]
      BY <2>2, <1>10
    <3>3. u[2 + (2 + i)] = t[2 + i]
      BY <2>2, <1>9
    <3> QED
      BY <3>2, <3>3, <2>2
  <2> QED
    BY <2>3, <2>4, <2>5
<1>13. Num(P(c)[2], P(c)[3]) = c.addr /\ Num(P(c)[4], P(c)[5]) = n /\ Len(P(c)) = 5 + n
  BY <1>3, <1>4, <1>8, <1>9, <1>10, <1>11, <1>12
<1> QED
  BY <1>7, <1>8, <1>10, <1>12, <1>13 DEF n, d

LEMMA MemRdShape ==
  ASSUME NEW c, IsCommand(c), c.op \in {"CpuMemRd", "PpuMemRd"}
  PROVE  /\ P(c) \in Seq(Octet) /\ Len(P(c)) = 5 /\ P(c)[1] = Op[c.op]
         /\ Num(P(c)[2], P(c)[3]) = c.addr /\ Num(P(c)[4], P(c)[5]) = c.n
         /\ Expect(c) = c.n
<1>1. PacketData(c) = DbgPacket(c.op, U16(c.addr) \o U16(c.n), c.n)
  BY DEF PacketData, CpuPacket, CartPacket, CpuMemRdPacket, PpuMemRdPacket
<1>2. c.n \in Word /\ c.addr \in Word
  BY DEF IsCommand
<1>3. PICK lo, hi : U16(c.n) = <<lo, hi>> /\ lo \in Octet /\ hi \in Octet /\ Num(lo, hi) = c.n
  BY <1>2, U16Bytes
<1>4. PICK al, ah : U16(c.addr) = <<al, ah>> /\ al \in Octet /\ ah \in Octet /\ Num(al, ah) = c.addr
  BY <1>2, U16Bytes
<1>5. Op[c.op] \in Octet
  BY OpCodes DEF Octet, BYTE
<1> DEFINE t == <<lo, hi>>
           u == <<al, ah>> \o t
           z == Op[c.op]
<1>6. P(c) = <<z>> \o u
  BY <1>1, <1>3, <1>4 DEF P, DbgPacket
<1>7. Expect(c) = c.n
  BY <1>1 DEF Expect, DbgPacket
<1>8. t \in Seq(Octet) /\ Len(t) = 2 /\ t[1] = lo /\ t[2] = hi
  BY <1>3, ShortTuple
<1> HIDE DEF t
<1>9. u \in Seq(Octet) /\ Len(u) = 4 /\ u[1] = al /\ u[2] = ah
      /\ \A i \in 1 .. 2 : u[2 + i] = t[i]
  <2>1. u \in Seq(Octet) /\ Len(u) = 2 + Len(t) /\ u[1] = al /\ u[2] = ah
        /\ \A i \in 1 .. Len(t) : u[2 + i] = t[i]
    <3>1. al \in Octet /\ ah \in Octet
      BY <1>4
    <3>2. t \in Seq(Octet)
      BY <1>8
    <3> QED
      BY <3>1, <3>2, HeadTwo
  <2> QED
    BY <2>1, <1>8
<1>z. z \in Octet
  BY <1>5
<1> HIDE DEF u, z
<1>10. P(c) \in Seq(Octet) /\ Len(P(c)) = 5 /\ P(c)[1] = z /\ \A i \in 1 .. 4 : P(c)[1 + i] = u[i]
  <2>1. P(c) \in Seq(Octet) /\ Len(P(c)) = 1 + Len(u) /\ P(c)[1] = z
        /\ \A i \in 1 .. Len(u) : P(c)[1 + i] = u[i]
    <3>1. u \in Seq(Octet)
      BY <1>9
    <3> QED
      BY <1>z, <1>6, <3>1, HeadOne
  <2> QED
    BY <2>1, <1>9
<1>11. P(c)[2] = al /\ P(c)[3] = ah /\ P(c)[4] = lo /\ P(c)[5] = hi
  <2>1. 1 \in 1 .. 4 /\ 2 \in 1 .. 4 /\ 3 \in 1 .. 4 /\ 4 \in 1 .. 4 /\ 1 \in 1 .. 2 /\ 2 \in 1 .. 2
        /\ 1 + 1 = 2 /\ 1 + 2 = 3 /\ 1 + 3 = 4 /\ 1 + 4 = 5 /\ 2 + 1 = 3 /\ 2 + 2 = 4
    OBVIOUS
  <2>2. u[3] = lo /\ u[4] = hi
    BY <2>1, <1>8, <1>9
  <2> QED
    BY <2>1, <2>2, <1>9, <1>10
<1> QED
  BY <1>3, <1>4, <1>7, <1>10, <1>11 DEF z

LEMMA RegRdShape ==
  ASSUME NEW c, IsCommand(c), c.op = "CpuRegRd"
  PROVE  /\ P(c) \in Seq(Octet) /\ Len(P(c)) = 2 /\ P(c)[1] = 5 /\ P(c)[2] = c.addr
         /\ c.addr \in 0 .. 6 /\ Expect(c) = 1
<1> DEFINE a == c.addr
<1>1. PacketData(c) = CpuRegRdPacket(a)
  BY DEF PacketData, CpuPacket
<1>2. a \in 0 .. 6
  BY DEF IsCommand
<1>3. P(c) = <<5>> \o <<a>> /\ Expect(c) = 1
  BY <1>1, OpCodes DEF P, Expect, CpuRegRdPacket, DbgPacket
<1> HIDE DEF a
<1>4. a \in Octet /\ 5 \in Octet
  BY <1>2 DEF Octet, BYTE
<1>5. P(c) \in Seq(Octet) /\ Len(P(c)) = 2 /\ P(c)[1] = 5 /\ P(c)[2] = a
  <2> DEFINE t == <<a>>
  <2>1. t \in Seq(Octet) /\ Len(t) = 1 /\ t[1] = a
    BY <1>4
  <2>2. P(c) = <<5>> \o t
    BY <1>3
  <2> HIDE DEF t
  <2>3. P(c) \in Seq(Octet) /\ Len(P(c)) = 2 /\ P(c)[1] = 5 /\ P(c)[1 + 1] = t[1]
    BY <2>1, <2>2, <1>4, HeadOne
  <2> QED
    BY <2>1, <2>3
<1> QED
  BY <1>2, <1>3, <1>5 DEF a

LEMMA RegWrShape ==
  ASSUME NEW c, IsCommand(c), c.op = "CpuRegWr"
  PROVE  /\ P(c) \in Seq(Octet) /\ Len(P(c)) = 3 /\ P(c)[1] = 6 /\ P(c)[2] = c.addr
         /\ P(c)[3] = c.data[1] /\ c.addr \in 0 .. 6 /\ Expect(c) = 0
<1> DEFINE a == c.addr
           b == c.data[1]
<1>1. PacketData(c) = CpuRegWrPacket(a, b)
  BY DEF PacketData, CpuPacket
<1>2. a \in 0 .. 6 /\ c.data \in Seq(Octet) /\ Len(c.data) = 1
  BY DEF IsCommand
<1>3. b \in Octet
  BY <1>2
<1>4. P(c) = <<6>> \o <<a, b>> /\ Expect(c) = 0
  BY <1>1, OpCodes DEF P, Expect, CpuRegWrPacket, DbgPacket
<1> HIDE DEF a, b
<1>5. a \in Octet /\ 6 \in Octet
  BY <1>2 DEF Octet, BYTE
<1>6. P(c) \in Seq(Octet) /\ Len(P(c)) = 3 /\ P(c)[1] = 6 /\ P(c)[2] = a /\ P(c)[3] = b
  <2> DEFINE t == <<a, b>>
  <2>1. t \in Seq(Octet) /\ Len(t) = 2 /\ t[1] = a /\ t[2] = b
    BY <1>3, <1>5
  <2>2. P(c) = <<6>> \o t
    BY <1>4
  <2> HIDE DEF t
  <2>3. P(c) \in Seq(Octet) /\ Len(P(c)) = 3 /\ P(c)[1] = 6 /\ P(c)[1 + 1] = t[1] /\ P(c)[1 + 2] = t[2]
    BY <2>1, <2>2, <1>5, HeadOne
  <2> QED
    BY <2>1, <2>3
<1> QED
  BY <1>2, <1>4, <1>6 DEF a, b

LEMMA CfgShape ==
  ASSUME NEW c, IsCommand(c), c.op = "CartSetCfg"
  PROVE  /\ P(c) \in Seq(Octet) /\ Len(P(c)) = 6 /\ P(c)[1] = 12
         /\ \A i \in 1 .. 5 : P(c)[1 + i] = c.data[i]
         /\ Expect(c) = 0
<1> DEFINE d == c.data
<1>1. PacketData(c) = CartSetCfgPacket(d)
  BY DEF PacketData, CartPacket
<1>2. d \in Seq(Octet) /\ Len(d) = 5 /\ 12 \in Octet
  BY DEF IsCommand, Octet, BYTE
<1>3. P(c) = <<12>> \o d /\ Expect(c) = 0
  BY <1>1, OpCodes, SMTT(20) DEF P, Expect, CartSetCfgPacket, DbgPacket
<1> HIDE DEF d
<1>4. P(c) \in Seq(Octet) /\ Len(P(c)) = 6 /\ P(c)[1] = 12 /\ \A i \in 1 .. 5 : P(c)[1 + i] = d[i]
  <2>1. P(c) \in Seq(Octet) /\ Len(P(c)) = 1 + Len(d) /\ P(c)[1] = 12
        /\ \A i \in 1 .. Len(d) : P(c)[1 + i] = d[i]
    <3>1. d \in Seq(Octet) /\ 12 \in Octet /\ P(c) = <<12>> \o d
      BY <1>2, <1>3
    <3> QED
      BY <3>1, HeadOne
  <2> QED
    BY <2>1, <1>2
<1> QED
  BY <1>3, <1>4 DEF d

LEMMA PlainShape ==
  ASSUME NEW c, IsCommand(c), c.op \in {"DbgHlt", "DbgRun", "QueryHlt", "PpuDisable"}
  PROVE  /\ P(c) \in Seq(Octet) /\ Len(P(c)) = 1 /\ P(c)[1] = Op[c.op]
         /\ Expect(c) = IF c.op = "QueryHlt" THEN 1 ELSE 0
<1> DEFINE z == Op[c.op]
<1>1. PacketData(c) = DbgPacket(c.op, <<>>, IF c.op = "QueryHlt" THEN 1 ELSE 0)
  BY DEF PacketData, CpuPacket, CartPacket, DbgHltPacket, DbgRunPacket, QueryHltPacket,
         PpuDisablePacket
<1>2. z \in Octet
  BY OpCodes DEF Octet, BYTE
<1>3. P(c) = <<z>> \o <<>> /\ Expect(c) = IF c.op = "QueryHlt" THEN 1 ELSE 0
  BY <1>1 DEF P, Expect, DbgPacket
<1> HIDE DEF z
<1>4. P(c) \in Seq(Octet) /\ Len(P(c)) = 1 /\ P(c)[1] = z
  <2> DEFINE t == <<>>
  <2>1. t \in Seq(Octet) /\ Len(t) = 0 /\ P(c) = <<z>> \o t
    BY <1>3
  <2> HIDE DEF t
  <2> QED
    BY <2>1, <1>2, HeadOne
<1> QED
  BY <1>3, <1>4 DEF z

(* How many header bytes each opcode announces (hci.v:215-).               *)
LEMMA ArgsOf ==
  /\ \A o \in Octet : Args(o) \in 0 .. 5
  /\ Args(0) = 2 /\ Args(1) = 4 /\ Args(2) = 4 /\ Args(3) = 0 /\ Args(4) = 0 /\ Args(5) = 1
  /\ Args(6) = 2 /\ Args(7) = 0 /\ Args(8) = 0 /\ Args(9) = 4 /\ Args(10) = 4 /\ Args(11) = 0
  /\ Args(12) = 5
BY OpCodes DEF Args

LEMMA PacketShape ==
  ASSUME NEW c, IsCommand(c)
  PROVE  /\ P(c) \in Seq(Octet) /\ Len(P(c)) \in Nat \ {0} /\ P(c)[1] = Op[c.op]
         /\ Op[c.op] \in Octet
         /\ Len(P(c)) >= 1 + Args(Op[c.op]) /\ Args(Op[c.op]) \in 0 .. 5
         /\ c.op \notin {"Echo", "CpuMemWr", "PpuMemWr"} => Len(P(c)) = 1 + Args(Op[c.op])
         /\ Expect(c) \in Word
<1>1. c.op \in DOMAIN Op /\ c.op # "QueryErrCode" /\ Len(c.data) \in Word /\ c.n \in Word
  BY DEF IsCommand
<1>2. Op[c.op] \in Octet
  BY <1>1, OpOctet
<1>a. Args(Op[c.op]) \in 0 .. 5
  BY <1>2, ArgsOf
<1>b. {0, 1} \subseteq Word /\ Len(c.data) \in Nat
  <2>1. {0, 1} \subseteq Word /\ Word \subseteq Nat
    BY WordIs, SMT
  <2> QED
    BY <1>1, <2>1
<1>3. CASE c.op = "Echo"
  <2>1. Args(Op[c.op]) = 2 /\ Op[c.op] = 0
    BY <1>3, OpCodes, ArgsOf
  <2> QED
    BY <1>1, <1>2, <1>a, <1>b, <1>3, <2>1, EchoShape
<1>4. CASE c.op \in {"CpuMemWr", "PpuMemWr"}
  <2>1. Args(Op[c.op]) = 4
    BY <1>4, OpCodes, ArgsOf
  <2> QED
    BY <1>1, <1>2, <1>a, <1>b, <1>4, <2>1, MemWrShape
<1>5. CASE c.op \in {"CpuMemRd", "PpuMemRd"}
  <2>1. Args(Op[c.op]) = 4
    BY <1>5, OpCodes, ArgsOf
  <2> QED
    BY <1>1, <1>2, <1>a, <1>b, <1>5, <2>1, MemRdShape
<1>6. CASE c.op = "CpuRegRd"
  <2>1. Args(Op[c.op]) = 1 /\ Op[c.op] = 5
    BY <1>6, OpCodes, ArgsOf
  <2> QED
    BY <1>1, <1>2, <1>a, <1>b, <1>6, <2>1, RegRdShape
<1>7. CASE c.op = "CpuRegWr"
  <2>1. Args(Op[c.op]) = 2 /\ Op[c.op] = 6
    BY <1>7, OpCodes, ArgsOf
  <2> QED
    BY <1>1, <1>2, <1>a, <1>b, <1>7, <2>1, RegWrShape
<1>8. CASE c.op = "CartSetCfg"
  <2>1. Args(Op[c.op]) = 5 /\ Op[c.op] = 12
    BY <1>8, OpCodes, ArgsOf
  <2> QED
    BY <1>1, <1>2, <1>a, <1>b, <1>8, <2>1, CfgShape
<1>9. CASE c.op \in {"DbgHlt", "DbgRun", "QueryHlt", "PpuDisable"}
  <2>1. Args(Op[c.op]) = 0
    BY <1>9, OpCodes, ArgsOf
  <2> QED
    BY <1>1, <1>2, <1>a, <1>b, <1>9, <2>1, PlainShape
<1> QED
  BY <1>1, <1>3, <1>4, <1>5, <1>6, <1>7, <1>8, <1>9, OpCodes

(* The line: taking its first byte, and the packets on it.                 *)
LEMMA TakeByte ==
  ASSUME NEW r \in Seq(Octet), NEW o \in Seq(Octet), Len(r) <= 1, r # <<>>
  PROVE  /\ r \o o \in Seq(Octet) /\ r \o o # <<>> /\ Head(r) = (r \o o)[1]
         /\ Tail(r) = <<>> /\ Tail(r) \o o = Tail(r \o o) /\ Head(r) \in Octet
<1>a. Len(r) = 1
  <2> DEFINE n == Len(r)
  <2>1. n \in Nat \ {0}
    BY EmptySeq
  <2>2. n <= 1
    OBVIOUS
  <2> HIDE DEF n
  <2>3. n = 1
    BY <2>1, <2>2
  <2> QED
    BY <2>3 DEF n
<1>1. Len(r) = 1 /\ r \o o \in Seq(Octet) /\ Len(r \o o) = 1 + Len(o) /\ (r \o o)[1] = r[1]
      /\ \A i \in 1 .. Len(o) : (r \o o)[1 + i] = o[i]
  <2>1. /\ r \o o \in Seq(Octet) /\ Len(r \o o) = Len(r) + Len(o)
        /\ \A i \in 1 .. Len(r) : (r \o o)[i] = r[i]
        /\ \A i \in 1 .. Len(o) : (r \o o)[Len(r) + i] = o[i]
    BY Joined
  <2> QED
    BY <1>a, <2>1
<1>2. Tail(r) = <<>> /\ Head(r) = r[1] /\ Head(r) \in Octet
  BY <1>1
<1>3. Tail(r) \o o = o
  BY <1>2
<1>4. Tail(r \o o) = o
  <2> DEFINE s == r \o o
  <2>1. s \in Seq(Octet) /\ Len(s) = 1 + Len(o) /\ \A i \in 1 .. Len(o) : s[1 + i] = o[i]
    BY <1>1
  <2> HIDE DEF s
  <2>2. s # <<>> /\ Len(o) \in Nat
    BY <2>1
  <2>3. Tail(s) \in Seq(Octet) /\ Len(Tail(s)) = Len(s) - 1
        /\ \A i \in 1 .. Len(Tail(s)) : Tail(s)[i] = s[i + 1]
    BY <2>1, <2>2, HeadTailProperties
  <2>4. Len(Tail(s)) = Len(o) /\ \A i \in 1 .. Len(o) : Tail(s)[i] = o[i]
    BY <2>1, <2>2, <2>3
  <2>5. Tail(s) = o
    BY <2>3, <2>4, SeqEqual
  <2> QED
    BY <2>5 DEF s
<1> QED
  BY <1>1, <1>2, <1>3, <1>4

LEMMA TailJoin ==
  ASSUME NEW S, NEW a \in Seq(S), NEW b \in Seq(S), a # <<>>
  PROVE  (a \o b)[1] = a[1] /\ Tail(a \o b) = Tail(a) \o b /\ a \o b # <<>>
<1> DEFINE s == a \o b
           t == Tail(a) \o b
<1>1. s \in Seq(S) /\ Len(s) = Len(a) + Len(b) /\ Len(a) \in Nat \ {0} /\ Len(b) \in Nat
      /\ (\A i \in 1 .. Len(a) : s[i] = a[i]) /\ (\A i \in 1 .. Len(b) : s[Len(a) + i] = b[i])
  BY Joined
<1>2. Tail(a) \in Seq(S) /\ Len(Tail(a)) = Len(a) - 1 /\ \A i \in 1 .. Len(a) - 1 : Tail(a)[i] = a[i + 1]
  BY <1>1, HeadTailProperties
<1>3. t \in Seq(S) /\ Len(t) = Len(a) - 1 + Len(b)
      /\ (\A i \in 1 .. Len(a) - 1 : t[i] = Tail(a)[i])
      /\ (\A i \in 1 .. Len(b) : t[Len(a) - 1 + i] = b[i])
  BY <1>1, <1>2, Joined
<1> HIDE DEF s, t
<1>4. s # <<>> /\ s[1] = a[1]
  BY <1>1
<1>5. Tail(s) \in Seq(S) /\ Len(Tail(s)) = Len(s) - 1 /\ \A i \in 1 .. Len(s) - 1 : Tail(s)[i] = s[i + 1]
  BY <1>1, <1>4, HeadTailProperties
<1>6. ASSUME NEW i \in 1 .. Len(t)
      PROVE  Tail(s)[i] = t[i]
  <2>1. Tail(s)[i] = s[i + 1]
    BY <1>1, <1>3, <1>5
  <2>2. CASE i <= Len(a) - 1
    <3>1. i \in 1 .. Len(a) - 1 /\ i + 1 \in 1 .. Len(a)
      BY <1>1, <1>3, <2>2
    <3> QED
      BY <3>1, <2>1, <1>1, <1>2, <1>3
  <2>3. CASE i > Len(a) - 1
    <3>1. PICK k \in 1 .. Len(b) : i = Len(a) - 1 + k
      <4>1. i - (Len(a) - 1) \in 1 .. Len(b) /\ i = Len(a) - 1 + (i - (Len(a) - 1))
        BY <1>1, <1>3, <2>3
      <4> QED
        BY <4>1
    <3>2. i + 1 = Len(a) + k
      BY <3>1, <1>1
    <3> QED
      BY <3>1, <3>2, <2>1, <1>1, <1>3
  <2> QED
    BY <2>2, <2>3, <1>1, <1>3
<1>7. Tail(s) = t
  <2>1. Len(Tail(s)) = Len(t)
    BY <1>1, <1>3, <1>5
  <2> QED
    BY <2>1, <1>3, <1>5, <1>6, SeqEqual
<1> QED
  BY <1>4, <1>7 DEF s, t

LEMMA RestStep ==
  ASSUME NEW S, NEW p \in Seq(S), NEW k \in Nat, k < Len(p)
  PROVE  LET r == SubSeq(p, k + 1, Len(p)) IN
         /\ r \in Seq(S) /\ r # <<>> /\ Len(r) = Len(p) - k /\ r[1] = p[k + 1] /\ p[k + 1] \in S
         /\ Tail(r) = SubSeq(p, k + 2, Len(p))
<1> DEFINE m == k + 1
           n == Len(p)
           r == SubSeq(p, m, n)
<1>1. n \in Nat /\ m \in 1 .. n /\ n \in m .. n /\ n - m + 1 = n - k /\ m + 1 = k + 2
  OBVIOUS
<1>2. \A i \in m .. n : p[i] \in S
  BY <1>1
<1>3. p[m] \in S
  BY <1>1, <1>2
<1> HIDE DEF m, n
<1>4. r \in Seq(S) /\ Len(r) = n - m + 1 /\ \A i \in 1 .. n - m + 1 : r[i] = p[m + i - 1]
  BY <1>1, <1>2, SubSeqProperties
<1>5. Tail(r) = SubSeq(p, m + 1, n)
  BY <1>1, HeadTailOfSubSeq DEF n
<1>6. r # <<>> /\ r[1] = p[m] /\ Len(r) = n - k
  <2>1. 1 \in 1 .. n - m + 1 /\ m + 1 - 1 = m
    BY <1>1
  <2>2. Len(r) = n - k /\ r[1] = p[m]
    BY <1>1, <1>4, <2>1
  <2>3. n - k > 0
    BY <1>1
  <2> HIDE DEF r
  <2> QED
    BY <2>2, <2>3, <1>4
<1> QED
  BY <1>1, <1>3, <1>4, <1>5, <1>6 DEF m, n

LEMMA RestEnd ==
  ASSUME NEW S, NEW p \in Seq(S)
  PROVE  SubSeq(p, Len(p) + 1, Len(p)) = <<>>
<1>1. Len(p) \in Int /\ Len(p) + 1 \in Int /\ Len(p) < Len(p) + 1
  OBVIOUS
<1> QED
  BY <1>1, SubSeqEmpty

(* The packets on the line.                                                *)
LEMMA WireBytes ==
  ASSUME NEW s, IsQueue(s)
  PROVE  /\ WireOf(s) \in Seq(Octet) /\ Len(s) \in 0 .. 2 /\ (s = <<>> <=> Len(s) = 0)
         /\ s # <<>> => WireOf(s) # <<>>
         /\ Len(s) = 2 => Len(WireOf(s)) >= 2
<1>1. CASE s = <<>>
  BY <1>1 DEF WireOf
<1>2. CASE s = <<s[1]>> /\ IsCommand(s[1])
  <2>1. Len(s) = 1 /\ s # <<>>
    BY <1>2
  <2>2. WireOf(s) = P(s[1])
    BY <2>1 DEF WireOf
  <2>3. P(s[1]) \in Seq(Octet) /\ Len(P(s[1])) # 0
    BY <1>2, PacketShape
  <2> QED
    BY <2>1, <2>2, <2>3
<1>3. CASE s = <<s[1], s[2]>> /\ IsCommand(s[1]) /\ IsCommand(s[2])
  <2>1. Len(s) = 2 /\ s # <<>>
    BY <1>3
  <2>2. WireOf(s) = P(s[1]) \o P(s[2])
    BY <2>1 DEF WireOf
  <2> DEFINE p == P(s[1])
             q == P(s[2])
  <2>3. p \in Seq(Octet) /\ Len(p) \in Nat \ {0} /\ q \in Seq(Octet) /\ Len(q) \in Nat \ {0}
    BY <1>3, PacketShape
  <2> HIDE DEF p, q
  <2>4. p \o q \in Seq(Octet) /\ Len(p \o q) = Len(p) + Len(q)
    BY <2>3, Joined
  <2>5. p \o q # <<>> /\ Len(p \o q) >= 2
    BY <2>3, <2>4
  <2> QED
    BY <2>1, <2>2, <2>4, <2>5 DEF p, q
<1> QED
  BY <1>1, <1>2, <1>3 DEF IsQueue

LEMMA QueueTail ==
  ASSUME NEW s, IsQueue(s), s # <<>>
  PROVE  /\ Head(s) = s[1] /\ IsCommand(s[1]) /\ IsQueue(Tail(s))
         /\ Len(Tail(s)) = Len(s) - 1 /\ (Len(s) = 2 => Tail(s)[1] = s[2])
         /\ WireOf(s) = P(s[1]) \o WireOf(Tail(s))
<1>2. CASE s = <<s[1]>> /\ IsCommand(s[1])
  <2>0. PICK d : d = s[1] /\ s = <<d>>
    BY <1>2
  <2>1. Len(s) = 1 /\ Head(s) = s[1] /\ Tail(s) = <<>> /\ Len(Tail(s)) = 0
    BY <2>0
  <2>2. WireOf(s) = P(s[1]) /\ WireOf(Tail(s)) = <<>>
    BY <2>1 DEF WireOf
  <2>3. P(s[1]) \in Seq(Octet)
    BY <1>2, PacketShape
  <2>4. P(s[1]) \o <<>> = P(s[1])
    BY <2>3, ConcatEmptySeq
  <2>5. IsQueue(Tail(s))
    BY <2>1 DEF IsQueue
  <2> QED
    <3>1. WireOf(s) = P(s[1]) \o WireOf(Tail(s))
      BY <2>2, <2>4
    <3>2. Len(Tail(s)) = Len(s) - 1 /\ ~(Len(s) = 2)
      BY <2>1
    <3> QED
      BY <1>2, <2>1, <2>5, <3>1, <3>2
<1>3. CASE s = <<s[1], s[2]>> /\ IsCommand(s[1]) /\ IsCommand(s[2])
  <2>0. PICK d, e : d = s[1] /\ e = s[2] /\ s = <<d, e>>
    BY <1>3
  <2>1. Len(s) = 2 /\ Head(s) = s[1] /\ Tail(s) = <<s[2]>>
    BY <2>0
  <2>2. Len(Tail(s)) = 1 /\ Tail(s)[1] = s[2] /\ Tail(s) # <<>>
    BY <2>1
  <2>3. WireOf(s) = P(s[1]) \o P(s[2]) /\ WireOf(Tail(s)) = P(s[2])
    BY <2>1, <2>2 DEF WireOf
  <2>4. IsQueue(Tail(s))
    BY <1>3, <2>1, <2>2 DEF IsQueue
  <2> QED
    BY <1>3, <2>1, <2>2, <2>3, <2>4
<1> QED
  BY <1>2, <1>3 DEF IsQueue

LEMMA QueueAppend ==
  ASSUME NEW s, IsQueue(s), Len(s) < 2, NEW c, IsCommand(c)
  PROVE  /\ IsQueue(Append(s, c)) /\ Len(Append(s, c)) = Len(s) + 1
         /\ Append(s, c)[Len(s) + 1] = c /\ (Len(s) = 1 => Append(s, c)[1] = s[1])
         /\ WireOf(Append(s, c)) = WireOf(s) \o P(c) /\ Append(s, c) # <<>>
<1>0. P(c) \in Seq(Octet) /\ <<>> \o P(c) = P(c)
  BY PacketShape, ConcatEmptySeq
<1>1. CASE s = <<>>
  <2>1. Append(s, c) = <<c>> /\ Len(s) = 0
    BY <1>1
  <2>2. Append(s, c)[1] = c /\ Len(Append(s, c)) = 1 /\ Append(s, c) # <<>>
    BY <2>1
  <2>3. WireOf(Append(s, c)) = P(c) /\ WireOf(s) = <<>>
    BY <2>2, <1>1 DEF WireOf
  <2> QED
    BY <1>0, <2>1, <2>2, <2>3 DEF IsQueue
<1>2. CASE s = <<s[1]>> /\ IsCommand(s[1])
  <2> DEFINE d == s[1]
  <2>0. s = <<d>> /\ IsCommand(d)
    BY <1>2
  <2> HIDE DEF d
  <2>1. Append(s, c) = <<d, c>> /\ Len(s) = 1 /\ s # <<>>
    <3> DEFINE T == {c, d}
               a == Append(s, c)
               b == <<d, c>>
    <3>1. s \in Seq(T) /\ c \in T /\ Len(s) = 1 /\ s[1] = d /\ s # <<>>
      BY <2>0
    <3>2. b \in Seq(T) /\ Len(b) = 2 /\ b[1] = d /\ b[2] = c
      OBVIOUS
    <3> HIDE DEF T, b
    <3>3. a \in Seq(T) /\ Len(a) = 2 /\ a[1] = d /\ a[2] = c
      <4>1. a \in Seq(T) /\ Len(a) = Len(s) + 1 /\ (\A i \in 1 .. Len(s) : a[i] = s[i])
            /\ a[Len(s) + 1] = c
        <5>1. s \in Seq(T) /\ c \in T
          BY <3>1
        <5>2. a \in Seq(T)
          BY <5>1, AppendProperties
        <5>3. Len(a) = Len(s) + 1
          BY <5>1, AppendProperties
        <5>4. ASSUME NEW i \in 1 .. Len(s) PROVE a[i] = s[i]
          BY <5>1, AppendProperties
        <5>5. a[Len(s) + 1] = c
          BY <5>1, AppendProperties
        <5> QED
          BY <5>2, <5>3, <5>4, <5>5
      <4> HIDE DEF a
      <4> QED
        BY <3>1, <4>1
    <3> HIDE DEF a
    <3>4. Len(a) = Len(b) /\ \A i \in 1 .. Len(a) : a[i] = b[i]
      BY <3>2, <3>3
    <3>5. a = b
      BY <3>2, <3>3, <3>4, SeqEqual
    <3> QED
      BY <3>1, <3>5 DEF a, b
  <2>2. Append(s, c)[1] = d /\ Append(s, c)[2] = c /\ Len(Append(s, c)) = 2 /\ Append(s, c) # <<>>
    BY <2>1
  <2>3. WireOf(Append(s, c)) = P(d) \o P(c)
    BY <2>2 DEF WireOf
  <2>4. WireOf(s) = P(d)
    BY <2>1 DEF WireOf, d
  <2>5. IsQueue(Append(s, c))
    BY <2>0, <2>1, <2>2 DEF IsQueue
  <2>6. d = s[1]
    BY DEF d
  <2> HIDE DEF d
  <2> QED
    <3>1. WireOf(Append(s, c)) = WireOf(s) \o P(c)
      BY <2>3, <2>4
    <3>2. Len(Append(s, c)) = Len(s) + 1 /\ Append(s, c)[Len(s) + 1] = c
      BY <2>1, <2>2
    <3>3. Append(s, c)[1] = s[1]
      BY <2>2, <2>6
    <3> QED
      BY <2>5, <2>2, <3>1, <3>2, <3>3
<1>3. CASE s = <<s[1], s[2]>>
  <2>1. PICK d, e : s = <<d, e>>
    BY <1>3
  <2>2. Len(s) = 2
    BY <2>1
  <2> QED
    BY <2>2
<1> QED
  BY <1>1, <1>2, <1>3 DEF IsQueue

(* Storing bytes one by one (hci.v:420-, nes.v): the cells of a transfer   *)
(* are distinct, and addresses wrap.                                       *)
Cell(a, i) == (a + i - 1) % WORD

LEMMA CellIs ==
  ASSUME NEW a \in Word, NEW i \in 1 .. WORD
  PROVE  /\ Cell(a, i) = IF a + i - 1 < 65536 THEN a + i - 1 ELSE a + i - 1 - 65536
         /\ Cell(a, i) \in Word
         /\ a \in Int /\ 0 <= a /\ a < 65536 /\ i \in Int /\ 1 <= i /\ i <= 65536
<1>1. a \in Int /\ 0 <= a /\ a < 65536
  BY WordIs, SMT
<1>a. i \in Int /\ 1 <= i /\ i <= 65536
  BY UpToWord, SMT
<1> DEFINE t == a + i - 1
<1>2. t \in Int /\ 0 <= t /\ t < 131072
  BY <1>1, <1>a, SMT
<1> HIDE DEF t
<1>3. (t % 65536) = IF t < 65536 THEN t ELSE t - 65536
  BY <1>2, SMT
<1>4. Cell(a, i) = IF t < 65536 THEN t ELSE t - 65536
  BY <1>3, WordSize, SMT DEF Cell, t
<1> DEFINE c == Cell(a, i)
<1>5. c \in Int /\ 0 <= c /\ c < 65536
  <2>1. c = IF t < 65536 THEN t ELSE t - 65536
    BY <1>4
  <2> HIDE DEF c
  <2> QED
    BY <2>1, <1>2, SMT
<1>6. c \in Word
  <2> HIDE DEF c
  <2> QED
    BY <1>5, WordIs, SMT
<1> QED
  BY <1>1, <1>a, <1>4, <1>6, SMT DEF t

LEMMA Unwrap ==
  ASSUME NEW i \in Int, NEW j \in Int, NEW a \in Int, NEW c, NEW d,
         c = IF a + i - 1 < 65536 THEN a + i - 1 ELSE a + i - 1 - 65536,
         d = IF a + j - 1 < 65536 THEN a + j - 1 ELSE a + j - 1 - 65536,
         0 <= a, a < 65536, 1 <= i, i <= 65536, 1 <= j, j <= 65536, c = d
  PROVE  i = j
BY SMT

LEMMA CellsDistinct ==
  ASSUME NEW a \in Word, NEW i \in 1 .. WORD, NEW j \in 1 .. WORD, Cell(a, i) = Cell(a, j)
  PROVE  i = j
<1>1. /\ Cell(a, i) = IF a + i - 1 < 65536 THEN a + i - 1 ELSE a + i - 1 - 65536
      /\ a \in Int /\ 0 <= a /\ a < 65536 /\ i \in Int /\ 1 <= i /\ i <= 65536
  BY CellIs, SMT
<1>2. /\ Cell(a, j) = IF a + j - 1 < 65536 THEN a + j - 1 ELSE a + j - 1 - 65536
      /\ j \in Int /\ 1 <= j /\ j <= 65536
  BY CellIs, SMT
<1>3. PICK c : c = Cell(a, i)
  OBVIOUS
<1>4. c = IF a + i - 1 < 65536 THEN a + i - 1 ELSE a + i - 1 - 65536
  BY <1>1, <1>3, SMT
<1>5. c = IF a + j - 1 < 65536 THEN a + j - 1 ELSE a + j - 1 - 65536
  BY <1>2, <1>3, SMT
<1> QED
  BY <1>1, <1>2, <1>4, <1>5, Unwrap, SMT

LEMMA FirstCell ==
  ASSUME NEW a \in Word
  PROVE  Cell(a, 1) = a
<1>1. 1 \in 1 .. WORD
  BY UpToWord, SMT
<1>2. /\ Cell(a, 1) = IF a + 1 - 1 < 65536 THEN a + 1 - 1 ELSE a + 1 - 1 - 65536
      /\ a \in Int /\ 0 <= a /\ a < 65536
  BY <1>1, CellIs, SMT
<1> QED
  BY <1>2, SMT

LEMMA NextCell ==
  ASSUME NEW a \in Word, NEW i \in 1 .. WORD, i + 1 <= WORD
  PROVE  (Cell(a, i) + 1) % WORD = Cell(a, i + 1)
<1> DEFINE x == Cell(a, i)
           j == i + 1
<1>1. /\ x = IF a + i - 1 < 65536 THEN a + i - 1 ELSE a + i - 1 - 65536
      /\ x \in Word /\ a \in Int /\ 0 <= a /\ a < 65536 /\ i \in Int /\ 1 <= i /\ i <= 65536
  BY CellIs, SMT
<1>2. j \in 1 .. WORD
  <2>1. j \in Int /\ 1 <= j /\ j <= WORD
    BY <1>1, WordSize, SMT
  <2> HIDE DEF j
  <2> QED
    BY <2>1, WordInt, Ranges, SMT
<1> HIDE DEF x, j
<1>3. /\ Cell(a, j) = IF a + j - 1 < 65536 THEN a + j - 1 ELSE a + j - 1 - 65536
      /\ j \in Int /\ 1 <= j /\ j <= 65536
  BY <1>2, CellIs, SMT
<1>4. x \in Int /\ 0 <= x /\ x < 65536
  BY <1>1, WordIs, SMT
<1>5. ((x + 1) % 65536) = IF x + 1 < 65536 THEN x + 1 ELSE x + 1 - 65536
  BY <1>4, SMT
<1>6. ((x + 1) % WORD) = IF x + 1 < 65536 THEN x + 1 ELSE x + 1 - 65536
  BY <1>5, WordSize, SMT
<1>7. j = i + 1
  BY DEF j
<1>8. ((x + 1) % WORD) = Cell(a, j)
  BY <1>1, <1>3, <1>4, <1>6, <1>7, SMT
<1> QED
  BY <1>8 DEF x, j

LEMMA UpTo ==
  ASSUME NEW d \in Seq(Octet), Len(d) <= WORD
  PROVE  \A i \in 1 .. Len(d) : i \in 1 .. WORD
<1> DEFINE n == Len(d)
<1>1. n \in Nat /\ n <= WORD
  OBVIOUS
<1> HIDE DEF n
<1>2. ASSUME NEW i \in 1 .. n
      PROVE  i \in 1 .. WORD
  <2>1. i \in Int /\ 1 <= i /\ i <= WORD
    BY <1>1, WordSize, SMT
  <2> QED
    BY <2>1, WordInt, Ranges, SMT
<1> QED
  BY <1>2 DEF n

LEMMA SmallLen == <<>> \in Seq(Octet) /\ Len(<<>>) = 0 /\ 0 <= WORD /\ 1 <= WORD
<1>1. 0 <= WORD /\ 1 <= WORD
  BY WordSize, SMT
<1> QED
  BY <1>1

(* What Put does, without its CHOOSE.                                      *)
Stored(m, a, d, r) ==
  /\ DOMAIN r = DOMAIN m \cup {Cell(a, i) : i \in 1 .. Len(d)}
  /\ r = [x \in DOMAIN r |-> r[x]]
  /\ \A i \in 1 .. Len(d) : r[Cell(a, i)] = d[i]
  /\ \A x \in DOMAIN m : (\A i \in 1 .. Len(d) : Cell(a, i) # x) => r[x] = m[x]

LEMMA PutStores ==
  ASSUME NEW m, NEW a \in Word, NEW d \in Seq(Octet), Len(d) <= WORD
  PROVE  Stored(m, a, d, Put(m, a, d))
<1> DEFINE D == 1 .. Len(d)
           new == {(a + i - 1) % WORD : i \in DOMAIN d}
           last(x) == CHOOSE i \in DOMAIN d :
                   /\ (a + i - 1) % WORD = x
                   /\ \A j \in DOMAIN d : (a + j - 1) % WORD = x => j <= i
           r == [x \in DOMAIN m \cup new |-> IF x \in new THEN d[last(x)] ELSE m[x]]
<1>1. Put(m, a, d) = r
  BY Zenon DEF Put
<1>2. DOMAIN d = D /\ Len(d) \in Nat
  OBVIOUS
<1>3. new = {Cell(a, i) : i \in D}
  BY <1>2 DEF Cell
<1>4. \A i \in D : i \in 1 .. WORD
  BY UpTo
<1>5. ASSUME NEW i \in D
      PROVE  last(Cell(a, i)) = i
  <2>1. (a + i - 1) % WORD = Cell(a, i)
    BY DEF Cell
  <2>2. \A j \in D : (a + j - 1) % WORD = Cell(a, i) => j = i
    <3>1. TAKE j \in D
    <3>2. HAVE (a + j - 1) % WORD = Cell(a, i)
    <3>3. Cell(a, j) = Cell(a, i)
      BY <3>2 DEF Cell
    <3> QED
      BY <3>3, <1>4, CellsDistinct
  <2>3. i <= i
    BY <1>2
  <2> QED
    BY <1>2, <2>1, <2>2, <2>3
<1>6. \A i \in D : Cell(a, i) \in new /\ Cell(a, i) \in DOMAIN m \cup new
  BY <1>3
<1>7. \A x \in DOMAIN m : (\A i \in D : Cell(a, i) # x) => x \notin new
  BY <1>3
<1> HIDE DEF new, last
<1>8. DOMAIN r = DOMAIN m \cup new /\ r = [x \in DOMAIN r |-> r[x]]
  OBVIOUS
<1>9. \A i \in D : r[Cell(a, i)] = d[i]
  BY <1>5, <1>6
<1>10. \A x \in DOMAIN m : (\A i \in D : Cell(a, i) # x) => r[x] = m[x]
  BY <1>7
<1> HIDE DEF r
<1> QED
  BY <1>1, <1>3, <1>8, <1>9, <1>10 DEF Stored

LEMMA StoredOnce ==
  ASSUME NEW m, NEW a \in Word, NEW d \in Seq(Octet), NEW r, NEW s,
         Stored(m, a, d, r), Stored(m, a, d, s)
  PROVE  r = s
<1>1. DOMAIN r = DOMAIN s
  BY DEF Stored
<1>2. ASSUME NEW x \in DOMAIN r
      PROVE  r[x] = s[x]
  <2>1. CASE \E i \in 1 .. Len(d) : Cell(a, i) = x
    BY <2>1 DEF Stored
  <2>2. CASE \A i \in 1 .. Len(d) : Cell(a, i) # x
    <3>1. x \in DOMAIN m
      BY <2>2 DEF Stored
    <3> QED
      BY <2>2, <3>1 DEF Stored
  <2> QED
    BY <2>1, <2>2
<1>3. r = [x \in DOMAIN r |-> r[x]] /\ s = [x \in DOMAIN s |-> s[x]]
  BY DEF Stored
<1>4. [x \in DOMAIN r |-> r[x]] = [x \in DOMAIN s |-> s[x]]
  BY <1>1, <1>2
<1> QED
  BY <1>3, <1>4, Zenon

LEMMA PutMemory ==
  ASSUME NEW m, IsMemory(m), NEW a \in Word, NEW d \in Seq(Octet), Len(d) <= WORD
  PROVE  IsMemory(Put(m, a, d))
<1> DEFINE r == Put(m, a, d)
<1>1. Stored(m, a, d, r)
  BY PutStores
<1> HIDE DEF r
<1>2. \A i \in 1 .. Len(d) : i \in 1 .. WORD /\ d[i] \in Octet
  BY UpTo
<1>3. \A i \in 1 .. Len(d) : Cell(a, i) \in Word
  BY <1>2, CellIs
<1>4. DOMAIN r \subseteq Word
  BY <1>1, <1>3 DEF Stored, IsMemory
<1>5. ASSUME NEW x \in DOMAIN r
      PROVE  r[x] \in Octet
  <2>1. CASE \E i \in 1 .. Len(d) : Cell(a, i) = x
    BY <1>1, <1>2, <2>1 DEF Stored
  <2>2. CASE \A i \in 1 .. Len(d) : Cell(a, i) # x
    BY <1>1, <2>2 DEF Stored, IsMemory
  <2> QED
    BY <2>1, <2>2
<1> QED
  BY <1>1, <1>4, <1>5 DEF IsMemory, Stored, r

(* One byte.                                                               *)
LEMMA PutByte ==
  ASSUME NEW m, IsMemory(m), NEW x \in Word, NEW b \in Octet
  PROVE  LET r == Put(m, x, <<b>>) IN
         /\ IsMemory(r) /\ DOMAIN r = DOMAIN m \cup {x} /\ r[x] = b
         /\ \A y \in DOMAIN m : y # x => r[y] = m[y]
<1> DEFINE d == <<b>>
           r == Put(m, x, d)
<1>1. d \in Seq(Octet) /\ Len(d) = 1 /\ d[1] = b /\ Len(d) <= WORD
  BY SmallLen
<1> HIDE DEF d
<1>2. Stored(m, x, d, r) /\ IsMemory(r)
  BY <1>1, PutStores, PutMemory
<1>3. Cell(x, 1) = x
  BY FirstCell
<1>4. {Cell(x, i) : i \in 1 .. Len(d)} = {x}
  BY <1>1, <1>3
<1> HIDE DEF r
<1> QED
  BY <1>1, <1>2, <1>3, <1>4 DEF Stored, r, d

(* A byte of a transfer stored before the rest changes nothing.            *)
LEMMA PutAfterByte ==
  ASSUME NEW m, IsMemory(m), NEW a \in Word, NEW d \in Seq(Octet), Len(d) <= WORD,
         NEW k \in 1 .. Len(d)
  PROVE  Put(Put(m, Cell(a, k), <<d[k]>>), a, d) = Put(m, a, d)
<1> DEFINE x == Cell(a, k)
           n == Put(m, x, <<d[k]>>)
           r == Put(n, a, d)
<1>1. k \in 1 .. WORD /\ d[k] \in Octet
  BY UpTo
<1>2. x \in Word
  BY <1>1, CellIs
<1>3. DOMAIN n = DOMAIN m \cup {x} /\ \A y \in DOMAIN m : y # x => n[y] = m[y]
  BY <1>1, <1>2, PutByte
<1>4. Stored(n, a, d, r)
  BY PutStores
<1>5. x \in {Cell(a, i) : i \in 1 .. Len(d)}
  OBVIOUS
<1>z. \E i \in 1 .. Len(d) : Cell(a, i) = x
  OBVIOUS
<1> HIDE DEF n, r, x
<1>6. Stored(m, a, d, r)
  BY <1>3, <1>4, <1>5, <1>z DEF Stored
<1>7. Stored(m, a, d, Put(m, a, d))
  BY PutStores
<1> QED
  BY <1>6, <1>7, StoredOnce DEF r, n, x

(* A transfer whose bytes are all there has been made.                     *)
LEMMA PutMade ==
  ASSUME NEW m, IsMemory(m), NEW a \in Word, NEW d \in Seq(Octet), Len(d) <= WORD,
         \A i \in 1 .. Len(d) : Cell(a, i) \in DOMAIN m /\ m[Cell(a, i)] = d[i]
  PROVE  Put(m, a, d) = m
<1>1. Stored(m, a, d, m)
  BY DEF Stored, IsMemory
<1>2. Stored(m, a, d, Put(m, a, d))
  BY PutStores
<1> QED
  BY <1>1, <1>2, StoredOnce

LEMMA ReadOctet ==
  ASSUME NEW m, IsMemory(m), NEW x
  PROVE  Read(m, x) \in Octet
BY DEF Read, IsMemory, Octet, BYTE

(* What is read after a transfer.                                          *)
LEMMA ReadAfterPut ==
  ASSUME NEW m, NEW a \in Word, NEW d \in Seq(Octet), Len(d) <= WORD
  PROVE  /\ \A i \in 1 .. Len(d) : Read(Put(m, a, d), Cell(a, i)) = d[i]
         /\ \A x : (\A i \in 1 .. Len(d) : Cell(a, i) # x) => Read(Put(m, a, d), x) = Read(m, x)
<1> DEFINE r == Put(m, a, d)
<1>1. Stored(m, a, d, r)
  BY PutStores
<1> HIDE DEF r
<1>2. \A i \in 1 .. Len(d) : Cell(a, i) \in DOMAIN r
  BY <1>1 DEF Stored
<1>3. \A i \in 1 .. Len(d) : Read(r, Cell(a, i)) = d[i]
  BY <1>1, <1>2 DEF Stored, Read
<1>4. ASSUME NEW x, \A i \in 1 .. Len(d) : Cell(a, i) # x
      PROVE  Read(r, x) = Read(m, x)
  BY <1>1, <1>4 DEF Stored, Read
<1> QED
  BY <1>3, <1>4 DEF r

(* The machine after a command: one part of it has changed.                *)
Mach(h, m, v, c, p, r) ==
  [halted |-> h, mem |-> m, vram |-> v, cfg |-> c, ppu |-> p, regs |-> r]

LEMMA MachParts ==
  ASSUME NEW h, NEW m, NEW v, NEW c, NEW p, NEW r
  PROVE  LET n == Mach(h, m, v, c, p, r) IN
         n.halted = h /\ n.mem = m /\ n.vram = v /\ n.cfg = c /\ n.ppu = p /\ n.regs = r
BY DEF Mach

LEMMA MachIs ==
  ASSUME NEW h \in BOOLEAN, NEW m, IsMemory(m), NEW v, IsMemory(v), NEW c \in Seq(Octet), Len(c) = 5,
         NEW p \in BOOLEAN, NEW r \in [0 .. 6 -> Octet]
  PROVE  IsMachine(Mach(h, m, v, c, p, r))
BY DEF IsMachine, Mach

LEMMA MachOf ==
  ASSUME NEW m, IsMachine(m)
  PROVE  /\ m = Mach(m.halted, m.mem, m.vram, m.cfg, m.ppu, m.regs)
         /\ m.halted \in BOOLEAN /\ IsMemory(m.mem) /\ IsMemory(m.vram)
         /\ m.cfg \in Seq(Octet) /\ Len(m.cfg) = 5 /\ m.ppu \in BOOLEAN
         /\ m.regs \in [0 .. 6 -> Octet]
BY Zenon DEF IsMachine, Mach

LEMMA MachHalted ==
  ASSUME NEW n, NEW h, NEW m, NEW v, NEW c, NEW p, NEW r, NEW x, n = Mach(h, m, v, c, p, r)
  PROVE  [n EXCEPT !.halted = x] = Mach(x, m, v, c, p, r)
BY DEF Mach

LEMMA MachMem ==
  ASSUME NEW n, NEW h, NEW m, NEW v, NEW c, NEW p, NEW r, NEW x, n = Mach(h, m, v, c, p, r)
  PROVE  [n EXCEPT !.mem = x] = Mach(h, x, v, c, p, r)
BY DEF Mach

LEMMA MachVram ==
  ASSUME NEW n, NEW h, NEW m, NEW v, NEW c, NEW p, NEW r, NEW x, n = Mach(h, m, v, c, p, r)
  PROVE  [n EXCEPT !.vram = x] = Mach(h, m, x, c, p, r)
BY DEF Mach

LEMMA MachCfg ==
  ASSUME NEW n, NEW h, NEW m, NEW v, NEW c, NEW p, NEW r, NEW x, n = Mach(h, m, v, c, p, r)
  PROVE  [n EXCEPT !.cfg = x] = Mach(h, m, v, x, p, r)
BY DEF Mach

LEMMA MachPpu ==
  ASSUME NEW n, NEW h, NEW m, NEW v, NEW c, NEW p, NEW r, NEW x, n = Mach(h, m, v, c, p, r)
  PROVE  [n EXCEPT !.ppu = x] = Mach(h, m, v, c, x, r)
BY DEF Mach

LEMMA MachFields ==
  ASSUME NEW n, NEW h, NEW m, NEW v, NEW c, NEW p, NEW r, n = Mach(h, m, v, c, p, r)
  PROVE  n.halted = h /\ n.mem = m /\ n.vram = v /\ n.cfg = c /\ n.ppu = p /\ n.regs = r
BY DEF Mach

LEMMA WithHalted ==
  ASSUME NEW m, IsMachine(m), NEW b \in BOOLEAN
  PROVE  /\ [m EXCEPT !.halted = b] = Mach(b, m.mem, m.vram, m.cfg, m.ppu, m.regs)
         /\ IsMachine([m EXCEPT !.halted = b]) /\ [m EXCEPT !.halted = b].halted = b
         /\ m.halted = b => [m EXCEPT !.halted = b] = m
<1>1. [m EXCEPT !.halted = b] = Mach(b, m.mem, m.vram, m.cfg, m.ppu, m.regs)
  <2>1. m = Mach(m.halted, m.mem, m.vram, m.cfg, m.ppu, m.regs)
    BY MachOf
  <2> DEFINE h == m.halted
             me == m.mem
             ve == m.vram
             ce == m.cfg
             pe == m.ppu
             re == m.regs
  <2>2. m = Mach(h, me, ve, ce, pe, re)
    BY <2>1
  <2> HIDE DEF h, me, ve, ce, pe, re
  <2>3. [m EXCEPT !.halted = b] = Mach(b, me, ve, ce, pe, re)
    BY <2>2, MachHalted
  <2> QED
    BY <2>3 DEF h, me, ve, ce, pe, re
<1>2. IsMachine(Mach(b, m.mem, m.vram, m.cfg, m.ppu, m.regs))
  BY MachOf, MachIs
<1> QED
  BY <1>1, <1>2, MachOf, MachParts

LEMMA WithMem ==
  ASSUME NEW m, IsMachine(m), NEW x, IsMemory(x)
  PROVE  /\ [m EXCEPT !.mem = x] = Mach(m.halted, x, m.vram, m.cfg, m.ppu, m.regs)
         /\ IsMachine([m EXCEPT !.mem = x]) /\ [m EXCEPT !.mem = x].halted = m.halted
<1>1. [m EXCEPT !.mem = x] = Mach(m.halted, x, m.vram, m.cfg, m.ppu, m.regs)
  <2>1. m = Mach(m.halted, m.mem, m.vram, m.cfg, m.ppu, m.regs)
    BY MachOf
  <2> DEFINE h == m.halted
             me == m.mem
             ve == m.vram
             ce == m.cfg
             pe == m.ppu
             re == m.regs
  <2>2. m = Mach(h, me, ve, ce, pe, re)
    BY <2>1
  <2> HIDE DEF h, me, ve, ce, pe, re
  <2>3. [m EXCEPT !.mem = x] = Mach(h, x, ve, ce, pe, re)
    BY <2>2, MachMem
  <2> QED
    BY <2>3 DEF h, me, ve, ce, pe, re
<1>2. IsMachine(Mach(m.halted, x, m.vram, m.cfg, m.ppu, m.regs))
  BY MachOf, MachIs
<1> QED
  BY <1>1, <1>2, MachParts

LEMMA WithVram ==
  ASSUME NEW m, IsMachine(m), NEW x, IsMemory(x)
  PROVE  /\ [m EXCEPT !.vram = x] = Mach(m.halted, m.mem, x, m.cfg, m.ppu, m.regs)
         /\ IsMachine([m EXCEPT !.vram = x]) /\ [m EXCEPT !.vram = x].halted = m.halted
<1>1. [m EXCEPT !.vram = x] = Mach(m.halted, m.mem, x, m.cfg, m.ppu, m.regs)
  <2>1. m = Mach(m.halted, m.mem, m.vram, m.cfg, m.ppu, m.regs)
    BY MachOf
  <2> DEFINE h == m.halted
             me == m.mem
             ve == m.vram
             ce == m.cfg
             pe == m.ppu
             re == m.regs
  <2>2. m = Mach(h, me, ve, ce, pe, re)
    BY <2>1
  <2> HIDE DEF h, me, ve, ce, pe, re
  <2>3. [m EXCEPT !.vram = x] = Mach(h, me, x, ce, pe, re)
    BY <2>2, MachVram
  <2> QED
    BY <2>3 DEF h, me, ve, ce, pe, re
<1>2. IsMachine(Mach(m.halted, m.mem, x, m.cfg, m.ppu, m.regs))
  BY MachOf, MachIs
<1> QED
  BY <1>1, <1>2, MachParts

LEMMA WithCfg ==
  ASSUME NEW m, IsMachine(m), NEW x \in Seq(Octet), Len(x) = 5
  PROVE  /\ [m EXCEPT !.cfg = x] = Mach(m.halted, m.mem, m.vram, x, m.ppu, m.regs)
         /\ IsMachine([m EXCEPT !.cfg = x]) /\ [m EXCEPT !.cfg = x].halted = m.halted
<1>1. [m EXCEPT !.cfg = x] = Mach(m.halted, m.mem, m.vram, x, m.ppu, m.regs)
  <2>1. m = Mach(m.halted, m.mem, m.vram, m.cfg, m.ppu, m.regs)
    BY MachOf
  <2> DEFINE h == m.halted
             me == m.mem
             ve == m.vram
             ce == m.cfg
             pe == m.ppu
             re == m.regs
  <2>2. m = Mach(h, me, ve, ce, pe, re)
    BY <2>1
  <2> HIDE DEF h, me, ve, ce, pe, re
  <2>3. [m EXCEPT !.cfg = x] = Mach(h, me, ve, x, pe, re)
    BY <2>2, MachCfg
  <2> QED
    BY <2>3 DEF h, me, ve, ce, pe, re
<1>2. IsMachine(Mach(m.halted, m.mem, m.vram, x, m.ppu, m.regs))
  BY MachOf, MachIs
<1> QED
  BY <1>1, <1>2, MachParts

LEMMA WithPpu ==
  ASSUME NEW m, IsMachine(m)
  PROVE  /\ [m EXCEPT !.ppu = FALSE] = Mach(m.halted, m.mem, m.vram, m.cfg, FALSE, m.regs)
         /\ IsMachine([m EXCEPT !.ppu = FALSE]) /\ [m EXCEPT !.ppu = FALSE].halted = m.halted
<1>1. [m EXCEPT !.ppu = FALSE] = Mach(m.halted, m.mem, m.vram, m.cfg, FALSE, m.regs)
  <2>1. m = Mach(m.halted, m.mem, m.vram, m.cfg, m.ppu, m.regs)
    BY MachOf
  <2> DEFINE h == m.halted
             me == m.mem
             ve == m.vram
             ce == m.cfg
             pe == m.ppu
             re == m.regs
  <2>2. m = Mach(h, me, ve, ce, pe, re)
    BY <2>1
  <2> HIDE DEF h, me, ve, ce, pe, re
  <2>3. [m EXCEPT !.ppu = FALSE] = Mach(h, me, ve, ce, FALSE, re)
    <3> DEFINE x == FALSE
    <3> HIDE DEF x
    <3>1. [m EXCEPT !.ppu = x] = Mach(h, me, ve, ce, x, re)
      BY <2>2, MachPpu
    <3> QED
      BY <3>1 DEF x
  <2> QED
    BY <2>3 DEF h, me, ve, ce, pe, re
<1>2. IsMachine(Mach(m.halted, m.mem, m.vram, m.cfg, FALSE, m.regs))
  BY MachOf, MachIs
<1>3. Mach(m.halted, m.mem, m.vram, m.cfg, FALSE, m.regs).halted = m.halted
  BY DEF Mach
<1> QED
  BY <1>1, <1>2, <1>3, Zenon

LEMMA WithReg ==
  ASSUME NEW m, IsMachine(m), NEW i \in 0 .. 6, NEW b \in Octet
  PROVE  /\ [m EXCEPT !.regs[i] = b]
              = Mach(m.halted, m.mem, m.vram, m.cfg, m.ppu, [m.regs EXCEPT ![i] = b])
         /\ IsMachine([m EXCEPT !.regs[i] = b]) /\ [m EXCEPT !.regs[i] = b].halted = m.halted
<1>1. [m EXCEPT !.regs[i] = b]
        = Mach(m.halted, m.mem, m.vram, m.cfg, m.ppu, [m.regs EXCEPT ![i] = b])
  <2>1. m = Mach(m.halted, m.mem, m.vram, m.cfg, m.ppu, m.regs)
    BY MachOf
  <2> DEFINE h == m.halted
             me == m.mem
             ve == m.vram
             ce == m.cfg
             pe == m.ppu
             re == m.regs
  <2>2. m = Mach(h, me, ve, ce, pe, re)
    BY <2>1
  <2> HIDE DEF h, me, ve, ce, pe, re
  <2>3. [m EXCEPT !.regs[i] = b] = Mach(h, me, ve, ce, pe, [re EXCEPT ![i] = b])
    BY <2>2, SMT DEF Mach
  <2> QED
    BY <2>3 DEF h, me, ve, ce, pe, re
<1>2. [m.regs EXCEPT ![i] = b] \in [0 .. 6 -> Octet]
  BY MachOf
<1>3. IsMachine(Mach(m.halted, m.mem, m.vram, m.cfg, m.ppu, [m.regs EXCEPT ![i] = b]))
  BY <1>2, MachOf, MachIs
<1> QED
  BY <1>1, <1>3, MachParts

LEMMA ResetIs == IsMachine(Reset) /\ Reset.halted
<1>1. IsMemory(<<>>)
  BY DEF IsMemory
<1>2. <<0, 0, 0, 0, 0>> \in Seq(Octet) /\ Len(<<0, 0, 0, 0, 0>>) = 5
  BY DEF Octet, BYTE
<1>3. {CpuReg[k] : k \in DOMAIN CpuReg} = 0 .. 6
  BY DEF CpuReg
<1>4. [r \in {CpuReg[k] : k \in DOMAIN CpuReg} |-> 0] \in [0 .. 6 -> Octet]
  BY <1>3 DEF Octet, BYTE
<1>5. Reset = Mach(TRUE, <<>>, <<>>, <<0, 0, 0, 0, 0>>, TRUE,
                   [r \in {CpuReg[k] : k \in DOMAIN CpuReg} |-> 0])
  BY DEF Reset, Mach
<1> QED
  BY <1>1, <1>2, <1>4, <1>5, MachIs, MachParts

-----------------------------------------------------------------------------
(* What each command does to the machine.                                  *)
LEMMA EffectHalt ==
  ASSUME NEW c, NEW m, c.op = "DbgHlt"
  PROVE  Effect(c, m) = [m EXCEPT !.halted = TRUE]
BY DEF Effect

LEMMA EffectRunning ==
  ASSUME NEW c, NEW m, c.op # "DbgHlt", ~m.halted
  PROVE  Effect(c, m) = m
BY DEF Effect

LEMMA EffectNone ==
  ASSUME NEW m
  PROVE  Effect(NoCmd, m) = m
<1>1. NoCmd.op = "None"
  BY DEF NoCmd, Cmd
<1> QED
  BY <1>1 DEF Effect

LEMMA EffectQuery ==
  ASSUME NEW c, NEW m, c.op \in {"Echo", "CpuMemRd", "PpuMemRd", "CpuRegRd", "QueryHlt"}
  PROVE  Effect(c, m) = m
BY DEF Effect

LEMMA EffectHalted ==
  ASSUME NEW c, NEW m, m.halted
  PROVE  /\ c.op = "DbgRun" => Effect(c, m) = [m EXCEPT !.halted = FALSE]
         /\ c.op = "CpuMemWr" => Effect(c, m) = [m EXCEPT !.mem = Put(m.mem, c.addr, c.data)]
         /\ c.op = "PpuMemWr" => Effect(c, m) = [m EXCEPT !.vram = Put(m.vram, c.addr, c.data)]
         /\ c.op = "CpuRegWr" => Effect(c, m) = [m EXCEPT !.regs[c.addr] = c.data[1]]
         /\ c.op = "CartSetCfg" => Effect(c, m) = [m EXCEPT !.cfg = c.data]
         /\ c.op = "PpuDisable" => Effect(c, m) = [m EXCEPT !.ppu = FALSE]
BY DEF Effect

LEMMA CommandParts ==
  ASSUME NEW c, IsCommand(c)
  PROVE  /\ c.addr \in Word /\ c.n \in Word /\ c.data \in Seq(Octet) /\ Len(c.data) \in Word
         /\ Len(c.data) <= WORD /\ Len(c.data) \in Nat
         /\ c.op \in {"CpuRegRd", "CpuRegWr"} => c.addr \in 0 .. 6
         /\ c.op = "CpuRegWr" => Len(c.data) = 1 /\ c.data[1] \in Octet
         /\ c.op = "CartSetCfg" => Len(c.data) = 5
         /\ c.op \in {"Echo", "CpuMemRd", "CpuMemWr", "DbgHlt", "DbgRun", "CpuRegRd", "CpuRegWr",
                      "QueryHlt", "PpuMemRd", "PpuMemWr", "PpuDisable", "CartSetCfg"}
         /\ c # NoCmd
<1>1. c.addr \in Word /\ c.n \in Word /\ c.data \in Seq(Octet) /\ Len(c.data) \in Word
  BY DEF IsCommand
<1>2. Len(c.data) <= WORD /\ Len(c.data) \in Nat
  <2>1. Len(c.data) \in Int /\ 0 <= Len(c.data) /\ Len(c.data) < 65536
    BY <1>1, WordIs, SMT
  <2> QED
    BY <2>1, WordSize, SMT
<1>3. c.op \in {"CpuRegRd", "CpuRegWr"} => c.addr \in 0 .. 6
  BY DEF IsCommand
<1>4. c.op = "CpuRegWr" => Len(c.data) = 1 /\ c.data[1] \in Octet
  BY DEF IsCommand
<1>5. c.op = "CartSetCfg" => Len(c.data) = 5
  BY DEF IsCommand
<1>6. c.op \in {"Echo", "CpuMemRd", "CpuMemWr", "DbgHlt", "DbgRun", "CpuRegRd", "CpuRegWr",
                "QueryHlt", "PpuMemRd", "PpuMemWr", "PpuDisable", "CartSetCfg"}
  BY OpCodes DEF IsCommand
<1>7. NoCmd.op = "None"
  BY DEF NoCmd, Cmd
<1>8. c # NoCmd
  BY <1>6, <1>7
<1> QED
  BY <1>1, <1>2, <1>3, <1>4, <1>5, <1>6, <1>8

LEMMA EffectIs ==
  ASSUME NEW m, IsMachine(m), NEW c, IsCommand(c)
  PROVE  IsMachine(Effect(c, m)) /\ Effect(c, m).halted = Settles(c, m.halted)
<1>h. m.halted \in BOOLEAN
  BY MachOf
<1>1. CASE c.op = "DbgHlt"
  <2>1. Effect(c, m) = [m EXCEPT !.halted = TRUE] /\ Settles(c, m.halted) = TRUE
    BY <1>1, EffectHalt DEF Settles
  <2> DEFINE b == TRUE
  <2>2. b \in BOOLEAN /\ Effect(c, m) = [m EXCEPT !.halted = b] /\ Settles(c, m.halted) = b
    BY <2>1
  <2> HIDE DEF b
  <2>3. IsMachine([m EXCEPT !.halted = b]) /\ [m EXCEPT !.halted = b].halted = b
    BY <2>2, WithHalted
  <2> QED
    BY <2>2, <2>3
<1>2. CASE c.op # "DbgHlt" /\ ~m.halted
  <2>1. Effect(c, m) = m
    BY <1>2, EffectRunning
  <2>2. Settles(c, m.halted) = m.halted
    BY <1>2, <1>h DEF Settles
  <2> QED
    BY <2>1, <2>2
<1>3. CASE m.halted /\ c.op = "DbgRun"
  <2>1. Effect(c, m) = [m EXCEPT !.halted = FALSE]
    BY <1>3, EffectHalted
  <2>2. Settles(c, m.halted) = FALSE
    BY <1>3 DEF Settles
  <2> DEFINE b == FALSE
  <2>3. b \in BOOLEAN /\ Effect(c, m) = [m EXCEPT !.halted = b] /\ Settles(c, m.halted) = b
    BY <2>1, <2>2
  <2> HIDE DEF b
  <2>4. IsMachine([m EXCEPT !.halted = b]) /\ [m EXCEPT !.halted = b].halted = b
    BY <2>3, WithHalted
  <2> QED
    BY <2>3, <2>4
<1>s. c.op \notin {"DbgHlt", "DbgRun"} => Settles(c, m.halted) = m.halted
  BY DEF Settles
<1>4. CASE m.halted /\ c.op = "CpuMemWr"
  <2>1. IsMemory(Put(m.mem, c.addr, c.data))
    BY MachOf, CommandParts, PutMemory
  <2>2. Effect(c, m) = [m EXCEPT !.mem = Put(m.mem, c.addr, c.data)]
    BY <1>4, EffectHalted
  <2>3. Settles(c, m.halted) = m.halted
    BY <1>s, <1>4
  <2> QED
    BY <2>1, <2>2, <2>3, WithMem
<1>5. CASE m.halted /\ c.op = "PpuMemWr"
  <2>1. IsMemory(Put(m.vram, c.addr, c.data))
    BY MachOf, CommandParts, PutMemory
  <2>2. Effect(c, m) = [m EXCEPT !.vram = Put(m.vram, c.addr, c.data)]
    BY <1>5, EffectHalted
  <2>3. Settles(c, m.halted) = m.halted
    BY <1>s, <1>5
  <2> QED
    BY <2>1, <2>2, <2>3, WithVram
<1>6. CASE m.halted /\ c.op = "CpuRegWr"
  <2>1. c.addr \in 0 .. 6 /\ c.data[1] \in Octet
    BY <1>6, CommandParts
  <2>2. Effect(c, m) = [m EXCEPT !.regs[c.addr] = c.data[1]]
    BY <1>6, EffectHalted
  <2>3. Settles(c, m.halted) = m.halted
    BY <1>s, <1>6
  <2> QED
    <3> DEFINE i == c.addr
               b == c.data[1]
    <3>1. i \in 0 .. 6 /\ b \in Octet /\ Effect(c, m) = [m EXCEPT !.regs[i] = b]
      BY <2>1, <2>2
    <3> HIDE DEF i, b
    <3>2. IsMachine([m EXCEPT !.regs[i] = b]) /\ [m EXCEPT !.regs[i] = b].halted = m.halted
      BY <3>1, WithReg
    <3> QED
      BY <3>1, <3>2, <2>3
<1>7. CASE m.halted /\ c.op = "CartSetCfg"
  <2>1. c.data \in Seq(Octet) /\ Len(c.data) = 5
    BY <1>7, CommandParts
  <2>2. Effect(c, m) = [m EXCEPT !.cfg = c.data]
    BY <1>7, EffectHalted
  <2>3. Settles(c, m.halted) = m.halted
    BY <1>s, <1>7
  <2> QED
    BY <2>1, <2>2, <2>3, WithCfg
<1>8. CASE m.halted /\ c.op = "PpuDisable"
  <2>2. Effect(c, m) = [m EXCEPT !.ppu = FALSE]
    BY <1>8, EffectHalted
  <2>3. Settles(c, m.halted) = m.halted
    BY <1>s, <1>8
  <2> QED
    BY <2>2, <2>3, WithPpu
<1>9. CASE m.halted /\ c.op \in {"Echo", "CpuMemRd", "PpuMemRd", "CpuRegRd", "QueryHlt"}
  <2>2. Effect(c, m) = m
    BY <1>9, EffectQuery
  <2>3. Settles(c, m.halted) = m.halted
    BY <1>s, <1>9
  <2> QED
    BY <2>2, <2>3
<1> QED
  BY <1>1, <1>2, <1>3, <1>4, <1>5, <1>6, <1>7, <1>8, <1>9, CommandParts

-----------------------------------------------------------------------------
(* A packet that is at work changes the machine bit by bit; what its       *)
(* command would do to it is the same all the time.                        *)
LEMMA WriteStep ==
  ASSUME NEW m, IsMachine(m), m.halted, NEW c, IsCommand(c), c.op = "CpuMemWr",
         NEW k \in 1 .. Len(c.data)
  PROVE  LET x == Put(m.mem, Cell(c.addr, k), <<c.data[k]>>) IN
         /\ IsMemory(x) /\ IsMachine([m EXCEPT !.mem = x]) /\ [m EXCEPT !.mem = x].halted
         /\ [m EXCEPT !.mem = x].mem = x
         /\ Effect(c, [m EXCEPT !.mem = x]) = Effect(c, m)
<1> DEFINE x == Put(m.mem, Cell(c.addr, k), <<c.data[k]>>)
           n == [m EXCEPT !.mem = x]
<1>1. c.addr \in Word /\ c.data \in Seq(Octet) /\ Len(c.data) <= WORD
  BY CommandParts
<1>2. k \in 1 .. WORD /\ c.data[k] \in Octet
  BY <1>1, UpTo
<1>3. Cell(c.addr, k) \in Word
  BY <1>1, <1>2, CellIs
<1>4. IsMemory(m.mem)
  BY MachOf
<1>5. IsMemory(x)
  BY <1>2, <1>3, <1>4, PutByte
<1>6. Put(x, c.addr, c.data) = Put(m.mem, c.addr, c.data)
  BY <1>1, <1>4, PutAfterByte
<1> HIDE DEF x
<1>7. n = Mach(m.halted, x, m.vram, m.cfg, m.ppu, m.regs) /\ IsMachine(n)
  BY <1>5, WithMem
<1> HIDE DEF n
<1>8. n.halted = m.halted /\ n.mem = x /\ n.vram = m.vram /\ n.cfg = m.cfg /\ n.ppu = m.ppu /\ n.regs = m.regs
  <2>1. n = Mach(m.halted, x, m.vram, m.cfg, m.ppu, m.regs)
    BY <1>7
  <2> QED
    BY <2>1, SMT DEF Mach
<1> DEFINE w == Put(m.mem, c.addr, c.data)
<1>9. IsMemory(w)
  BY <1>1, <1>4, PutMemory
<1>10. Effect(c, n) = [n EXCEPT !.mem = w] /\ Effect(c, m) = [m EXCEPT !.mem = w]
  <2>1. n.halted
    BY <1>8
  <2> QED
    BY <2>1, <1>6, <1>8, EffectHalted
<1> HIDE DEF w
<1>11. [n EXCEPT !.mem = w] = [m EXCEPT !.mem = w]
  <2>1. [n EXCEPT !.mem = w] = Mach(n.halted, w, n.vram, n.cfg, n.ppu, n.regs)
    BY <1>7, <1>9, WithMem
  <2>2. [m EXCEPT !.mem = w] = Mach(m.halted, w, m.vram, m.cfg, m.ppu, m.regs)
    BY <1>9, WithMem
  <2> QED
    BY <2>1, <2>2, <1>8, Zenon
<1> QED
  BY <1>5, <1>7, <1>8, <1>10, <1>11 DEF n, x

LEMMA PpuWriteStep ==
  ASSUME NEW m, IsMachine(m), m.halted, NEW c, IsCommand(c), c.op = "PpuMemWr",
         NEW k \in 1 .. Len(c.data)
  PROVE  LET x == Put(m.vram, Cell(c.addr, k), <<c.data[k]>>) IN
         /\ IsMemory(x) /\ IsMachine([m EXCEPT !.vram = x]) /\ [m EXCEPT !.vram = x].halted
         /\ [m EXCEPT !.vram = x].vram = x
         /\ Effect(c, [m EXCEPT !.vram = x]) = Effect(c, m)
<1> DEFINE x == Put(m.vram, Cell(c.addr, k), <<c.data[k]>>)
           n == [m EXCEPT !.vram = x]
<1>1. c.addr \in Word /\ c.data \in Seq(Octet) /\ Len(c.data) <= WORD
  BY CommandParts
<1>2. k \in 1 .. WORD /\ c.data[k] \in Octet
  BY <1>1, UpTo
<1>3. Cell(c.addr, k) \in Word
  BY <1>1, <1>2, CellIs
<1>4. IsMemory(m.vram)
  BY MachOf
<1>5. IsMemory(x)
  BY <1>2, <1>3, <1>4, PutByte
<1>6. Put(x, c.addr, c.data) = Put(m.vram, c.addr, c.data)
  BY <1>1, <1>4, PutAfterByte
<1> HIDE DEF x
<1>7. n = Mach(m.halted, m.mem, x, m.cfg, m.ppu, m.regs) /\ IsMachine(n)
  BY <1>5, WithVram
<1> HIDE DEF n
<1>8. n.halted = m.halted /\ n.mem = m.mem /\ n.vram = x /\ n.cfg = m.cfg /\ n.ppu = m.ppu /\ n.regs = m.regs
  <2>1. n = Mach(m.halted, m.mem, x, m.cfg, m.ppu, m.regs)
    BY <1>7
  <2> QED
    BY <2>1, SMT DEF Mach
<1> DEFINE w == Put(m.vram, c.addr, c.data)
<1>9. IsMemory(w)
  BY <1>1, <1>4, PutMemory
<1>10. Effect(c, n) = [n EXCEPT !.vram = w] /\ Effect(c, m) = [m EXCEPT !.vram = w]
  <2>1. n.halted
    BY <1>8
  <2> QED
    BY <2>1, <1>6, <1>8, EffectHalted
<1> HIDE DEF w
<1>11. [n EXCEPT !.vram = w] = [m EXCEPT !.vram = w]
  <2>1. [n EXCEPT !.vram = w] = Mach(n.halted, n.mem, w, n.cfg, n.ppu, n.regs)
    BY <1>7, <1>9, WithVram
  <2>2. [m EXCEPT !.vram = w] = Mach(m.halted, m.mem, w, m.cfg, m.ppu, m.regs)
    BY <1>9, WithVram
  <2> QED
    BY <2>1, <2>2, <1>8, Zenon
<1> QED
  BY <1>5, <1>7, <1>8, <1>10, <1>11 DEF n, x

LEMMA WriteDone ==
  ASSUME NEW m, IsMachine(m), m.halted, NEW c, IsCommand(c)
  PROVE  /\ c.op = "CpuMemWr" /\ (\A i \in 1 .. Len(c.data) : Cell(c.addr, i) \in DOMAIN m.mem
                                      /\ m.mem[Cell(c.addr, i)] = c.data[i])
              => Effect(c, m) = m
         /\ c.op = "PpuMemWr" /\ (\A i \in 1 .. Len(c.data) : Cell(c.addr, i) \in DOMAIN m.vram
                                      /\ m.vram[Cell(c.addr, i)] = c.data[i])
              => Effect(c, m) = m
<1>1. c.addr \in Word /\ c.data \in Seq(Octet) /\ Len(c.data) <= WORD
  BY CommandParts
<1>2. IsMemory(m.mem) /\ IsMemory(m.vram)
  BY MachOf
<1>3. ASSUME c.op = "CpuMemWr", \A i \in 1 .. Len(c.data) : Cell(c.addr, i) \in DOMAIN m.mem
                                      /\ m.mem[Cell(c.addr, i)] = c.data[i]
      PROVE  Effect(c, m) = m
  <2>1. Put(m.mem, c.addr, c.data) = m.mem
    BY <1>1, <1>2, <1>3, PutMade
  <2>2. [m EXCEPT !.mem = m.mem] = m
    BY <1>2, WithMem, MachOf
  <2> QED
    BY <1>3, <2>1, <2>2, EffectHalted
<1>4. ASSUME c.op = "PpuMemWr", \A i \in 1 .. Len(c.data) : Cell(c.addr, i) \in DOMAIN m.vram
                                      /\ m.vram[Cell(c.addr, i)] = c.data[i]
      PROVE  Effect(c, m) = m
  <2>1. Put(m.vram, c.addr, c.data) = m.vram
    BY <1>1, <1>2, <1>4, PutMade
  <2>2. [m EXCEPT !.vram = m.vram] = m
    BY <1>2, WithVram, MachOf
  <2> QED
    BY <1>4, <2>1, <2>2, EffectHalted
<1> QED
  BY <1>3, <1>4

LEMMA CfgStep ==
  ASSUME NEW m, IsMachine(m), m.halted, NEW c, IsCommand(c), c.op = "CartSetCfg",
         NEW x \in Seq(Octet), Len(x) = 5
  PROVE  /\ Effect(c, [m EXCEPT !.cfg = x]) = Effect(c, m)
         /\ x = c.data => Effect(c, [m EXCEPT !.cfg = x]) = [m EXCEPT !.cfg = x]
<1> DEFINE n == [m EXCEPT !.cfg = x]
           d == c.data
<1>1. d \in Seq(Octet) /\ Len(d) = 5
  BY CommandParts
<1>2. n = Mach(m.halted, m.mem, m.vram, x, m.ppu, m.regs) /\ IsMachine(n)
  BY WithCfg
<1> HIDE DEF n
<1>3. n.halted = m.halted /\ n.mem = m.mem /\ n.vram = m.vram /\ n.cfg = x /\ n.ppu = m.ppu /\ n.regs = m.regs
  <2>1. n = Mach(m.halted, m.mem, m.vram, x, m.ppu, m.regs)
    BY <1>2
  <2> QED
    BY <2>1, SMT DEF Mach
<1>4. Effect(c, n) = [n EXCEPT !.cfg = d] /\ Effect(c, m) = [m EXCEPT !.cfg = d]
  <2>1. n.halted
    BY <1>3
  <2> QED
    BY <2>1, EffectHalted
<1> HIDE DEF d
<1>a. [n EXCEPT !.cfg = d] = Mach(n.halted, n.mem, n.vram, d, n.ppu, n.regs)
  BY <1>1, <1>2, WithCfg
<1>5. [n EXCEPT !.cfg = d] = [m EXCEPT !.cfg = d]
  <2>2. [m EXCEPT !.cfg = d] = Mach(m.halted, m.mem, m.vram, d, m.ppu, m.regs)
    BY <1>1, WithCfg
  <2> QED
    BY <1>a, <2>2, <1>3, Zenon
<1>6. x = d => [n EXCEPT !.cfg = d] = n
  BY <1>a, <1>2, <1>3, Zenon
<1> QED
  BY <1>4, <1>5, <1>6 DEF n, d

LEMMA RegDone ==
  ASSUME NEW m, IsMachine(m), m.halted, NEW c, IsCommand(c), c.op = "CpuRegWr"
  PROVE  Effect(c, m) = [m EXCEPT !.regs[c.addr] = c.data[1]]
BY EffectHalted

LEMMA PpuDone ==
  ASSUME NEW m, IsMachine(m), m.halted, NEW c, IsCommand(c), c.op = "PpuDisable"
  PROVE  Effect(c, m) = [m EXCEPT !.ppu = FALSE]
BY EffectHalted

(* The interface's registers.                                              *)
Regs(st, op, args, n, addr, err) ==
  [st |-> st, op |-> op, args |-> args, n |-> n, addr |-> addr, err |-> err]

LEMMA RegsOf ==
  ASSUME NEW h, IsHci(h)
  PROVE  /\ h = Regs(h.st, h.op, h.args, h.n, h.addr, h.err)
         /\ h.st \in {"off", "decode", "args", "echo", "read", "write", "err", "ppu"}
         /\ h.op \in Octet /\ h.args \in Seq(Octet) /\ h.n \in Word /\ h.addr \in Word
         /\ h.err \in BOOLEAN /\ Len(h.args) \in Nat
         /\ h.st # "args" => h.args = <<>>
         /\ h.st = "args" => Len(h.args) < Args(h.op)
         /\ h.st \in {"echo", "read", "write"} => h.n # 0
<1>1. h.args \in Seq(Octet)
  BY DEF IsHci
<1>2. Len(h.args) \in Nat
  BY <1>1
<1> QED
  BY <1>2, Zenon DEF IsHci, Regs

LEMMA RegsWithSt ==
  ASSUME NEW h, NEW s, NEW o, NEW g, NEW n, NEW a, NEW e, h = Regs(s, o, g, n, a, e), NEW x
  PROVE  [h EXCEPT !.st = x] = Regs(x, o, g, n, a, e)
BY DEF Regs

LEMMA RegsWithOp ==
  ASSUME NEW h, NEW s, NEW o, NEW g, NEW n, NEW a, NEW e, h = Regs(s, o, g, n, a, e), NEW x
  PROVE  [h EXCEPT !.op = x] = Regs(s, x, g, n, a, e)
BY DEF Regs

LEMMA RegsWithArgs ==
  ASSUME NEW h, NEW s, NEW o, NEW g, NEW n, NEW a, NEW e, h = Regs(s, o, g, n, a, e), NEW x
  PROVE  [h EXCEPT !.args = x] = Regs(s, o, x, n, a, e)
BY DEF Regs

LEMMA RegsWithN ==
  ASSUME NEW h, NEW s, NEW o, NEW g, NEW n, NEW a, NEW e, h = Regs(s, o, g, n, a, e), NEW x
  PROVE  [h EXCEPT !.n = x] = Regs(s, o, g, x, a, e)
BY DEF Regs

LEMMA RegsWithAddr ==
  ASSUME NEW h, NEW s, NEW o, NEW g, NEW n, NEW a, NEW e, h = Regs(s, o, g, n, a, e), NEW x
  PROVE  [h EXCEPT !.addr = x] = Regs(s, o, g, n, x, e)
BY DEF Regs

LEMMA RegsWithErr ==
  ASSUME NEW h, NEW s, NEW o, NEW g, NEW n, NEW a, NEW e, h = Regs(s, o, g, n, a, e), NEW x
  PROVE  [h EXCEPT !.err = x] = Regs(s, o, g, n, a, x)
BY DEF Regs

SetCount(h, x, y) == [h EXCEPT !.n = x, !.addr = y]
SetWork(h, w, x, y, z) == [h EXCEPT !.st = w, !.args = x, !.n = y, !.addr = z]
SetAll(h, v, w, x, y, z) == [h EXCEPT !.st = v, !.args = w, !.n = x, !.addr = y, !.op = z]

LEMMA RegsWithCount ==
  ASSUME NEW h, NEW s, NEW o, NEW g, NEW n, NEW a, NEW e, h = Regs(s, o, g, n, a, e),
         NEW x, NEW y
  PROVE  SetCount(h, x, y) = Regs(s, o, g, x, y, e)
<1>0. SetCount(h, x, y) = [[h EXCEPT !.n = x] EXCEPT !.addr = y]
  BY DEF SetCount
<1>1. PICK h1 : h1 = [h EXCEPT !.n = x] /\ h1 = Regs(s, o, g, x, a, e)
  BY RegsWithN
<1>1a. h1 = Regs(s, o, g, x, a, e)
  BY <1>1
<1>2. PICK h2 : h2 = [h1 EXCEPT !.addr = y] /\ h2 = Regs(s, o, g, x, y, e)
  BY <1>1a, RegsWithAddr
<1>2a. h2 = Regs(s, o, g, x, y, e)
  BY <1>2
<1> QED
  BY <1>0, <1>1, <1>2

LEMMA RegsWithWork ==
  ASSUME NEW h, NEW s, NEW o, NEW g, NEW n, NEW a, NEW e, h = Regs(s, o, g, n, a, e),
         NEW w, NEW x, NEW y, NEW z
  PROVE  SetWork(h, w, x, y, z) = Regs(w, o, x, y, z, e)
<1>0. SetWork(h, w, x, y, z) = [[[[h EXCEPT !.st = w] EXCEPT !.args = x] EXCEPT !.n = y] EXCEPT !.addr = z]
  BY DEF SetWork
<1>1. PICK h1 : h1 = [h EXCEPT !.st = w] /\ h1 = Regs(w, o, g, n, a, e)
  BY RegsWithSt
<1>1a. h1 = Regs(w, o, g, n, a, e)
  BY <1>1
<1>2. PICK h2 : h2 = [h1 EXCEPT !.args = x] /\ h2 = Regs(w, o, x, n, a, e)
  BY <1>1a, RegsWithArgs
<1>2a. h2 = Regs(w, o, x, n, a, e)
  BY <1>2
<1>3. PICK h3 : h3 = [h2 EXCEPT !.n = y] /\ h3 = Regs(w, o, x, y, a, e)
  BY <1>2a, RegsWithN
<1>3a. h3 = Regs(w, o, x, y, a, e)
  BY <1>3
<1>4. PICK h4 : h4 = [h3 EXCEPT !.addr = z] /\ h4 = Regs(w, o, x, y, z, e)
  BY <1>3a, RegsWithAddr
<1>4a. h4 = Regs(w, o, x, y, z, e)
  BY <1>4
<1> QED
  BY <1>0, <1>1, <1>2, <1>3, <1>4

LEMMA RegsWithAll ==
  ASSUME NEW h, NEW s, NEW o, NEW g, NEW n, NEW a, NEW e, h = Regs(s, o, g, n, a, e),
         NEW v, NEW w, NEW x, NEW y, NEW z
  PROVE  SetAll(h, v, w, x, y, z) = Regs(v, z, w, x, y, e)
<1>0. SetAll(h, v, w, x, y, z) = [[[[[h EXCEPT !.st = v] EXCEPT !.args = w] EXCEPT !.n = x] EXCEPT !.addr = y] EXCEPT !.op = z]
  BY DEF SetAll
<1>1. PICK h1 : h1 = [h EXCEPT !.st = v] /\ h1 = Regs(v, o, g, n, a, e)
  BY RegsWithSt
<1>1a. h1 = Regs(v, o, g, n, a, e)
  BY <1>1
<1>2. PICK h2 : h2 = [h1 EXCEPT !.args = w] /\ h2 = Regs(v, o, w, n, a, e)
  BY <1>1a, RegsWithArgs
<1>2a. h2 = Regs(v, o, w, n, a, e)
  BY <1>2
<1>3. PICK h3 : h3 = [h2 EXCEPT !.n = x] /\ h3 = Regs(v, o, w, x, a, e)
  BY <1>2a, RegsWithN
<1>3a. h3 = Regs(v, o, w, x, a, e)
  BY <1>3
<1>4. PICK h4 : h4 = [h3 EXCEPT !.addr = y] /\ h4 = Regs(v, o, w, x, y, e)
  BY <1>3a, RegsWithAddr
<1>4a. h4 = Regs(v, o, w, x, y, e)
  BY <1>4
<1>5. PICK h5 : h5 = [h4 EXCEPT !.op = z] /\ h5 = Regs(v, z, w, x, y, e)
  BY <1>4a, RegsWithOp
<1>5a. h5 = Regs(v, z, w, x, y, e)
  BY <1>5
<1> QED
  <2>1. [[[[h EXCEPT !.st = v] EXCEPT !.args = w] EXCEPT !.n = x] EXCEPT !.addr = y] = h4
    BY <1>1, <1>2, <1>3, <1>4
  <2>2. SetAll(h, v, w, x, y, z) = [h4 EXCEPT !.op = z]
    BY <1>0, <2>1
  <2> QED
    BY <2>2, <1>5

LEMMA RegsFields ==
  ASSUME NEW h, NEW st, NEW op, NEW args, NEW n, NEW addr, NEW err,
         h = Regs(st, op, args, n, addr, err)
  PROVE  h.st = st /\ h.op = op /\ h.args = args /\ h.n = n /\ h.addr = addr /\ h.err = err
BY DEF Regs

LEMMA RegsAre ==
  ASSUME NEW st \in {"off", "decode", "args", "echo", "read", "write", "err", "ppu"},
         NEW op \in Octet, NEW args \in Seq(Octet), NEW n \in Word, NEW addr \in Word,
         NEW err \in BOOLEAN, st # "args" => args = <<>>, st = "args" => Len(args) < Args(op),
         st \in {"echo", "read", "write"} => n # 0
  PROVE  IsHci(Regs(st, op, args, n, addr, err))
BY DEF IsHci, Regs

LEMMA Zeros == 0 \in Octet /\ 0 \in Word /\ <<>> \in Seq(Octet)
<1>1. 0 \in Octet
  BY DEF Octet, BYTE
<1>2. 0 \in Word
  BY WordIs, SMT
<1> QED
  BY <1>1, <1>2

LEMMA DecodingIs ==
  ASSUME IsHci(hci)
  PROVE  /\ Decoding = Regs("decode", 0, <<>>, 0, 0, hci.err) /\ IsHci(Decoding)
         /\ Decoding.st = "decode"
<1>1. Decoding = Regs("decode", 0, <<>>, 0, 0, hci.err)
  <2>1. PICK s, o, g, n, a, e : hci = Regs(s, o, g, n, a, e) /\ e = hci.err
    BY RegsOf
  <2>1a. hci = Regs(s, o, g, n, a, e)
    BY <2>1
  <2>2. SetAll(hci, "decode", <<>>, 0, 0, 0) = Regs("decode", 0, <<>>, 0, 0, e)
    BY <2>1a, RegsWithAll
  <2>3. Decoding = SetAll(hci, "decode", <<>>, 0, 0, 0)
    BY DEF Decoding, SetAll
  <2> QED
    BY <2>1, <2>2, <2>3
<1> QED
  <2>1. IsHci(Regs("decode", 0, <<>>, 0, 0, hci.err))
    BY Zeros, RegsOf, RegsAre
  <2>2. Decoding.st = "decode"
    BY <1>1, RegsFields
  <2> QED
    BY <1>1, <2>1, <2>2

LEMMA CountIs ==
  ASSUME IsHci(hci), hci.st \in {"echo", "read", "write"}
  PROVE  /\ hci.n = 1 => Count = Decoding
         /\ hci.n # 1 => /\ Count = Regs(hci.st, hci.op, <<>>, hci.n - 1, (hci.addr + 1) % WORD, hci.err)
                         /\ hci.n - 1 \in Word /\ hci.n - 1 # 0
         /\ IsHci(Count) /\ Count.st # "off"
<1>1. hci.n = 1 => Count = Decoding
  BY DEF Count
<1>2. ASSUME hci.n # 1
      PROVE  /\ Count = Regs(hci.st, hci.op, <<>>, hci.n - 1, (hci.addr + 1) % WORD, hci.err)
             /\ hci.n - 1 \in Word /\ hci.n - 1 # 0 /\ (hci.addr + 1) % WORD \in Word
  <2> DEFINE n == hci.n
             a == hci.addr
  <2>1. n \in Int /\ 0 <= n /\ n < 65536 /\ n # 0 /\ n # 1 /\ a \in Int /\ 0 <= a /\ a < 65536
    <3>1. n \in Word /\ a \in Word /\ n # 0 /\ n # 1
      BY <1>2, RegsOf
    <3> HIDE DEF n, a
    <3> QED
      BY <3>1, WordIs, SMT
  <2>2. Count = [hci EXCEPT !.n = n - 1, !.addr = (a + 1) % WORD]
    BY <1>2 DEF Count
  <2>3. [hci EXCEPT !.n = n - 1, !.addr = (a + 1) % WORD]
          = Regs(hci.st, hci.op, <<>>, n - 1, (a + 1) % WORD, hci.err)
    <3> DEFINE x == n - 1
               y == (a + 1) % WORD
    <3>1. PICK s, o, g, m, b, e : /\ hci = Regs(s, o, g, m, b, e)
                                 /\ s = hci.st /\ o = hci.op /\ g = <<>> /\ e = hci.err
      BY RegsOf
    <3>1a. hci = Regs(s, o, g, m, b, e)
      BY <3>1
    <3> HIDE DEF x, y
    <3>2. SetCount(hci, x, y) = Regs(s, o, g, x, y, e)
      BY <3>1a, RegsWithCount
    <3>3. [hci EXCEPT !.n = x, !.addr = y] = Regs(hci.st, hci.op, <<>>, x, y, hci.err)
      BY <3>1, <3>2 DEF SetCount
    <3> QED
      BY <3>3 DEF x, y
  <2> HIDE DEF n, a
  <2>4. n - 1 \in Word /\ n - 1 # 0
    <3> DEFINE x == n - 1
    <3>1. x \in Int /\ 0 <= x /\ x < 65536 /\ x # 0
      BY <2>1, SMT
    <3> HIDE DEF x
    <3>2. x \in Word /\ x # 0
      BY <3>1, WordIs, SMT
    <3> QED
      BY <3>2 DEF x
  <2>5. (a + 1) % WORD \in Word
    <3> DEFINE x == (a + 1) % WORD
    <3>1. x = (a + 1) % 65536
      BY WordSize, SMT
    <3>2. x \in Int /\ 0 <= x /\ x < 65536
      BY <2>1, <3>1, SMT
    <3> HIDE DEF x
    <3>3. x \in Word
      BY <3>2, WordIs, SMT
    <3> QED
      BY <3>3 DEF x
  <2> QED
    BY <2>2, <2>3, <2>4, <2>5 DEF n, a
<1>3. CASE hci.n = 1
  BY <1>1, <1>3, DecodingIs
<1>4. CASE hci.n # 1
  <2> DEFINE x == hci.n - 1
             y == (hci.addr + 1) % WORD
  <2>1. Count = Regs(hci.st, hci.op, <<>>, x, y, hci.err) /\ x \in Word /\ x # 0 /\ y \in Word
    BY <1>2, <1>4
  <2> HIDE DEF x, y
  <2>2. IsHci(Count)
    BY <2>1, RegsOf, RegsAre, Zeros
  <2>3. Count.st = hci.st
    BY <2>1, RegsFields, Zenon
  <2> QED
    BY <1>4, <1>2, <2>2, <2>3
<1> QED
  BY <1>3, <1>4, <1>2

LEMMA PushIs ==
  ASSUME NEW f \in Seq(Octet), Len(f) <= FIFO, NEW b \in Octet
  PROVE  /\ Push(f, b) \in Seq(Octet) /\ Len(Push(f, b)) <= FIFO
         /\ Len(f) < FIFO => Push(f, b) = Append(f, b)
<1> USE FifoAssumption
<1>1. CASE Len(f) < FIFO
  BY <1>1, AppendProperties DEF Push
<1>2. CASE ~(Len(f) < FIFO)
  BY <1>2 DEF Push
<1> QED
  BY <1>1, <1>2

LEMMA PushFirst ==
  ASSUME NEW b
  PROVE  Push(<<>>, b) = <<b>>
BY FifoAssumption DEF Push

SetSt(h, x) == [h EXCEPT !.st = x]
SetStOp(h, x, y) == [h EXCEPT !.st = x, !.op = y]
SetArgs(h, x) == [h EXCEPT !.args = x]
SetErr(h, x) == [h EXCEPT !.err = x]

LEMMA SetStIs ==
  ASSUME NEW h, IsHci(h), h.args = <<>>, NEW s \in {"off", "decode", "err", "ppu"}
  PROVE  /\ SetSt(h, s) = Regs(s, h.op, <<>>, h.n, h.addr, h.err)
         /\ IsHci(SetSt(h, s)) /\ SetSt(h, s).st = s
<1>1. PICK t, o, g, n, a, e : /\ h = Regs(t, o, g, n, a, e)
                             /\ o = h.op /\ g = <<>> /\ n = h.n /\ a = h.addr /\ e = h.err
  BY RegsOf
<1>2. h = Regs(t, o, g, n, a, e)
  BY <1>1, Zenon
<1>3. SetSt(h, s) = Regs(s, o, g, n, a, e)
  BY <1>2, RegsWithSt DEF SetSt
<1>4. o \in Octet /\ g \in Seq(Octet) /\ n \in Word /\ a \in Word /\ e \in BOOLEAN
  BY <1>1, RegsOf, Zeros, Zenon
<1>5. IsHci(Regs(s, o, g, n, a, e))
  BY <1>1, <1>4, RegsAre, Zenon
<1>6. SetSt(h, s).st = s
  BY <1>3, RegsFields
<1> QED
  BY <1>1, <1>3, <1>5, <1>6, Zenon

LEMMA SetStOpIs ==
  ASSUME NEW h, IsHci(h), h.args = <<>>, NEW y \in Octet, Args(y) > 0
  PROVE  /\ SetStOp(h, "args", y) = Regs("args", y, <<>>, h.n, h.addr, h.err)
         /\ IsHci(SetStOp(h, "args", y))
<1>1. PICK t, o, g, n, a, e : /\ h = Regs(t, o, g, n, a, e)
                             /\ o = h.op /\ g = <<>> /\ n = h.n /\ a = h.addr /\ e = h.err
  BY RegsOf
<1>2. h = Regs(t, o, g, n, a, e)
  BY <1>1, Zenon
<1> DEFINE s == "args"
<1> HIDE DEF s
<1>3. SetStOp(h, s, y) = Regs(s, y, g, n, a, e)
  <2>1. [h EXCEPT !.st = s, !.op = y] = [[h EXCEPT !.st = s] EXCEPT !.op = y]
    OBVIOUS
  <2>2. PICK k : k = [h EXCEPT !.st = s] /\ k = Regs(s, o, g, n, a, e)
    BY <1>2, RegsWithSt
  <2>2a. k = Regs(s, o, g, n, a, e)
    BY <2>2
  <2>3. PICK j : j = [k EXCEPT !.op = y] /\ j = Regs(s, y, g, n, a, e)
    BY <2>2a, RegsWithOp
  <2> QED
    BY <2>1, <2>2, <2>3 DEF SetStOp
<1>4. o \in Octet /\ g \in Seq(Octet) /\ n \in Word /\ a \in Word /\ e \in BOOLEAN
  BY <1>1, RegsOf, Zeros, Zenon
<1>5. IsHci(Regs("args", y, g, n, a, e))
  <2>1. Len(g) < Args(y)
    BY <1>1, Zenon
  <2> QED
    BY <1>4, <2>1, RegsAre
<1> QED
  BY <1>1, <1>3, <1>5, Zenon DEF s

LEMMA SetArgsIs ==
  ASSUME NEW h, IsHci(h), h.st = "args", NEW x \in Seq(Octet), Len(x) < Args(h.op)
  PROVE  /\ SetArgs(h, x) = Regs("args", h.op, x, h.n, h.addr, h.err)
         /\ IsHci(SetArgs(h, x))
<1>1. PICK t, o, g, n, a, e : /\ h = Regs(t, o, g, n, a, e)
                             /\ t = "args" /\ o = h.op /\ n = h.n /\ a = h.addr /\ e = h.err
  BY RegsOf
<1>2. h = Regs(t, o, g, n, a, e)
  BY <1>1, Zenon
<1>3. SetArgs(h, x) = Regs(t, o, x, n, a, e)
  BY <1>2, RegsWithArgs DEF SetArgs
<1>4. o \in Octet /\ n \in Word /\ a \in Word /\ e \in BOOLEAN /\ Len(x) < Args(o)
  BY <1>1, RegsOf, Zenon
<1>5. IsHci(Regs("args", o, x, n, a, e))
  BY <1>4, RegsAre
<1> QED
  BY <1>1, <1>3, <1>5, Zenon

LEMMA SetErrIs ==
  ASSUME NEW h, IsHci(h), h.st = "decode"
  PROVE  IsHci(SetErr(h, TRUE)) /\ SetErr(h, TRUE).st = "decode"
<1>1. PICK t, o, g, n, a, e : /\ h = Regs(t, o, g, n, a, e)
                             /\ t = "decode" /\ o = h.op /\ g = <<>> /\ n = h.n /\ a = h.addr /\ e = h.err
  BY RegsOf
<1>2. h = Regs(t, o, g, n, a, e)
  BY <1>1, Zenon
<1> DEFINE x == TRUE
<1>x. x \in BOOLEAN
  OBVIOUS
<1> HIDE DEF x
<1>3. SetErr(h, x) = Regs(t, o, g, n, a, x)
  BY <1>2, RegsWithErr DEF SetErr
<1>4. o \in Octet /\ g \in Seq(Octet) /\ n \in Word /\ a \in Word
  BY <1>1, RegsOf, Zeros, Zenon
<1>5. IsHci(Regs(t, o, g, n, a, x))
  BY <1>1, <1>4, <1>x, RegsAre, Zenon
<1>6. SetErr(h, x).st = t
  BY <1>3, RegsFields
<1> QED
  BY <1>1, <1>3, <1>5, <1>6, Zenon DEF x

LEMMA SetWorkIs ==
  ASSUME NEW h, IsHci(h), NEW s \in {"echo", "read", "write"}, NEW m \in Word, m # 0, NEW b \in Word
  PROVE  /\ SetWork(h, s, <<>>, m, b) = Regs(s, h.op, <<>>, m, b, h.err)
         /\ IsHci(SetWork(h, s, <<>>, m, b))
<1>1. PICK t, o, g, n, a, e : h = Regs(t, o, g, n, a, e) /\ o = h.op /\ e = h.err
  BY RegsOf
<1>2. h = Regs(t, o, g, n, a, e)
  BY <1>1
<1> DEFINE z == <<>>
<1>z. z \in Seq(Octet) /\ z = <<>>
  BY Zeros
<1> HIDE DEF z
<1>3. SetWork(h, s, z, m, b) = Regs(s, o, z, m, b, e)
  BY <1>2, RegsWithWork
<1>4. o \in Octet /\ e \in BOOLEAN
  BY <1>1, RegsOf
<1>5. IsHci(Regs(s, o, z, m, b, e))
  BY <1>4, <1>z, RegsAre
<1> QED
  BY <1>1, <1>3, <1>5, <1>z

LEMMA NumIs ==
  ASSUME NEW lo \in Octet, NEW hi \in Octet
  PROVE  Num(lo, hi) \in Word
<1>1. lo \in Int /\ 0 <= lo /\ lo <= 255 /\ hi \in Int /\ 0 <= hi /\ hi <= 255
  BY DEF Octet, BYTE
<1>2. lo + 256 * hi \in Int /\ 0 <= lo + 256 * hi /\ lo + 256 * hi < 65536
  BY <1>1, SMT
<1>3. Num(lo, hi) = lo + 256 * hi
  BY DEF Num, BYTE
<1> QED
  BY <1>2, <1>3, WordIs, SMT

-----------------------------------------------------------------------------
(* The steps of the interface, one by one: what they make of its registers *)
(* and of the machine.                                                     *)
LEMMA RxHead ==
  ASSUME HwTypes, rx # <<>>
  PROVE  Head(rx) \in Octet /\ Tail(rx) = <<>>
<1>1. rx \in Seq(Octet) /\ Len(rx) <= 1 /\ <<>> \in Seq(Octet)
  BY Zeros DEF HwTypes
<1> QED
  BY <1>1, TakeByte

LEMMA DecodeShape ==
  ASSUME HwTypes, S_DECODE
  PROVE  /\ rx # <<>> /\ rx' = Tail(rx) /\ hci.st = "decode" /\ hci.args = <<>> /\ nes.halted
         /\ nes' = [nes EXCEPT !.halted = Head(rx) # 4] /\ (Head(rx) # 4 => nes' = nes)
         /\ tx' = IF Head(rx) = 7 THEN Push(tx, 1) ELSE tx
         /\ Head(rx) = 4 => hci' = SetSt(hci, "off")
         /\ Head(rx) = 8 => hci' = SetSt(hci, "err")
         /\ Head(rx) = 11 => hci' = SetSt(hci, "ppu")
         /\ Args(Head(rx)) > 0 => hci' = SetStOp(hci, "args", Head(rx))
         /\ Head(rx) \in {3, 7} => hci' = hci
         /\ Head(rx) \notin {3, 4, 7, 8, 11} /\ Args(Head(rx)) = 0 => hci' = SetErr(hci, TRUE)
<1> DEFINE op == Head(rx)
<1>1. rx # <<>> /\ rx' = Tail(rx) /\ hci.st = "decode"
  BY DEF S_DECODE
<1>2. hci.args = <<>> /\ nes.halted /\ IsMachine(nes)
  BY <1>1, RegsOf DEF HwTypes
<1>3. nes' = [nes EXCEPT !.halted = op # 4]
  BY OpCodes DEF S_DECODE
<1>4. op # 4 => nes' = nes
  BY <1>2, <1>3, WithHalted
<1>5. tx' = IF op = 7 THEN Push(tx, 1) ELSE tx
  BY OpCodes DEF S_DECODE
<1>6. hci' = IF op = 4 THEN SetSt(hci, "off") ELSE IF op = 8 THEN SetSt(hci, "err")
             ELSE IF op = 11 THEN SetSt(hci, "ppu")
             ELSE IF Args(op) > 0 THEN SetStOp(hci, "args", op)
             ELSE IF op \in {3, 7} THEN hci ELSE SetErr(hci, TRUE)
  BY OpCodes DEF S_DECODE, SetSt, SetStOp, SetErr
<1>7. op \in Octet /\ Args(4) = 0 /\ Args(8) = 0 /\ Args(11) = 0 /\ Args(3) = 0 /\ Args(7) = 0
      /\ Args(op) \in 0 .. 5
  BY <1>1, RxHead, ArgsOf
<1> HIDE DEF op
<1>8. /\ op = 4 => hci' = SetSt(hci, "off")
      /\ op = 8 => hci' = SetSt(hci, "err")
      /\ op = 11 => hci' = SetSt(hci, "ppu")
      /\ Args(op) > 0 => hci' = SetStOp(hci, "args", op)
      /\ op \in {3, 7} => hci' = hci
      /\ op \notin {3, 4, 7, 8, 11} /\ Args(op) = 0 => hci' = SetErr(hci, TRUE)
  <2>1. op = 4 => hci' = SetSt(hci, "off")
    BY <1>6
  <2>2. op = 8 => hci' = SetSt(hci, "err")
    BY <1>6
  <2>3. op = 11 => hci' = SetSt(hci, "ppu")
    BY <1>6
  <2>4. Args(op) > 0 => op # 4 /\ op # 8 /\ op # 11
    BY <1>7
  <2>5. Args(op) > 0 => hci' = SetStOp(hci, "args", op)
    BY <1>6, <2>4
  <2>6. op \in {3, 7} => ~(Args(op) > 0)
    BY <1>7
  <2>7. op \in {3, 7} => hci' = hci
    BY <1>6, <2>6
  <2>8. Args(op) = 0 => ~(Args(op) > 0)
    BY <1>7
  <2>9. op \notin {3, 4, 7, 8, 11} /\ Args(op) = 0 => hci' = SetErr(hci, TRUE)
    BY <1>6, <2>8
  <2> QED
    BY <2>1, <2>2, <2>3, <2>5, <2>7, <2>9
<1> QED
  BY <1>1, <1>2, <1>3, <1>4, <1>5, <1>8 DEF op

(* Beginning the work of a packet, with a count of n.                      *)
Works(s, n, a) == IF n = 0 THEN Decoding ELSE SetWork(hci, s, <<>>, n, a)

LEMMA ArgsShape ==
  ASSUME HwTypes, S_ARGS
  PROVE  LET a == Append(hci.args, Head(rx)) IN
         /\ rx # <<>> /\ rx' = Tail(rx) /\ hci.st = "args" /\ nes.halted
         /\ a \in Seq(Octet) /\ Len(a) = Len(hci.args) + 1 /\ Len(a) <= Args(hci.op)
         /\ hci.op = 5 => Len(tx) < FIFO
         /\ tx' = IF hci.op = 5 THEN Push(tx, Read(nes.regs, Head(rx) % 16)) ELSE tx
         /\ Len(a) < Args(hci.op) => hci' = SetArgs(hci, a)
         /\ Len(a) = Args(hci.op) /\ hci.op = 0 => hci' = Works("echo", Num(a[1], a[2]), 0)
         /\ Len(a) = Args(hci.op) /\ hci.op \in {1, 9} =>
              hci' = Works("read", Num(a[3], a[4]), Num(a[1], a[2]))
         /\ Len(a) = Args(hci.op) /\ hci.op \in {2, 10} =>
              hci' = Works("write", Num(a[3], a[4]), Num(a[1], a[2]))
         /\ Len(a) = Args(hci.op) /\ hci.op \notin {0, 1, 2, 9, 10} => hci' = Decoding
         /\ hci.op = 12 => nes' = [nes EXCEPT !.cfg = Append(Tail(nes.cfg), Head(rx))]
         /\ hci.op = 6 /\ Len(a) = Args(hci.op) =>
              nes' = IF a[1] % 16 \in 0 .. 6 THEN [nes EXCEPT !.regs[a[1] % 16] = a[2]] ELSE nes
         /\ hci.op \notin {6, 12} => nes' = nes
         /\ Len(a) < Args(hci.op) /\ hci.op # 12 => nes' = nes
<1> DEFINE b == Head(rx)
           a == Append(hci.args, b)
           op == hci.op
           N == Num(a[Len(a) - 1], a[Len(a)])
           A == Num(a[1], a[2])
           W(st) == IF N = 0 THEN Decoding
                    ELSE [hci EXCEPT !.st = st, !.args = <<>>, !.n = N,
                            !.addr = IF st = "echo" THEN 0 ELSE A]
<1>1. rx # <<>> /\ rx' = Tail(rx) /\ hci.st = "args" /\ (op = 5 => Len(tx) < FIFO)
  BY OpCodes DEF S_ARGS
<1>2. hci.args \in Seq(Octet) /\ Len(hci.args) < Args(op) /\ nes.halted /\ op \in Octet
      /\ Len(hci.args) \in Nat /\ DOMAIN nes.regs = 0 .. 6
  BY <1>1, RegsOf, MachOf DEF HwTypes
<1>3. b \in Octet
  BY <1>1, RxHead
<1>4. a \in Seq(Octet) /\ Len(a) = Len(hci.args) + 1
  BY <1>2, <1>3, AppendProperties
<1>5. Args(op) \in 0 .. 5
  BY <1>2, ArgsOf
<1>6. Len(a) <= Args(op)
  BY <1>2, <1>4, <1>5
<1>7. tx' = IF op = 5 THEN Push(tx, Read(nes.regs, b % 16)) ELSE tx
  BY OpCodes DEF S_ARGS
<1>8. nes' = IF op = 12 THEN [nes EXCEPT !.cfg = Append(Tail(nes.cfg), b)]
             ELSE IF op = 6 /\ Len(a) = Args(op) /\ a[1] % 16 \in 0 .. 6
             THEN [nes EXCEPT !.regs[a[1] % 16] = a[2]] ELSE nes
  <2>1. nes' = IF op = 12 THEN [nes EXCEPT !.cfg = Append(Tail(nes.cfg), b)]
              ELSE IF op = 6 /\ Len(a) = Args(op) /\ a[1] % 16 \in DOMAIN nes.regs
              THEN [nes EXCEPT !.regs[a[1] % 16] = a[2]] ELSE nes
    BY OpCodes DEF S_ARGS
  <2> QED
    BY <1>2, <2>1
<1>9. hci' = IF ~(Len(a) = Args(op)) THEN SetArgs(hci, a) ELSE IF op = 0 THEN W("echo")
             ELSE IF op \in {1, 9} THEN W("read") ELSE IF op \in {2, 10} THEN W("write") ELSE Decoding
  BY OpCodes DEF S_ARGS, SetArgs
<1>10. W("echo") = Works("echo", N, 0) /\ W("read") = Works("read", N, A) /\ W("write") = Works("write", N, A)
  BY DEF Works, SetWork
<1> HIDE DEF W
<1>11. /\ op = 0 /\ Len(a) = Args(op) => N = Num(a[1], a[2])
       /\ op \in {1, 2, 9, 10} /\ Len(a) = Args(op) => N = Num(a[3], a[4])
  BY ArgsOf, SMTT(20)
<1> HIDE DEF N, A
<1> DEFINE full == Len(a) = Args(op)
<1> HIDE DEF a, op
<1>12. op = 0 /\ full => hci' = Works("echo", Num(a[1], a[2]), 0)
  BY <1>9, <1>10, <1>11
<1>13. op \in {1, 9} /\ full => hci' = Works("read", Num(a[3], a[4]), A)
  <2> SUFFICES ASSUME op \in {1, 9}, full PROVE hci' = Works("read", Num(a[3], a[4]), A)
    OBVIOUS
  <2>1. op # 0 /\ N = Num(a[3], a[4])
    BY <1>11
  <2>2. hci' = W("read")
    BY <1>9, <2>1
  <2> QED
    BY <1>10, <2>1, <2>2
<1>14. op \in {2, 10} /\ full => hci' = Works("write", Num(a[3], a[4]), A)
  <2> SUFFICES ASSUME op \in {2, 10}, full PROVE hci' = Works("write", Num(a[3], a[4]), A)
    OBVIOUS
  <2>1. op # 0 /\ op \notin {1, 9} /\ N = Num(a[3], a[4])
    BY <1>11
  <2>2. hci' = W("write")
    BY <1>9, <2>1
  <2> QED
    BY <1>10, <2>1, <2>2
<1>15. op \notin {0, 1, 2, 9, 10} /\ Len(a) = Args(op) => hci' = Decoding
  BY <1>9
<1>16. Len(a) < Args(op) => hci' = SetArgs(hci, a)
  BY <1>4, <1>5, <1>9
<1>17. /\ op = 12 => nes' = [nes EXCEPT !.cfg = Append(Tail(nes.cfg), b)]
       /\ op = 6 /\ Len(a) = Args(op) =>
              nes' = IF a[1] % 16 \in 0 .. 6 THEN [nes EXCEPT !.regs[a[1] % 16] = a[2]] ELSE nes
       /\ op \notin {6, 12} => nes' = nes
  <2>1. op = 12 => nes' = [nes EXCEPT !.cfg = Append(Tail(nes.cfg), b)]
    BY <1>8
  <2>2. op = 6 /\ Len(a) = Args(op) =>
              nes' = IF a[1] % 16 \in 0 .. 6 THEN [nes EXCEPT !.regs[a[1] % 16] = a[2]] ELSE nes
    BY <1>8
  <2>3. op \notin {6, 12} => nes' = nes
    BY <1>8
  <2> QED
    BY <2>1, <2>2, <2>3
<1>18. Len(a) < Args(op) /\ op # 12 => nes' = nes
  BY <1>4, <1>5, <1>8
<1> QED
  BY <1>1, <1>2, <1>4, <1>6, <1>7, <1>12, <1>13, <1>14, <1>15, <1>16, <1>17, <1>18 DEF A, a, op

LEMMA TailEmpty ==
  ASSUME HwTypes, rx # <<>>, rx' = Tail(rx)
  PROVE  rx' \in Seq(Octet) /\ Len(rx') <= 1 /\ rx' = <<>>
<1>1. rx' = <<>>
  BY RxHead
<1>2. <<>> \in Seq(Octet) /\ Len(<<>>) = 0
  BY SmallLen
<1>3. rx' \in Seq(Octet) /\ Len(rx') = 0
  BY <1>1, <1>2, Zenon
<1> QED
  BY <1>1, <1>3

LEMMA HciTypes ==
  ASSUME HwTypes, HciStep
  PROVE  HwTypes'
<1>0. /\ rx \in Seq(Octet) /\ Len(rx) <= 1 /\ tx \in Seq(Octet) /\ Len(tx) <= FIFO
      /\ IsHci(hci) /\ IsMachine(nes) /\ (nes.halted <=> hci.st # "off")
  BY DEF HwTypes
<1>d. IsHci(Decoding) /\ Decoding.st = "decode"
  BY <1>0, DecodingIs
<1>z. 0 \in Octet /\ 1 \in Octet /\ 2 \in Octet
  BY DEF Octet, BYTE
<1>q. /\ rx' \in Seq(Octet) /\ Len(rx') <= 1 /\ tx' \in Seq(Octet) /\ Len(tx') <= FIFO
      /\ IsHci(hci') /\ IsMachine(nes') /\ (nes'.halted <=> hci'.st # "off")
  <2>1. CASE S_DISABLED
    <3>1. rx # <<>> /\ rx' = Tail(rx) /\ tx' = (IF Head(rx) = 7 THEN Push(tx, 0) ELSE tx)
      BY <2>1, OpCodes DEF S_DISABLED
    <3>2. \/ hci' = Decoding /\ nes' = [nes EXCEPT !.halted = TRUE]
          \/ hci' = hci /\ nes' = nes
      BY <2>1 DEF S_DISABLED
    <3>3. tx' \in Seq(Octet) /\ Len(tx') <= FIFO
      BY <1>0, <1>z, <3>1, PushIs
    <3>4. rx' \in Seq(Octet) /\ Len(rx') <= 1
      BY <3>1, TailEmpty
    <3>5. CASE hci' = Decoding /\ nes' = [nes EXCEPT !.halted = TRUE]
      BY <1>0, <1>d, <3>3, <3>4, <3>5, WithHalted
    <3>6. CASE hci' = hci /\ nes' = nes
      BY <1>0, <3>3, <3>4, <3>6
    <3> QED
      BY <3>2, <3>5, <3>6
  <2>2. CASE S_DECODE
    <3>1. /\ rx # <<>> /\ rx' = Tail(rx) /\ hci.st = "decode" /\ hci.args = <<>> /\ nes.halted
          /\ nes' = [nes EXCEPT !.halted = Head(rx) # 4]
          /\ tx' = IF Head(rx) = 7 THEN Push(tx, 1) ELSE tx
          /\ Head(rx) = 4 => hci' = SetSt(hci, "off")
          /\ Head(rx) = 8 => hci' = SetSt(hci, "err")
          /\ Head(rx) = 11 => hci' = SetSt(hci, "ppu")
          /\ Args(Head(rx)) > 0 => hci' = SetStOp(hci, "args", Head(rx))
          /\ Head(rx) \in {3, 7} => hci' = hci
          /\ Head(rx) \notin {3, 4, 7, 8, 11} /\ Args(Head(rx)) = 0 => hci' = SetErr(hci, TRUE)
      BY <2>2, DecodeShape
    <3>2. tx' \in Seq(Octet) /\ Len(tx') <= FIFO
      BY <1>0, <1>z, <3>1, PushIs
    <3>3. rx' \in Seq(Octet) /\ Len(rx') <= 1
      BY <3>1, TailEmpty
    <3>4. PICK b : b = Head(rx) /\ b \in Octet
      BY <3>1, RxHead
    <3>5. IsMachine(nes') /\ (nes'.halted <=> b # 4)
      <4>1. PICK x \in BOOLEAN : x = (b # 4)
        OBVIOUS
      <4>2. nes' = [nes EXCEPT !.halted = x]
        BY <3>1, <3>4, <4>1
      <4> QED
        BY <1>0, <4>1, <4>2, WithHalted
    <3>6. IsHci(hci') /\ (hci'.st = "off" <=> b = 4)
      <4>0. Args(4) = 0 /\ Args(8) = 0 /\ Args(11) = 0 /\ Args(3) = 0 /\ Args(7) = 0 /\ Args(b) \in 0 .. 5
        BY <3>4, ArgsOf
      <4>1. CASE b = 4
        BY <1>0, <3>1, <3>4, <4>1, SetStIs
      <4>2. CASE b = 8
        BY <1>0, <3>1, <3>4, <4>2, SetStIs
      <4>3. CASE b = 11
        BY <1>0, <3>1, <3>4, <4>3, SetStIs
      <4>4. CASE Args(b) > 0
        <5>1. hci' = SetStOp(hci, "args", b)
          BY <3>1, <3>4, <4>4
        <5>2. IsHci(SetStOp(hci, "args", b))
              /\ SetStOp(hci, "args", b) = Regs("args", b, <<>>, hci.n, hci.addr, hci.err)
          BY <1>0, <3>1, <3>4, <4>4, SetStOpIs
        <5>3. hci'.st = "args"
          BY <5>1, <5>2, RegsFields
        <5>4. b # 4
          BY <4>0, <4>4
        <5> QED
          BY <5>1, <5>2, <5>3, <5>4
      <4>5. CASE b \in {3, 7}
        <5>1. b # 4 /\ hci' = hci /\ hci.st = "decode"
          BY <4>5, <3>1, <3>4
        <5> QED
          BY <1>0, <5>1
      <4>6. CASE b \notin {3, 4, 7, 8, 11} /\ ~(Args(b) > 0)
        <5>1. Args(b) = 0
          BY <4>0, <4>6
        <5>2. hci' = SetErr(hci, TRUE)
          BY <3>1, <3>4, <4>6, <5>1
        <5> QED
          BY <1>0, <3>1, <4>6, <5>2, SetErrIs
      <4> QED
        BY <4>1, <4>2, <4>3, <4>4, <4>5, <4>6
    <3> QED
      BY <3>2, <3>3, <3>5, <3>6
  <2>3. CASE S_ARGS
    <3> DEFINE a == Append(hci.args, Head(rx))
    <3>1. /\ rx # <<>> /\ rx' = Tail(rx) /\ hci.st = "args" /\ nes.halted
          /\ a \in Seq(Octet) /\ Len(a) = Len(hci.args) + 1 /\ Len(a) <= Args(hci.op)
          /\ tx' = IF hci.op = 5 THEN Push(tx, Read(nes.regs, Head(rx) % 16)) ELSE tx
          /\ Len(a) < Args(hci.op) => hci' = SetArgs(hci, a)
          /\ Len(a) = Args(hci.op) /\ hci.op = 0 => hci' = Works("echo", Num(a[1], a[2]), 0)
          /\ Len(a) = Args(hci.op) /\ hci.op \in {1, 9} =>
              hci' = Works("read", Num(a[3], a[4]), Num(a[1], a[2]))
          /\ Len(a) = Args(hci.op) /\ hci.op \in {2, 10} =>
              hci' = Works("write", Num(a[3], a[4]), Num(a[1], a[2]))
          /\ Len(a) = Args(hci.op) /\ hci.op \notin {0, 1, 2, 9, 10} => hci' = Decoding
          /\ hci.op = 12 => nes' = [nes EXCEPT !.cfg = Append(Tail(nes.cfg), Head(rx))]
          /\ hci.op = 6 /\ Len(a) = Args(hci.op) =>
              nes' = IF a[1] % 16 \in 0 .. 6 THEN [nes EXCEPT !.regs[a[1] % 16] = a[2]] ELSE nes
          /\ hci.op \notin {6, 12} => nes' = nes
          /\ Len(a) < Args(hci.op) /\ hci.op # 12 => nes' = nes
      BY <2>3, ArgsShape
    <3>2. rx' \in Seq(Octet) /\ Len(rx') <= 1
      BY <3>1, TailEmpty
    <3>3. PICK o : o = hci.op /\ o \in Octet
      BY <1>0, RegsOf
    <3>4. Args(o) \in 0 .. 5 /\ Len(a) \in Nat /\ Head(rx) \in Octet
      BY <3>1, <3>3, ArgsOf, RxHead, <1>0, RegsOf
    <3>h. PICK b : b = Head(rx) /\ b \in Octet
      BY <3>4
    <3>5. tx' \in Seq(Octet) /\ Len(tx') <= FIFO
      <4>1. Read(nes.regs, b % 16) \in Octet
        <5>1. nes.regs \in [0 .. 6 -> Octet]
          BY <1>0, MachOf
        <5> QED
          BY <5>1, <1>z DEF Read
      <4> QED
        BY <1>0, <3>1, <3>h, <4>1, PushIs
    <3>w. ASSUME NEW s \in {"echo", "read", "write"}, NEW n \in Word, NEW d \in Word
          PROVE  IsHci(Works(s, n, d)) /\ Works(s, n, d).st # "off"
      <4>1. CASE n = 0
        BY <1>d, <4>1 DEF Works
      <4>2. CASE n # 0
        <5>1. Works(s, n, d) = SetWork(hci, s, <<>>, n, d)
          BY <4>2 DEF Works
        <5>2. /\ SetWork(hci, s, <<>>, n, d) = Regs(s, hci.op, <<>>, n, d, hci.err)
              /\ IsHci(SetWork(hci, s, <<>>, n, d))
          BY <1>0, <4>2, SetWorkIs
        <5>3. SetWork(hci, s, <<>>, n, d).st = s
          BY <5>2, RegsFields
        <5> QED
          BY <5>1, <5>2, <5>3
      <4> QED
        BY <4>1, <4>2
    <3> HIDE DEF a
    <3>6. IsHci(hci') /\ hci'.st # "off"
      <4>1. CASE Len(a) < Args(o)
        <5>1. hci' = SetArgs(hci, a)
          BY <3>1, <3>3, <4>1
        <5>2. /\ SetArgs(hci, a) = Regs("args", hci.op, a, hci.n, hci.addr, hci.err)
              /\ IsHci(SetArgs(hci, a))
          BY <1>0, <3>1, <3>3, <4>1, SetArgsIs
        <5>3. SetArgs(hci, a).st = "args"
          BY <5>2, RegsFields
        <5> QED
          BY <5>1, <5>2, <5>3
      <4>2. CASE Len(a) = Args(o)
        <5>1. Args(o) >= 2 => a[1] \in Octet /\ a[2] \in Octet
          BY <3>1, <3>4, <4>2, ElementOfSeq
        <5>2. Args(o) >= 4 => a[3] \in Octet /\ a[4] \in Octet
          BY <3>1, <3>4, <4>2, ElementOfSeq
        <5>3. CASE o = 0
          <6>1. Num(a[1], a[2]) \in Word /\ 0 \in Word
            BY <5>1, <5>3, ArgsOf, NumIs, Zeros
          <6> QED
            BY <3>1, <3>3, <4>2, <5>3, <6>1, <3>w
        <5>4. CASE o \in {1, 9}
          <6>1. Num(a[1], a[2]) \in Word /\ Num(a[3], a[4]) \in Word
            BY <5>1, <5>2, <5>4, ArgsOf, NumIs
          <6> QED
            BY <3>1, <3>3, <4>2, <5>4, <6>1, <3>w
        <5>5. CASE o \in {2, 10}
          <6>1. Num(a[1], a[2]) \in Word /\ Num(a[3], a[4]) \in Word
            BY <5>1, <5>2, <5>5, ArgsOf, NumIs
          <6> QED
            BY <3>1, <3>3, <4>2, <5>5, <6>1, <3>w
        <5>6. CASE o \notin {0, 1, 2, 9, 10}
          BY <3>1, <3>3, <4>2, <5>6, <1>d
        <5> QED
          BY <5>3, <5>4, <5>5, <5>6
      <4> QED
        BY <3>1, <3>3, <3>4, <4>1, <4>2
    <3>7. IsMachine(nes') /\ nes'.halted
      <4>1. CASE o = 12
        <5>1. PICK x : x = Append(Tail(nes.cfg), b)
          OBVIOUS
        <5>2. x \in Seq(Octet) /\ Len(x) = 5
          <6>1. nes.cfg \in Seq(Octet) /\ Len(nes.cfg) = 5
            BY <1>0, MachOf
          <6>2. nes.cfg # <<>>
            BY <6>1
          <6>3. Tail(nes.cfg) \in Seq(Octet) /\ Len(Tail(nes.cfg)) = 4
            BY <6>1, <6>2, HeadTailProperties
          <6> QED
            BY <3>h, <5>1, <6>3, AppendProperties
        <5>3. nes' = [nes EXCEPT !.cfg = x]
          BY <3>1, <3>3, <3>h, <4>1, <5>1
        <5> QED
          BY <1>0, <3>1, <5>2, <5>3, WithCfg
      <4>2. CASE o = 6 /\ Len(a) = Args(o)
        <5>1. a[1] \in Octet /\ a[2] \in Octet
          BY <3>1, <3>4, <4>2, ElementOfSeq, ArgsOf
        <5>2. PICK i, v : i = a[1] % 16 /\ v = a[2]
          OBVIOUS
        <5>3. nes' = IF i \in 0 .. 6 THEN [nes EXCEPT !.regs[i] = v] ELSE nes
          BY <3>1, <3>3, <4>2, <5>2
        <5>4. v \in Octet
          BY <5>1, <5>2
        <5>5. CASE i \in 0 .. 6
          <6>1. nes' = [nes EXCEPT !.regs[i] = v]
            BY <5>3, <5>5
          <6>2. IsMachine([nes EXCEPT !.regs[i] = v]) /\ [nes EXCEPT !.regs[i] = v].halted = nes.halted
            <7>1. IsMachine(nes)
              BY <1>0
            <7> QED
              BY <5>4, <5>5, <7>1, WithReg, Zenon
          <6> QED
            BY <3>1, <6>1, <6>2
        <5>6. CASE i \notin 0 .. 6
          BY <1>0, <3>1, <5>3, <5>6
        <5> QED
          BY <5>5, <5>6
      <4>3. CASE o # 12 /\ ~(o = 6 /\ Len(a) = Args(o))
        <5>1. nes' = nes
          <6>1. CASE o \notin {6, 12}
            BY <3>1, <3>3, <6>1
          <6>2. CASE o = 6
            <7>1. Len(a) < Args(o)
              BY <3>1, <3>3, <3>4, <4>3, <6>2
            <7> QED
              BY <3>1, <3>3, <6>2, <7>1
          <6> QED
            BY <4>3, <6>1, <6>2
        <5> QED
          BY <1>0, <3>1, <5>1
      <4> QED
        BY <4>1, <4>2, <4>3
    <3> QED
      BY <3>2, <3>5, <3>6, <3>7
  <2>4. CASE S_ECHO_STG_1
    <3>1. /\ hci.st = "echo" /\ rx # <<>> /\ rx' = Tail(rx) /\ tx' = Push(tx, Head(rx))
          /\ hci' = Count /\ nes' = nes
      BY <2>4 DEF S_ECHO_STG_1
    <3>2. IsHci(Count) /\ Count.st # "off"
      BY <1>0, <3>1, CountIs
    <3>3. tx' \in Seq(Octet) /\ Len(tx') <= FIFO
      BY <1>0, <3>1, RxHead, PushIs
    <3> QED
      BY <1>0, <3>1, <3>2, <3>3, TailEmpty
  <2>5. CASE S_MEM_WR_STG_1
    <3>1. /\ hci.st = "write" /\ rx # <<>> /\ rx' = Tail(rx) /\ tx' = tx /\ hci' = Count
      BY <2>5 DEF S_MEM_WR_STG_1
    <3>2. IsHci(Count) /\ Count.st # "off"
      BY <1>0, <3>1, CountIs
    <3>3. PICK a, b : a = hci.addr /\ b = Head(rx) /\ a \in Word /\ b \in Octet
      BY <1>0, <3>1, RegsOf, RxHead
    <3>4. \/ nes' = [nes EXCEPT !.mem = Put(nes.mem, a, <<b>>)]
          \/ nes' = [nes EXCEPT !.vram = Put(nes.vram, a, <<b>>)]
      BY <2>5, <3>3 DEF S_MEM_WR_STG_1
    <3>5. PICK m, v : m = Put(nes.mem, a, <<b>>) /\ v = Put(nes.vram, a, <<b>>)
      OBVIOUS
    <3>6. IsMemory(nes.mem) /\ IsMemory(nes.vram)
      BY <1>0, MachOf
    <3>7. IsMemory(m) /\ IsMemory(v)
      BY <3>3, <3>5, <3>6, PutByte
    <3>8. nes' = [nes EXCEPT !.mem = m] \/ nes' = [nes EXCEPT !.vram = v]
      BY <3>4, <3>5
    <3>9. IsMachine(nes') /\ nes'.halted = nes.halted
      <4>1. IsMachine([nes EXCEPT !.mem = m]) /\ [nes EXCEPT !.mem = m].halted = nes.halted
        BY <1>0, <3>7, WithMem
      <4>2. IsMachine([nes EXCEPT !.vram = v]) /\ [nes EXCEPT !.vram = v].halted = nes.halted
        BY <1>0, <3>7, WithVram
      <4> QED
        BY <3>8, <4>1, <4>2
    <3>10. rx' \in Seq(Octet) /\ Len(rx') <= 1
      BY <3>1, TailEmpty
    <3> QED
      BY <1>0, <3>1, <3>2, <3>9, <3>10
  <2>6. CASE S_MEM_RD_STG_1
    <3>1. hci.st = "read" /\ hci' = Count /\ rx' = rx /\ nes' = nes
          /\ \E m \in {nes.mem, nes.vram} : tx' = Push(tx, Read(m, hci.addr))
      BY <2>6 DEF S_MEM_RD_STG_1
    <3>2. IsHci(Count) /\ Count.st # "off"
      BY <1>0, <3>1, CountIs
    <3>3. IsMemory(nes.mem) /\ IsMemory(nes.vram)
      BY <1>0, MachOf
    <3>4. PICK b : b \in Octet /\ tx' = Push(tx, b)
      BY <3>1, <3>3, ReadOctet
    <3>5. tx' \in Seq(Octet) /\ Len(tx') <= FIFO
      BY <1>0, <3>4, PushIs
    <3> QED
      BY <1>0, <3>1, <3>2, <3>5
  <2>7. CASE S_QUERY_ERR_CODE
    <3>1. hci.st = "err" /\ hci' = Decoding /\ rx' = rx /\ nes' = nes
          /\ \E b \in {0, 2} : tx' = Push(tx, b)
      BY <2>7 DEF S_QUERY_ERR_CODE
    <3>2. tx' \in Seq(Octet) /\ Len(tx') <= FIFO
      BY <1>0, <1>z, <3>1, PushIs
    <3> QED
      BY <1>0, <1>d, <3>1, <3>2
  <2>8. CASE S_PPU_DISABLE
    <3>1. hci.st = "ppu" /\ hci' = Decoding /\ rx' = rx /\ tx' = tx /\ nes' = [nes EXCEPT !.ppu = FALSE]
      BY <2>8 DEF S_PPU_DISABLE
    <3> QED
      BY <1>0, <1>d, <3>1, WithPpu
  <2> QED
    BY <2>1, <2>2, <2>3, <2>4, <2>5, <2>6, <2>7, <2>8 DEF HciStep
<1> QED
  BY <1>q DEF HwTypes

LEMMA CpuTypes ==
  ASSUME HwTypes, Cpu(Bytes)
  PROVE  /\ HwTypes' /\ rx' = rx /\ tx' = tx /\ hci' = hci /\ hci.st = "off"
         /\ nes'.halted = FALSE /\ nes.halted = FALSE
<1>0. /\ rx \in Seq(Octet) /\ Len(rx) <= 1 /\ tx \in Seq(Octet) /\ Len(tx) <= FIFO
      /\ IsHci(hci) /\ IsMachine(nes) /\ (nes.halted <=> hci.st # "off")
  BY DEF HwTypes
<1>1. PICK v \in Bytes : nes' = [nes EXCEPT !.mem = Put(nes.mem, 0, <<v>>)]
  BY DEF Cpu
<1>2. rx' = rx /\ tx' = tx /\ hci' = hci /\ hci.st = "off"
  BY DEF Cpu
<1>3. v \in Octet /\ 0 \in Word /\ IsMemory(nes.mem)
  BY <1>0, DebuggerAssumption, Zeros, MachOf
<1>4. PICK m : m = Put(nes.mem, 0, <<v>>)
  OBVIOUS
<1>5. IsMemory(m)
  BY <1>3, <1>4, PutByte
<1>6. IsMachine(nes') /\ nes'.halted = nes.halted
  BY <1>0, <1>1, <1>4, <1>5, WithMem
<1>7. nes.halted \in BOOLEAN
  BY <1>0, MachOf
<1>8. HwTypes'
  BY <1>0, <1>2, <1>6 DEF HwTypes
<1> QED
  BY <1>0, <1>2, <1>6, <1>7, <1>8

LEMMA BrkTypes ==
  ASSUME HwTypes, Brk
  PROVE  /\ HwTypes' /\ rx' = rx /\ tx' = tx /\ hci' = Decoding /\ hci'.st = "decode" /\ hci.st = "off"
         /\ nes'.halted = TRUE /\ nes.halted = FALSE
<1>0. /\ rx \in Seq(Octet) /\ Len(rx) <= 1 /\ tx \in Seq(Octet) /\ Len(tx) <= FIFO
      /\ IsHci(hci) /\ IsMachine(nes) /\ (nes.halted <=> hci.st # "off")
  BY DEF HwTypes
<1>1. rx' = rx /\ tx' = tx /\ hci' = Decoding /\ hci.st = "off" /\ nes' = [nes EXCEPT !.halted = TRUE]
  BY DEF Brk
<1>2. IsMachine(nes') /\ nes'.halted = TRUE
  BY <1>0, <1>1, WithHalted
<1>3. IsHci(hci') /\ hci'.st = "decode"
  BY <1>0, <1>1, DecodingIs
<1>4. HwTypes'
  BY <1>0, <1>1, <1>2, <1>3 DEF HwTypes
<1>5. nes.halted \in BOOLEAN
  BY <1>0, MachOf
<1> QED
  BY <1>0, <1>1, <1>2, <1>3, <1>4, <1>5

(* A byte arrives only when the byte before it has been taken.             *)
LEMMA ArrivesEmpty ==
  ASSUME HwTypes, Waits, Len(tx) <= SKEW
  PROVE  rx = <<>> /\ Len(tx) < FIFO
<1>1. SKEW < FIFO /\ SKEW \in Int /\ FIFO \in Int
  BY DebuggerAssumption, FifoAssumption
<1>2. Len(tx) \in Nat
  BY DEF HwTypes
<1>3. Len(tx) < FIFO
  BY <1>1, <1>2
<1>4. Len(tx) # FIFO
  BY <1>1, <1>2, <1>3
<1> QED
  BY <1>3, <1>4 DEF Waits

-----------------------------------------------------------------------------
(* What a command is answered.                                             *)
LEMMA AnswerParts ==
  ASSUME NEW c, NEW m
  PROVE  /\ c.op = "QueryHlt" => Answer(c, m) = <<IF m.halted THEN 1 ELSE 0>>
         /\ c.op # "QueryHlt" /\ ~m.halted => Answer(c, m) = <<>>
         /\ c.op = "Echo" /\ m.halted => Answer(c, m) = c.data
         /\ c.op = "CpuRegRd" /\ m.halted => Answer(c, m) = <<m.regs[c.addr]>>
         /\ c.op \notin {"Echo", "CpuMemRd", "PpuMemRd", "CpuRegRd", "QueryHlt"} =>
              Answer(c, m) = <<>>
<1>1. c.op = "QueryHlt" => Answer(c, m) = <<IF m.halted THEN 1 ELSE 0>>
  BY DEF Answer
<1>2. c.op # "QueryHlt" /\ ~m.halted => Answer(c, m) = <<>>
  BY DEF Answer
<1>3. c.op = "Echo" /\ m.halted => Answer(c, m) = c.data
  BY DEF Answer
<1>4. c.op = "CpuRegRd" /\ m.halted => Answer(c, m) = <<m.regs[c.addr]>>
  BY DEF Answer
<1>5. c.op \notin {"Echo", "CpuMemRd", "PpuMemRd", "CpuRegRd", "QueryHlt"} => Answer(c, m) = <<>>
  BY DEF Answer
<1> QED
  BY <1>1, <1>2, <1>3, <1>4, <1>5

LEMMA Fetching ==
  ASSUME NEW x, IsMemory(x), NEW n \in Word, NEW a,
         NEW r, r = [i \in 1 .. n |-> Read(x, Cell(a, i))]
  PROVE  r \in Seq(Octet) /\ Len(r) = n /\ \A i \in 1 .. n : r[i] = Read(x, Cell(a, i))
<1>1. n \in Nat
  BY WordIs, SMT
<1>2. \A i \in 1 .. n : Read(x, Cell(a, i)) \in Octet
  BY ReadOctet
<1>3. r \in [1 .. n -> Octet]
  BY <1>2
<1>4. r \in Seq(Octet) /\ Len(r) = n
  BY <1>1, <1>3
<1> QED
  BY <1>4

LEMMA AnswerRead ==
  ASSUME NEW m, IsMachine(m), m.halted, NEW c, IsCommand(c), c.op \in {"CpuMemRd", "PpuMemRd"}
  PROVE  LET x == IF c.op = "CpuMemRd" THEN m.mem ELSE m.vram IN
         /\ Answer(c, m) \in Seq(Octet) /\ Len(Answer(c, m)) = c.n
         /\ \A i \in 1 .. c.n : Answer(c, m)[i] = Read(x, Cell(c.addr, i))
<1> DEFINE x == IF c.op = "CpuMemRd" THEN m.mem ELSE m.vram
<1>1. Answer(c, m) = [i \in 1 .. c.n |-> Read(x, Cell(c.addr, i))]
  BY DEF Answer, Cell
<1>2. IsMemory(x)
  BY MachOf
<1>3. PICK n, a : n = c.n /\ a = c.addr /\ n \in Word
  BY CommandParts
<1> HIDE DEF x
<1>4. PICK r : r = Answer(c, m)
  OBVIOUS
<1>5. r = [i \in 1 .. n |-> Read(x, Cell(a, i))]
  BY <1>1, <1>3, <1>4
<1>6. r \in Seq(Octet) /\ Len(r) = n /\ \A i \in 1 .. n : r[i] = Read(x, Cell(a, i))
  BY <1>2, <1>3, <1>5, Fetching, SMTT(20)
<1> QED
  BY <1>3, <1>4, <1>6 DEF x

LEMMA AnswerIs ==
  ASSUME NEW m, IsMachine(m), NEW c, IsCommand(c), m.halted \/ c.op \in Breaks
  PROVE  Answer(c, m) \in Seq(Octet) /\ Len(Answer(c, m)) = Expect(c)
<1>1. CASE c.op = "QueryHlt"
  <2>1. PICK b : b = (IF m.halted THEN 1 ELSE 0) /\ b \in Octet
    BY DEF Octet, BYTE
  <2>2. Answer(c, m) = <<b>>
    BY <1>1, <2>1, AnswerParts
  <2>3. Expect(c) = 1
    BY <1>1, PlainShape
  <2> QED
    BY <2>1, <2>2, <2>3, ShortTuple
<1>2. CASE c.op = "Echo"
  <2>1. m.halted
    BY <1>2 DEF Breaks
  <2>2. Answer(c, m) = c.data /\ Expect(c) = Len(c.data)
    BY <1>2, <2>1, AnswerParts, EchoShape
  <2> QED
    BY <2>2, CommandParts
<1>3. CASE c.op \in {"CpuMemRd", "PpuMemRd"}
  <2>1. m.halted
    BY <1>3 DEF Breaks
  <2> QED
    BY <1>3, <2>1, AnswerRead, MemRdShape
<1>4. CASE c.op = "CpuRegRd"
  <2>1. m.halted
    BY <1>4 DEF Breaks
  <2>2. PICK b : b = m.regs[c.addr] /\ b \in Octet
    BY <1>4, MachOf, CommandParts
  <2>3. Answer(c, m) = <<b>>
    BY <1>4, <2>1, <2>2, AnswerParts
  <2>4. Expect(c) = 1
    BY <1>4, RegRdShape
  <2> QED
    BY <2>2, <2>3, <2>4, ShortTuple
<1>5. CASE c.op \notin {"Echo", "CpuMemRd", "PpuMemRd", "CpuRegRd", "QueryHlt"}
  <2>1. Answer(c, m) = <<>>
    BY <1>5, AnswerParts
  <2>2. Expect(c) = 0
    <3>1. CASE c.op \in {"CpuMemWr", "PpuMemWr"}
      BY <3>1, MemWrShape
    <3>2. CASE c.op = "CpuRegWr"
      BY <3>2, RegWrShape
    <3>3. CASE c.op = "CartSetCfg"
      BY <3>3, CfgShape
    <3>4. CASE c.op \in {"DbgHlt", "DbgRun", "PpuDisable"}
      BY <3>4, PlainShape
    <3> QED
      BY <1>5, <3>1, <3>2, <3>3, <3>4, CommandParts
  <2> QED
    BY <2>1, <2>2, SmallLen
<1> QED
  BY <1>1, <1>2, <1>3, <1>4, <1>5

-----------------------------------------------------------------------------
(* The byte the interface takes next.                                      *)
LEMMA IdleRest ==
  ASSUME cur = NoCmd
  PROVE  Rest = <<>>
BY DEF Rest, RestOf

LEMMA BeginByte ==
  ASSUME LinkTypes, LinkInv, hci.st \in {"off", "decode"}, rx # <<>>
  PROVE  /\ cur = NoCmd /\ sent # <<>> /\ IsCommand(sent[1]) /\ Head(sent) = sent[1]
         /\ IsQueue(Tail(sent)) /\ Head(rx) = Op[sent[1].op]
         /\ Tail(rx) = <<>> /\ out = RestOf(sent[1], 1) \o WireOf(Tail(sent))
         /\ back = <<>> /\ tx = <<>> /\ Produced = 0
<1>1. cur = NoCmd
  BY DEF LinkInv, WorkOK
<1>2. /\ rx \in Seq(Octet) /\ Len(rx) <= 1 /\ out \in Seq(Octet)
  BY DEF LinkTypes, HwTypes
<1>3. IsQueue(sent) /\ rx \o out = Rest \o WireOf(sent)
  BY DEF LinkInv, StreamOK
<1>4. WireOf(sent) \in Seq(Octet)
  BY <1>3, WireBytes
<1>5. rx \o out = WireOf(sent)
  BY <1>1, <1>3, <1>4, IdleRest, ConcatEmptySeq
<1>6. rx \o out # <<>> /\ Head(rx) = (rx \o out)[1] /\ Tail(rx) \o out = Tail(rx \o out) /\ Tail(rx) = <<>>
  BY <1>2, TakeByte
<1>7. sent # <<>>
  BY <1>5, <1>6 DEF WireOf
<1>8. /\ Head(sent) = sent[1] /\ IsCommand(sent[1]) /\ IsQueue(Tail(sent))
      /\ WireOf(sent) = P(sent[1]) \o WireOf(Tail(sent))
  BY <1>3, <1>7, QueueTail
<1>9. PICK p, w : p = P(sent[1]) /\ w = WireOf(Tail(sent)) /\ w \in Seq(Octet)
  BY <1>8, WireBytes
<1>10. p \in Seq(Octet) /\ p # <<>> /\ p[1] = Op[sent[1].op] /\ 1 <= Len(p) /\ Len(p) \in Nat
  BY <1>8, <1>9, PacketShape
<1>11. (p \o w)[1] = p[1] /\ Tail(p \o w) = Tail(p) \o w
  BY <1>9, <1>10, TailJoin
<1>12. Tail(p) = SubSeq(p, 2, Len(p))
  <2>1. SubSeq(p, 1, Len(p)) = p
    BY <1>10, SubSeqFull
  <2>2. Tail(SubSeq(p, 0 + 1, Len(p))) = SubSeq(p, 0 + 2, Len(p))
    <3>1. 0 \in Nat /\ 0 < Len(p)
      BY <1>10
    <3> QED
      BY <1>10, <3>1, RestStep
  <2> QED
    BY <2>1, <2>2
<1>13. RestOf(sent[1], 1) = Tail(p)
  <2>1. sent[1] # NoCmd
    BY <1>8, CommandParts
  <2> QED
    BY <1>9, <1>12, <2>1 DEF RestOf
<1>14. Tail(rx) \o out = out
  BY <1>2, <1>6, ConcatEmptySeq
<1>15. back = <<>> /\ tx = <<>>
  BY <1>7 DEF LinkInv, AnswerOK
<1>16. Produced = 0
  BY DEF Produced
<1> QED
  BY <1>1, <1>5, <1>6, <1>7, <1>8, <1>9, <1>10, <1>11, <1>13, <1>14, <1>15, <1>16

LEMMA WorkByte ==
  ASSUME LinkTypes, LinkInv, rx # <<>>, cur # NoCmd, Consumed \in Nat, Consumed < Len(P(cur))
  PROVE  /\ Head(rx) = P(cur)[Consumed + 1] /\ Head(rx) \in Octet /\ Tail(rx) = <<>>
         /\ out = RestOf(cur, Consumed + 1) \o WireOf(sent)
<1>1. IsCommand(cur)
  BY DEF LinkInv, WorkOK
<1>2. rx \in Seq(Octet) /\ Len(rx) <= 1 /\ out \in Seq(Octet)
  BY DEF LinkTypes, HwTypes
<1>3. IsQueue(sent) /\ rx \o out = Rest \o WireOf(sent)
  BY DEF LinkInv, StreamOK
<1>4. PICK p, w, k : p = P(cur) /\ w = WireOf(sent) /\ k = Consumed /\ w \in Seq(Octet)
  BY <1>3, WireBytes
<1>5. p \in Seq(Octet) /\ k \in Nat /\ k < Len(p)
  BY <1>1, <1>4, PacketShape
<1>6. PICK r : r = SubSeq(p, k + 1, Len(p))
  OBVIOUS
<1>7. r \in Seq(Octet) /\ r # <<>> /\ r[1] = p[k + 1] /\ Tail(r) = SubSeq(p, k + 2, Len(p))
  BY <1>5, <1>6, RestStep
<1>8. Rest = r
  BY <1>4, <1>6 DEF Rest, RestOf
<1>9. RestOf(cur, k + 1) = Tail(r)
  <2>1. RestOf(cur, k + 1) = SubSeq(p, (k + 1) + 1, Len(p))
    BY <1>4 DEF RestOf
  <2>2. (k + 1) + 1 = k + 2
    BY <1>5
  <2> QED
    BY <1>7, <2>1, <2>2
<1>10. rx \o out # <<>> /\ Head(rx) = (rx \o out)[1] /\ Tail(rx) \o out = Tail(rx \o out)
       /\ Tail(rx) = <<>> /\ Head(rx) \in Octet
  BY <1>2, TakeByte
<1>11. (r \o w)[1] = r[1] /\ Tail(r \o w) = Tail(r) \o w
  BY <1>4, <1>7, TailJoin
<1>12. Tail(rx) \o out = out
  BY <1>2, <1>10, ConcatEmptySeq
<1> QED
  BY <1>3, <1>4, <1>7, <1>8, <1>9, <1>10, <1>11, <1>12

-----------------------------------------------------------------------------
(* The frame of a step of the interface.                                   *)
LEMMA History ==
  ASSUME HciAction, ~broken
  PROVE  /\ out' = out /\ back' = back /\ app' = app /\ job' = job /\ buf' = buf /\ shown' = shown
         /\ tally' = tally /\ held' = held /\ calls' = calls /\ faults' = faults /\ broken' = broken
         /\ hci.st \in {"off", "decode"} /\ sent # <<>> =>
              /\ sent' = Tail(sent)
              /\ cur' = IF hci'.st \in {"off", "decode"} THEN NoCmd ELSE Head(sent)
         /\ hci.st \notin {"off", "decode"} =>
              /\ sent' = sent
              /\ cur' = IF hci'.st \in {"off", "decode"} THEN NoCmd ELSE cur
<1>1. /\ out' = out /\ back' = back /\ app' = app /\ job' = job /\ buf' = buf /\ shown' = shown
      /\ tally' = tally /\ held' = held /\ calls' = calls /\ faults' = faults /\ broken' = broken
  BY DEF HciAction, hostVars
<1>2. hci.st \in {"off", "decode"} /\ sent # <<>> =>
              /\ sent' = Tail(sent)
              /\ cur' = IF hci'.st \in {"off", "decode"} THEN NoCmd ELSE Head(sent)
  BY DEF HciAction
<1>3. hci.st \notin {"off", "decode"} =>
              /\ sent' = sent
              /\ cur' = IF hci'.st \in {"off", "decode"} THEN NoCmd ELSE cur
  BY DEF HciAction
<1> QED
  BY <1>1, <1>2, <1>3

LEMMA IdleNext ==
  ASSUME hci'.st \in {"off", "decode"}, cur' = NoCmd, rx' = <<>>, IsQueue(sent'), out' = WireOf(sent'),
         out' \in Seq(Octet)
  PROVE  StreamOK' /\ WorkOK'
<1>1. WorkOK'
  BY DEF WorkOK
<1>2. Rest' = <<>>
  BY DEF Rest, RestOf
<1>3. rx' \o out' = Rest' \o WireOf(sent')
  BY <1>2
<1>4. ~(rx' # <<>> /\ hci'.st = "echo")
  OBVIOUS
<1> QED
  BY <1>1, <1>3, <1>4 DEF StreamOK

LEMMA BusyNext ==
  ASSUME rx' = <<>>, IsQueue(sent'), out' = Rest' \o WireOf(sent'), Rest' \in Seq(Octet)
  PROVE  StreamOK'
<1>1. WireOf(sent') \in Seq(Octet)
  BY WireBytes
<1>2. PICK r, w : r = Rest' /\ w = WireOf(sent') /\ r \in Seq(Octet) /\ w \in Seq(Octet)
  BY <1>1
<1>3. rx' \o out' = r \o w
  <2>1. r \o w \in Seq(Octet)
    BY <1>2, ConcatProperties
  <2> QED
    BY <1>2, <2>1, ConcatEmptySeq
<1> QED
  BY <1>2, <1>3 DEF StreamOK

-----------------------------------------------------------------------------
(* Arms of the interface, as steps of the session.                         *)
LEMMA PlainRest ==
  ASSUME NEW c, IsCommand(c), c.op \in {"DbgHlt", "DbgRun", "QueryHlt", "PpuDisable"},
         NEW s, IsQueue(s)
  PROVE  RestOf(c, 1) \o WireOf(s) = WireOf(s) /\ RestOf(c, 1) = <<>> /\ WireOf(s) \in Seq(Octet)
<1>1. PICK p : p = P(c) /\ p \in Seq(Octet) /\ Len(p) = 1
  BY PlainShape
<1>2. SubSeq(p, Len(p) + 1, Len(p)) = <<>>
  BY <1>1, RestEnd
<1>3. RestOf(c, 1) = <<>>
  BY <1>1, <1>2 DEF RestOf
<1>4. WireOf(s) \in Seq(Octet)
  BY WireBytes
<1> QED
  BY <1>3, <1>4, ConcatEmptySeq

LEMMA AtOnceNext ==
  ASSUME LinkTypes, LinkInv, ~broken, HciAction, hci.st \in {"off", "decode"}, rx # <<>>,
         rx' = Tail(rx), hci'.st \in {"off", "decode"},
         sent[1].op \in {"DbgHlt", "DbgRun", "QueryHlt"}, nes.halted \/ sent[1].op \in Breaks,
         nes' = Effect(sent[1], nes), tx' = Answer(sent[1], nes)
  PROVE  StreamOK' /\ WorkOK' /\ AtOnce
<1>1. /\ cur = NoCmd /\ sent # <<>> /\ IsCommand(sent[1]) /\ Head(sent) = sent[1]
      /\ IsQueue(Tail(sent)) /\ Tail(rx) = <<>> /\ out = RestOf(sent[1], 1) \o WireOf(Tail(sent))
      /\ back = <<>> /\ tx = <<>>
  BY BeginByte
<1>2. sent' = Tail(sent) /\ cur' = NoCmd /\ out' = out
  BY <1>1, History
<1>3. out' = WireOf(sent') /\ out' \in Seq(Octet)
  BY <1>1, <1>2, PlainRest
<1>4. StreamOK' /\ WorkOK'
  BY <1>1, <1>2, <1>3, IdleNext
<1>5. AtOnce
  BY <1>1, <1>2 DEF AtOnce
<1> QED
  BY <1>4, <1>5

LEMMA DisabledStep ==
  ASSUME LinkTypes, LinkInv, ~broken, HciAction, S_DISABLED
  PROVE  StreamOK' /\ WorkOK' /\ AtOnce
<1>1. /\ hci.st = "off" /\ rx # <<>> /\ rx' = Tail(rx)
      /\ tx' = IF Head(rx) = 7 THEN Push(tx, 0) ELSE tx
      /\ Head(rx) = 3 => hci' = Decoding /\ nes' = [nes EXCEPT !.halted = TRUE]
      /\ Head(rx) # 3 => hci' = hci /\ nes' = nes
  BY OpCodes DEF S_DISABLED
<1>2. sent # <<>> /\ Head(rx) = Op[sent[1].op] /\ IsCommand(sent[1]) /\ tx = <<>>
  BY <1>1, BeginByte
<1>3. ~nes.halted /\ IsHci(hci) /\ IsMachine(nes)
  BY <1>1, MachOf DEF LinkTypes, HwTypes
<1>4. sent[1].op \in Breaks
  BY <1>2, <1>3 DEF LinkInv, HaltOK
<1>5. CASE sent[1].op = "DbgHlt"
  <2>1. Head(rx) = 3
    BY <1>2, <1>5, OpCodes
  <2>2. hci'.st = "decode" /\ nes' = Effect(sent[1], nes)
    BY <1>1, <1>3, <1>5, <2>1, DecodingIs, EffectHalt
  <2>3. tx' = Answer(sent[1], nes)
    BY <1>1, <1>2, <1>5, <2>1, AnswerParts
  <2> QED
    BY <1>1, <1>4, <1>5, <2>2, <2>3, AtOnceNext
<1>6. CASE sent[1].op = "QueryHlt"
  <2>1. Head(rx) = 7
    BY <1>2, <1>6, OpCodes
  <2>2. hci'.st = "off" /\ nes' = Effect(sent[1], nes)
    BY <1>1, <1>6, <2>1, EffectQuery
  <2>3. tx' = Answer(sent[1], nes)
    BY <1>1, <1>2, <1>3, <1>6, <2>1, AnswerParts, PushFirst
  <2> QED
    BY <1>1, <1>4, <1>6, <2>2, <2>3, AtOnceNext
<1> QED
  BY <1>4, <1>5, <1>6 DEF Breaks

LEMMA BeginsNext ==
  ASSUME LinkTypes, LinkInv, ~broken, HciAction, hci.st = "decode", rx # <<>>,
         rx' = Tail(rx), hci'.st \in {"args", "ppu"}, nes' = nes, tx' = tx,
         sent[1].op \notin {"DbgHlt", "DbgRun", "QueryHlt"}, nes.halted,
         hci'.st = "args" => hci'.args = <<>> /\ hci'.op = Op[sent[1].op],
         hci'.st = "ppu" => sent[1].op = "PpuDisable"
  PROVE  StreamOK' /\ WorkOK' /\ Begins
<1>1. /\ cur = NoCmd /\ sent # <<>> /\ IsCommand(sent[1]) /\ Head(sent) = sent[1]
      /\ IsQueue(Tail(sent)) /\ Tail(rx) = <<>> /\ out = RestOf(sent[1], 1) \o WireOf(Tail(sent))
      /\ back = <<>> /\ tx = <<>>
  BY BeginByte
<1>2. sent' = Tail(sent) /\ cur' = sent[1] /\ out' = out
  BY <1>1, History
<1>3. cur' # NoCmd /\ IsCommand(cur')
  BY <1>1, <1>2, CommandParts
<1>4. PICK c, p : c = sent[1] /\ p = P(c) /\ p \in Seq(Octet) /\ Len(p) \in Nat \ {0} /\ IsCommand(c)
  BY <1>1, PacketShape
<1>5. RestOf(c, 1) \in Seq(Octet)
  <2>1. CASE 1 < Len(p)
    <3>1. SubSeq(p, 1 + 1, Len(p)) \in Seq(Octet)
      BY <1>4, <2>1, RestStep
    <3> QED
      BY <1>4, <3>1, Zeros DEF RestOf
  <2>2. CASE Len(p) = 1
    <3>1. SubSeq(p, Len(p) + 1, Len(p)) = <<>>
      BY <1>4, RestEnd
    <3> QED
      BY <1>4, <2>2, <3>1, Zeros DEF RestOf
  <2>3. 1 < Len(p) \/ Len(p) = 1
    <3>1. PICK n : n = Len(p) /\ n \in Nat \ {0}
      BY <1>4, Zenon
    <3>2. 1 < n \/ n = 1
      BY <3>1, SMT
    <3> QED
      BY <3>1, <3>2
  <2> QED
    BY <2>1, <2>2, <2>3
<1>6. Rest' = RestOf(c, 1)
  <2>1. CASE hci'.st = "args"
    <3>1. Consumed' = 1
      BY <2>1, SmallLen DEF Consumed
    <3> QED
      BY <1>2, <1>4, <3>1 DEF Rest
  <2>2. CASE hci'.st = "ppu"
    <3>1. Consumed' = Len(P(c))
      BY <1>2, <1>4, <2>2 DEF Consumed
    <3>2. Len(P(c)) = 1
      BY <1>4, <2>2, PlainShape
    <3> QED
      BY <1>2, <1>4, <3>1, <3>2 DEF Rest
  <2> QED
    BY <2>1, <2>2
<1>7. StreamOK'
  BY <1>1, <1>2, <1>4, <1>5, <1>6, BusyNext
<1>8. WorkOK'
  <2>1. hci'.st \notin {"off", "decode", "err", "echo", "read", "write"}
    OBVIOUS
  <2>2. hci'.st = "args" =>
          /\ hci'.op = Op[cur'.op] /\ hci'.args = SubSeq(P(cur'), 2, 1 + Len(hci'.args))
          /\ \A i \in 1 .. Len(hci'.args) : nes'.cfg[5 - Len(hci'.args) + i] = cur'.data[i]
    <3> SUFFICES ASSUME hci'.st = "args"
                 PROVE  /\ hci'.op = Op[cur'.op] /\ hci'.args = SubSeq(P(cur'), 2, 1 + Len(hci'.args))
                        /\ \A i \in 1 .. Len(hci'.args) : nes'.cfg[5 - Len(hci'.args) + i] = cur'.data[i]
      OBVIOUS
    <3>1. hci'.args = <<>> /\ Len(hci'.args) = 0
      BY SmallLen
    <3>2. SubSeq(p, 2, 1) = <<>>
      BY <1>4, SubSeqEmpty
    <3>3. hci'.op = Op[cur'.op]
      BY <1>2
    <3> QED
      BY <1>2, <1>4, <3>1, <3>2, <3>3
  <2>3. hci'.st = "ppu" => cur'.op = "PpuDisable"
    BY <1>2
  <2> QED
    BY <1>3, <2>1, <2>2, <2>3 DEF WorkOK
<1>9. Produced' = 0
  BY DEF Produced
<1>10. Begins
  BY <1>1, <1>2, <1>9 DEF Begins
<1> QED
  BY <1>7, <1>8, <1>10

LEMMA DecodeStep ==
  ASSUME LinkTypes, LinkInv, ~broken, HciAction, S_DECODE
  PROVE  StreamOK' /\ WorkOK' /\ (AtOnce \/ Begins)
<1>0. HwTypes /\ IsHci(hci) /\ IsMachine(nes)
  BY DEF LinkTypes, HwTypes
<1>1. /\ rx # <<>> /\ rx' = Tail(rx) /\ hci.st = "decode" /\ hci.args = <<>> /\ nes.halted
      /\ nes' = [nes EXCEPT !.halted = Head(rx) # 4] /\ (Head(rx) # 4 => nes' = nes)
      /\ tx' = IF Head(rx) = 7 THEN Push(tx, 1) ELSE tx
      /\ Head(rx) = 4 => hci' = SetSt(hci, "off")
      /\ Head(rx) = 11 => hci' = SetSt(hci, "ppu")
      /\ Args(Head(rx)) > 0 => hci' = SetStOp(hci, "args", Head(rx))
      /\ Head(rx) \in {3, 7} => hci' = hci
  BY <1>0, DecodeShape
<1>2. sent # <<>> /\ Head(rx) = Op[sent[1].op] /\ IsCommand(sent[1]) /\ tx = <<>>
  BY <1>1, BeginByte
<1>3. PICK c, b : c = sent[1] /\ b = Head(rx) /\ b = Op[c.op] /\ IsCommand(c)
  BY <1>2
<1>4. CASE c.op = "DbgHlt"
  <2>1. b = 3
    BY <1>3, <1>4, OpCodes
  <2>2. hci'.st = "decode" /\ nes' = nes /\ tx' = tx
    BY <1>1, <1>3, <2>1
  <2>3. Effect(c, nes) = nes
    <3>1. PICK t \in BOOLEAN : t = TRUE
      OBVIOUS
    <3>2. [nes EXCEPT !.halted = t] = nes
      BY <1>0, <1>1, <3>1, WithHalted
    <3>3. Effect(c, nes) = [nes EXCEPT !.halted = TRUE]
      BY <1>4, EffectHalt
    <3> QED
      BY <3>1, <3>2, <3>3
  <2>4. tx' = Answer(c, nes)
    BY <1>2, <1>4, <2>2, AnswerParts
  <2> QED
    BY <1>1, <1>3, <1>4, <2>2, <2>3, <2>4, AtOnceNext
<1>5. CASE c.op = "DbgRun"
  <2>1. b = 4
    BY <1>3, <1>5, OpCodes
  <2>2. hci'.st = "off" /\ tx' = tx
    BY <1>0, <1>1, <1>3, <2>1, SetStIs
  <2>3. nes' = [nes EXCEPT !.halted = FALSE]
    BY <1>1, <1>3, <2>1
  <2>4. Effect(c, nes) = nes'
    <3>1. nes.halted
      BY <1>1
    <3>2. Effect(c, nes) = [nes EXCEPT !.halted = FALSE]
      BY <1>5, <3>1, EffectHalted, Zenon
    <3> QED
      BY <2>3, <3>2
  <2>5. tx' = Answer(c, nes)
    BY <1>2, <1>5, <2>2, AnswerParts
  <2> QED
    BY <1>1, <1>3, <1>5, <2>2, <2>4, <2>5, AtOnceNext
<1>6. CASE c.op = "QueryHlt"
  <2>1. b = 7
    BY <1>3, <1>6, OpCodes
  <2>2. hci'.st = "decode" /\ nes' = nes /\ tx' = <<1>>
    BY <1>1, <1>2, <1>3, <2>1, PushFirst
  <2>3. Effect(c, nes) = nes
    BY <1>6, EffectQuery
  <2>4. tx' = Answer(c, nes)
    BY <1>1, <1>6, <2>2, AnswerParts
  <2> QED
    BY <1>1, <1>3, <1>6, <2>2, <2>3, <2>4, AtOnceNext
<1>7. CASE c.op = "PpuDisable"
  <2>1. b = 11
    BY <1>3, <1>7, OpCodes
  <2>2. hci'.st = "ppu" /\ nes' = nes /\ tx' = tx
    BY <1>0, <1>1, <1>3, <2>1, SetStIs
  <2> QED
    BY <1>1, <1>3, <1>7, <2>2, BeginsNext
<1>8. CASE c.op \notin {"DbgHlt", "DbgRun", "QueryHlt", "PpuDisable"}
  <2>1. b \notin {3, 4, 7, 8, 11} /\ Args(b) > 0 /\ b \in Octet
    <3>1. c.op \in {"Echo", "CpuMemRd", "CpuMemWr", "CpuRegRd", "CpuRegWr", "PpuMemRd", "PpuMemWr", "CartSetCfg"}
      BY <1>3, <1>8, CommandParts
    <3>2. b \in {0, 1, 2, 5, 6, 9, 10, 12}
      BY <1>3, <3>1, OpCodes
    <3>3. b \in Octet
      BY <3>2 DEF Octet, BYTE
    <3> QED
      BY <3>2, <3>3, ArgsOf
  <2>2. hci' = SetStOp(hci, "args", b) /\ nes' = nes /\ tx' = tx
    BY <1>1, <1>3, <2>1
  <2>3. hci' = Regs("args", b, <<>>, hci.n, hci.addr, hci.err)
    BY <1>0, <1>1, <2>1, <2>2, SetStOpIs
  <2>4. hci'.st = "args" /\ hci'.args = <<>> /\ hci'.op = b
    BY <2>3, RegsFields
  <2> QED
    BY <1>1, <1>3, <1>8, <2>2, <2>4, BeginsNext
<1> QED
  BY <1>4, <1>5, <1>6, <1>7, <1>8

LEMMA WorkNow ==
  ASSUME LinkTypes, LinkInv, hci.st \notin {"off", "decode"}
  PROVE  /\ cur # NoCmd /\ IsCommand(cur) /\ nes.halted /\ IsMachine(nes) /\ IsHci(hci)
         /\ hci.st \in {"args", "echo", "read", "write", "ppu"} /\ HwTypes
         /\ IsQueue(sent) /\ tx \in Seq(Octet) /\ Len(tx) \in Nat
<1>1. IsMachine(nes) /\ IsHci(hci) /\ HwTypes /\ nes.halted /\ tx \in Seq(Octet)
  BY DEF LinkTypes, HwTypes
<1>2. cur # NoCmd /\ IsCommand(cur) /\ hci.st # "err"
  BY DEF LinkInv, WorkOK
<1>3. IsQueue(sent)
  BY DEF LinkInv, StreamOK
<1>4. hci.st \in {"args", "echo", "read", "write", "ppu"}
  BY <1>1, <1>2, RegsOf
<1>5. Len(tx) \in Nat
  BY <1>1
<1> QED
  BY <1>1, <1>2, <1>3, <1>4, <1>5

(* The last byte of a packet.                                              *)
LEMMA EndsNext ==
  ASSUME LinkTypes, LinkInv, ~broken, HciAction, hci.st \in {"args", "echo", "write"}, rx # <<>>,
         rx' = Tail(rx), hci'.st = "decode", Consumed \in Nat, Consumed + 1 = Len(P(cur))
  PROVE  StreamOK' /\ WorkOK' /\ cur' = NoCmd /\ sent' = sent
<1>1. cur # NoCmd /\ IsCommand(cur) /\ IsQueue(sent)
  BY WorkNow
<1>2. sent' = sent /\ cur' = NoCmd /\ out' = out
  BY History
<1>3. PICK k : k = Consumed /\ k \in Nat /\ k + 1 = Len(P(cur))
  OBVIOUS
<1>4. PICK p : p = P(cur) /\ p \in Seq(Octet) /\ Len(p) = k + 1
  BY <1>1, <1>3, PacketShape
<1>5. Tail(rx) = <<>> /\ out = RestOf(cur, k + 1) \o WireOf(sent)
  <2>1. k < Len(P(cur))
    BY <1>3
  <2> QED
    BY <1>1, <1>3, <2>1, WorkByte
<1>6. RestOf(cur, k + 1) = <<>>
  <2>1. SubSeq(p, Len(p) + 1, Len(p)) = <<>>
    BY <1>4, RestEnd
  <2> QED
    BY <1>1, <1>4, <2>1 DEF RestOf
<1>7. WireOf(sent) \in Seq(Octet)
  BY <1>1, WireBytes
<1>8. out' = WireOf(sent') /\ out' \in Seq(Octet)
  BY <1>2, <1>5, <1>6, <1>7, ConcatEmptySeq
<1> QED
  BY <1>1, <1>2, <1>5, <1>8, IdleNext

(* Another one.                                                            *)
LEMMA GoesNext ==
  ASSUME LinkTypes, LinkInv, ~broken, HciAction, hci.st \in {"args", "echo", "write"}, rx # <<>>,
         rx' = Tail(rx), hci'.st \notin {"off", "decode"}, Consumed \in Nat,
         Consumed < Len(P(cur)), cur' = cur => Consumed' = Consumed + 1
  PROVE  StreamOK' /\ cur' = cur /\ sent' = sent
<1>1. cur # NoCmd /\ IsCommand(cur) /\ IsQueue(sent)
  BY WorkNow
<1>2. sent' = sent /\ cur' = cur /\ out' = out
  BY History
<1>3. PICK k, p : k = Consumed /\ k \in Nat /\ p = P(cur) /\ p \in Seq(Octet) /\ k < Len(p)
  BY <1>1, PacketShape
<1>4. Tail(rx) = <<>> /\ out = RestOf(cur, k + 1) \o WireOf(sent)
  BY <1>1, <1>3, WorkByte
<1>5. Rest' = RestOf(cur, k + 1)
  BY <1>2, <1>3 DEF Rest
<1>6. RestOf(cur, k + 1) \in Seq(Octet)
  <2>1. CASE k + 1 < Len(p)
    <3>1. SubSeq(p, (k + 1) + 1, Len(p)) \in Seq(Octet)
      BY <1>3, <2>1, RestStep
    <3> QED
      BY <1>1, <1>3, <3>1 DEF RestOf
  <2>2. CASE k + 1 = Len(p)
    <3>1. SubSeq(p, Len(p) + 1, Len(p)) = <<>>
      BY <1>3, RestEnd
    <3> QED
      BY <1>1, <1>3, <2>2, <3>1, Zeros DEF RestOf
  <2>3. PICK n : n = Len(p) /\ n \in Nat
    BY <1>3
  <2>4. k + 1 < n \/ k + 1 = n
    BY <1>3, <2>3
  <2> QED
    BY <2>1, <2>2, <2>3, <2>4
<1> QED
  BY <1>1, <1>2, <1>4, <1>5, <1>6, BusyNext

-----------------------------------------------------------------------------
LEMMA EchoStep ==
  ASSUME LinkTypes, LinkInv, ~broken, HciAction, S_ECHO_STG_1
  PROVE  StreamOK' /\ WorkOK' /\ (GoesOn \/ Finishes)
<1>1. /\ hci.st = "echo" /\ rx # <<>> /\ rx' = Tail(rx) /\ tx' = Push(tx, Head(rx))
      /\ hci' = Count /\ nes' = nes
  BY DEF S_ECHO_STG_1
<1>2. cur # NoCmd /\ IsCommand(cur) /\ nes.halted /\ IsMachine(nes) /\ IsHci(hci) /\ tx \in Seq(Octet)
  BY <1>1, WorkNow
<1>3. cur.op = "Echo" /\ hci.n \in 1 .. Len(cur.data) /\ Len(tx) < FIFO
  BY <1>1 DEF LinkInv, WorkOK, StreamOK
<1>4. PICK n, L, p : /\ n = hci.n /\ L = Len(cur.data) /\ p = P(cur) /\ p \in Seq(Octet)
                     /\ n \in 1 .. L /\ L \in Nat /\ Len(p) = 3 + L
  BY <1>2, <1>3, EchoShape, CommandParts, SMTT(20)
<1>5. Consumed = Len(p) - n /\ Produced = L - n
  BY <1>1, <1>4 DEF Consumed, Produced
<1>6. Consumed \in Nat /\ Consumed < Len(p) /\ Consumed + 1 = 3 + (L - n + 1) /\ L - n + 1 \in 1 .. L
  <2>1. Consumed = (3 + L) - n /\ n \in 1 .. L /\ L \in Nat /\ Len(p) = 3 + L
    BY <1>4, <1>5, Zenon
  <2> HIDE <1>4, <1>5
  <2> QED
    BY <2>1
<1>7. Head(rx) = cur.data[L - n + 1] /\ Head(rx) \in Octet
  <2>1. Head(rx) = p[3 + (L - n + 1)] /\ Head(rx) \in Octet
    BY <1>1, <1>2, <1>4, <1>6, WorkByte
  <2>2. PICK j : j = L - n + 1 /\ j \in 1 .. L
    BY <1>6
  <2>3. p[3 + j] = cur.data[j]
    BY <1>2, <1>3, <1>4, <2>2, EchoShape
  <2> QED
    BY <2>1, <2>2, <2>3
<1>8. Answer(cur, nes) = cur.data /\ Effect(cur, nes) = nes
  BY <1>2, <1>3, AnswerParts, EffectQuery
<1>9. Yields
  <2>1. Produced < L /\ Produced + 1 = L - n + 1
    BY <1>4, <1>5
  <2>2. tx' = Append(tx, Head(rx))
    BY <1>1, <1>3 DEF Push
  <2> QED
    BY <1>4, <1>7, <1>8, <2>1, <2>2 DEF Yields
<1>10. CASE n = 1
  <2>1. hci'.st = "decode"
    BY <1>1, <1>2, <1>4, <1>10, CountIs, DecodingIs
  <2>2. Consumed + 1 = Len(p) /\ Produced + 1 = L
    BY <1>4, <1>5, <1>10
  <2>3. StreamOK' /\ WorkOK' /\ cur' = NoCmd /\ sent' = sent
    BY <1>1, <1>4, <1>6, <2>1, <2>2, EndsNext
  <2>4. Finishes
    BY <1>1, <1>2, <1>4, <1>8, <1>9, <2>2, <2>3 DEF Finishes
  <2> QED
    BY <2>3, <2>4
<1>11. CASE n # 1
  <2>1. hci' = Regs("echo", hci.op, <<>>, n - 1, (hci.addr + 1) % WORD, hci.err)
    BY <1>1, <1>2, <1>4, <1>11, CountIs
  <2>2. hci'.st = "echo" /\ hci'.n = n - 1
    BY <2>1, RegsFields
  <2>3. cur' = cur => Consumed' = Consumed + 1
    <3>1. cur' = cur => Consumed' = Len(p) - (n - 1)
      BY <1>4, <2>2 DEF Consumed
    <3>2. PICK q : q = Len(p) /\ q \in Int /\ n \in Int /\ Consumed = q - n
      BY <1>4, <1>5
    <3>3. q - (n - 1) = (q - n) + 1
      BY <3>2, SMT
    <3> QED
      BY <3>1, <3>2, <3>3
  <2>4. StreamOK' /\ cur' = cur /\ sent' = sent
    BY <1>1, <1>4, <1>6, <2>2, <2>3, GoesNext
  <2>5. n - 1 \in 1 .. L
    BY <1>4, <1>11
  <2>6. WorkOK'
    BY <1>2, <1>3, <1>4, <2>2, <2>4, <2>5 DEF WorkOK
  <2>7. Produced' = Produced + 1
    <3>1. Produced' = L - (n - 1)
      BY <1>4, <2>2, <2>4 DEF Produced
    <3>2. L - (n - 1) = (L - n) + 1
      BY <1>4
    <3> QED
      BY <1>5, <3>1, <3>2, Zenon
  <2>8. GoesOn
    BY <1>1, <1>2, <1>9, <2>4, <2>7 DEF GoesOn
  <2> QED
    BY <2>4, <2>6, <2>8
<1> QED
  BY <1>10, <1>11

LEMMA Distance ==
  ASSUME NEW a \in Word, NEW l \in Int, NEW n \in Int
  PROVE  (a + l - n) % WORD = Cell(a, l - n + 1)
<1>1. a \in Int
  BY WordIs
<1>2. a + l - n = a + (l - n + 1) - 1
  BY <1>1
<1> QED
  BY <1>2 DEF Cell

LEMMA ReadStep ==
  ASSUME LinkTypes, LinkInv, ~broken, HciAction, S_MEM_RD_STG_1
  PROVE  StreamOK' /\ WorkOK' /\ (GoesOn \/ Finishes)
<1>1. /\ hci.st = "read" /\ Len(tx) < FIFO /\ hci' = Count /\ rx' = rx /\ nes' = nes
      /\ tx' = Push(tx, Read(IF hci.op = 1 THEN nes.mem ELSE nes.vram, hci.addr))
  BY OpCodes DEF S_MEM_RD_STG_1
<1>2. cur # NoCmd /\ IsCommand(cur) /\ nes.halted /\ IsMachine(nes) /\ IsHci(hci) /\ tx \in Seq(Octet)
      /\ IsQueue(sent)
  BY <1>1, WorkNow
<1>3. /\ cur.op \in {"CpuMemRd", "PpuMemRd"} /\ hci.op = Op[cur.op] /\ hci.n \in 1 .. cur.n
      /\ hci.addr = (cur.addr + cur.n - hci.n) % WORD
  BY <1>1 DEF LinkInv, WorkOK
<1>4. PICK n, N, a : /\ n = hci.n /\ N = cur.n /\ a = cur.addr /\ a \in Word /\ N \in Nat /\ n \in 1 .. N
                     /\ N \in Int /\ n \in Int /\ N <= WORD
  <2>1. cur.n \in Word /\ cur.addr \in Word
    BY <1>2, CommandParts
  <2>2. cur.n \in Nat
    BY <2>1, WordIs, SMT
  <2>3. cur.n \in Int /\ hci.n \in Int
    BY <1>3, <2>2
  <2>4. cur.n <= WORD
    BY <2>1, WordInt DEF Word
  <2> QED
    BY <1>3, <2>1, <2>2, <2>3, <2>4, Zenon
<1>5. PICK j : j = N - n + 1 /\ j \in 1 .. N /\ j \in Int
  BY <1>4
<1>6. hci.addr = Cell(a, j)
  BY <1>3, <1>4, <1>5, Distance, Zenon
<1>7. Produced = N - n /\ Produced + 1 = j /\ Produced < N
  <2>1. Produced = N - n
    BY <1>1, <1>4 DEF Produced
  <2> QED
    BY <1>4, <1>5, <2>1
<1>8. /\ Len(Answer(cur, nes)) = N /\ Effect(cur, nes) = nes
      /\ Answer(cur, nes)[j] = Read(IF cur.op = "CpuMemRd" THEN nes.mem ELSE nes.vram, Cell(a, j))
  <2>1. Effect(cur, nes) = nes
    BY <1>3, EffectQuery
  <2> QED
    <3>1. /\ Len(Answer(cur, nes)) = cur.n
          /\ \A i \in 1 .. cur.n : Answer(cur, nes)[i]
                = Read(IF cur.op = "CpuMemRd" THEN nes.mem ELSE nes.vram, Cell(cur.addr, i))
      BY <1>2, <1>3, AnswerRead
    <3> QED
      BY <1>4, <1>5, <2>1, <3>1, Zenon
<1>9. Yields
  <2>1. (hci.op = 1) <=> (cur.op = "CpuMemRd")
    BY <1>3, OpCodes
  <2>2. tx' = Append(tx, Answer(cur, nes)[j])
    <3>1. tx' = Append(tx, Read(IF hci.op = 1 THEN nes.mem ELSE nes.vram, hci.addr))
      BY <1>1 DEF Push
    <3> QED
      BY <1>6, <1>8, <2>1, <3>1
  <2> QED
    BY <1>7, <1>8, <2>2 DEF Yields
<1>10. sent' = sent /\ out' = out
  BY <1>1, History
<1>11. WireOf(sent) \in Seq(Octet)
  BY <1>2, WireBytes
<1>12. PICK p : p = P(cur) /\ p \in Seq(Octet) /\ Rest = <<>> /\ RestOf(cur, Len(p)) = <<>>
  <2>1. PICK p : p = P(cur) /\ p \in Seq(Octet)
    BY <1>2, PacketShape
  <2>2. SubSeq(p, Len(p) + 1, Len(p)) = <<>>
    BY <2>1, RestEnd
  <2>3. RestOf(cur, Len(p)) = <<>>
    BY <1>2, <2>1, <2>2 DEF RestOf
  <2>4. Consumed = Len(p)
    BY <1>1, <2>1 DEF Consumed
  <2> QED
    BY <2>1, <2>3, <2>4 DEF Rest
<1>13. rx \o out = Rest \o WireOf(sent)
  BY DEF LinkInv, StreamOK
<1>14. CASE n = 1
  <2>1. hci'.st = "decode"
    BY <1>1, <1>2, <1>4, <1>14, CountIs, DecodingIs
  <2>2. cur' = NoCmd
    BY <1>1, <2>1, History
  <2>3. Rest' = <<>>
    BY <2>2 DEF Rest, RestOf
  <2>4. StreamOK'
    BY <1>1, <1>2, <1>10, <1>12, <1>13, <2>1, <2>3 DEF StreamOK
  <2>5. WorkOK'
    BY <2>1, <2>2 DEF WorkOK
  <2>6. Produced + 1 = N
    BY <1>4, <1>5, <1>7, <1>14
  <2>7. Finishes
    BY <1>1, <1>2, <1>8, <1>9, <1>10, <2>2, <2>6 DEF Finishes
  <2> QED
    BY <2>4, <2>5, <2>7
<1>15. CASE n # 1
  <2>1. hci' = Regs("read", hci.op, <<>>, n - 1, (hci.addr + 1) % WORD, hci.err)
    BY <1>1, <1>2, <1>4, <1>15, CountIs
  <2>2. hci'.st = "read" /\ hci'.n = n - 1 /\ hci'.op = hci.op /\ hci'.addr = (hci.addr + 1) % WORD
    BY <2>1, RegsFields
  <2>3. cur' = cur
    BY <1>1, <2>2, History
  <2>4. Rest' = <<>>
    <3>1. Consumed' = Len(p)
      BY <1>12, <2>2, <2>3 DEF Consumed
    <3> QED
      BY <1>12, <2>3, <3>1 DEF Rest
  <2>5. StreamOK'
    BY <1>1, <1>2, <1>10, <1>12, <1>13, <2>2, <2>4 DEF StreamOK
  <2>6. n - 1 \in 1 .. N /\ j + 1 = N - (n - 1) + 1 /\ n - 1 \in Int /\ j + 1 <= N
    BY <1>4, <1>5, <1>15
  <2>7. hci'.addr = (a + N - (n - 1)) % WORD
    <3>1. (a + N - (n - 1)) % WORD = Cell(a, j + 1)
      BY <1>4, <2>6, Distance
    <3>2. j \in 1 .. WORD /\ j + 1 <= WORD
      BY <1>4, <1>5, <2>6, WordInt
    <3>3. (Cell(a, j) + 1) % WORD = Cell(a, j + 1)
      BY <1>4, <3>2, NextCell
    <3> QED
      BY <1>6, <2>2, <3>1, <3>3
  <2>8. WorkOK'
    BY <1>2, <1>3, <1>4, <2>2, <2>3, <2>6, <2>7 DEF WorkOK
  <2>9. Produced' = Produced + 1
    <3>1. Produced' = N - (n - 1)
      BY <1>4, <2>2, <2>3 DEF Produced
    <3> QED
      BY <1>4, <1>7, <3>1
  <2>10. GoesOn
    BY <1>1, <1>2, <1>9, <1>10, <2>3, <2>9 DEF GoesOn
  <2> QED
    BY <2>5, <2>8, <2>10
<1> QED
  BY <1>14, <1>15

LEMMA PpuStep ==
  ASSUME LinkTypes, LinkInv, ~broken, HciAction, S_PPU_DISABLE
  PROVE  StreamOK' /\ WorkOK' /\ Finishes
<1>1. hci.st = "ppu" /\ hci' = Decoding /\ rx' = rx /\ tx' = tx /\ nes' = [nes EXCEPT !.ppu = FALSE]
  BY DEF S_PPU_DISABLE
<1>2. cur # NoCmd /\ IsCommand(cur) /\ nes.halted /\ IsMachine(nes) /\ IsHci(hci) /\ IsQueue(sent)
  BY <1>1, WorkNow
<1>3. cur.op = "PpuDisable"
  BY <1>1 DEF LinkInv, WorkOK
<1>4. hci'.st = "decode"
  BY <1>1, <1>2, DecodingIs
<1>5. sent' = sent /\ out' = out /\ cur' = NoCmd
  BY <1>1, <1>4, History
<1>6. PICK p : p = P(cur) /\ p \in Seq(Octet)
  BY <1>2, PacketShape
<1>7. Rest = <<>>
  <2>1. SubSeq(p, Len(p) + 1, Len(p)) = <<>>
    BY <1>6, RestEnd
  <2>2. Consumed = Len(p)
    BY <1>1, <1>6 DEF Consumed
  <2> QED
    BY <1>2, <1>6, <2>1, <2>2 DEF Rest, RestOf
<1>8. Rest' = <<>>
  BY <1>5 DEF Rest, RestOf
<1>9. rx \o out = Rest \o WireOf(sent)
  BY DEF LinkInv, StreamOK
<1>10. StreamOK'
  BY <1>1, <1>2, <1>4, <1>5, <1>7, <1>8, <1>9 DEF StreamOK
<1>11. WorkOK'
  BY <1>4, <1>5 DEF WorkOK
<1>12. nes' = Effect(cur, nes)
  BY <1>1, <1>2, <1>3, PpuDone
<1>13. nes'.halted
  BY <1>1, <1>2, WithPpu
<1>14. Produced = Len(Answer(cur, nes))
  <2>1. Answer(cur, nes) = <<>>
    BY <1>3, AnswerParts
  <2>2. Produced = 0
    BY <1>1 DEF Produced
  <2> QED
    BY <2>1, <2>2, SmallLen
<1> QED
  BY <1>1, <1>2, <1>5, <1>10, <1>11, <1>12, <1>13, <1>14 DEF Finishes

Placed(m, a, d, k) == \A i \in 1 .. k : Cell(a, i) \in DOMAIN m /\ m[Cell(a, i)] = d[i]

LEMMA PlacesNext ==
  ASSUME NEW m, IsMemory(m), NEW a \in Word, NEW d \in Seq(Octet), Len(d) <= WORD,
         NEW j \in 1 .. Len(d), Placed(m, a, d, j - 1),
         NEW r, r = Put(m, Cell(a, j), <<d[j]>>)
  PROVE  Placed(r, a, d, j)
<1>1. PICK x, b : x = Cell(a, j) /\ b = d[j]
  OBVIOUS
<1>2. j \in 1 .. WORD /\ \A i \in 1 .. Len(d) : i \in 1 .. WORD
  BY UpTo
<1>3. x \in Word /\ b \in Octet
  BY <1>1, <1>2, CellIs, ElementOfSeq
<1>4. r = Put(m, x, <<b>>)
  BY <1>1
<1>5. DOMAIN r = DOMAIN m \cup {x} /\ r[x] = b /\ \A y \in DOMAIN m : y # x => r[y] = m[y]
  <2>1. PICK q : q = Put(m, x, <<b>>)
    OBVIOUS
  <2>2. DOMAIN q = DOMAIN m \cup {x} /\ q[x] = b /\ \A y \in DOMAIN m : y # x => q[y] = m[y]
    <3>1. /\ DOMAIN Put(m, x, <<b>>) = DOMAIN m \cup {x} /\ Put(m, x, <<b>>)[x] = b
          /\ \A y \in DOMAIN m : y # x => Put(m, x, <<b>>)[y] = m[y]
      BY <1>3, PutByte, Zenon
    <3> QED
      BY <2>1, <3>1, Zenon
  <2> QED
    BY <1>4, <2>1, <2>2
<1>6. ASSUME NEW i \in 1 .. j PROVE Cell(a, i) \in DOMAIN r /\ r[Cell(a, i)] = d[i]
  <2>1. CASE i = j
    BY <1>1, <1>5, <2>1
  <2>2. CASE i # j
    <3>1. i \in 1 .. j - 1 /\ i \in 1 .. Len(d)
      BY <2>2
    <3>2. Cell(a, i) \in DOMAIN m /\ m[Cell(a, i)] = d[i]
      BY <3>1 DEF Placed
    <3>3. i \in 1 .. WORD
      BY <1>2, <3>1
    <3>4. Cell(a, i) # x
      BY <1>1, <1>2, <2>2, <3>3, CellsDistinct
    <3> QED
      BY <1>5, <3>2, <3>4
  <2> QED
    BY <2>1, <2>2
<1> QED
  BY <1>6 DEF Placed

LEMMA MemWriteStep ==
  ASSUME LinkTypes, LinkInv, ~broken, HciAction, S_MEM_WR_STG_1
  PROVE  StreamOK' /\ WorkOK' /\ (GoesOn \/ Finishes)
<1>1. /\ hci.st = "write" /\ rx # <<>> /\ rx' = Tail(rx) /\ tx' = tx /\ hci' = Count
      /\ hci.op = 2 => nes' = [nes EXCEPT !.mem = Put(nes.mem, hci.addr, <<Head(rx)>>)]
      /\ hci.op # 2 => nes' = [nes EXCEPT !.vram = Put(nes.vram, hci.addr, <<Head(rx)>>)]
  BY OpCodes DEF S_MEM_WR_STG_1
<1>2. cur # NoCmd /\ IsCommand(cur) /\ nes.halted /\ IsMachine(nes) /\ IsHci(hci) /\ IsQueue(sent)
  BY <1>1, WorkNow
<1>3. /\ cur.op \in {"CpuMemWr", "PpuMemWr"} /\ hci.op = Op[cur.op] /\ hci.n \in 1 .. Len(cur.data)
      /\ hci.addr = (cur.addr + Len(cur.data) - hci.n) % WORD
      /\ Placed(IF cur.op = "CpuMemWr" THEN nes.mem ELSE nes.vram, cur.addr, cur.data, Len(cur.data) - hci.n)
  BY <1>1 DEF LinkInv, WorkOK, Placed, Cell
<1>4. PICK n, L, d, a, p :
        /\ n = hci.n /\ d = cur.data /\ d \in Seq(Octet) /\ L = Len(d) /\ L <= WORD /\ a = cur.addr
        /\ a \in Word /\ p = P(cur) /\ p \in Seq(Octet) /\ n \in 1 .. L /\ L \in Nat /\ Len(p) = 5 + L
        /\ n \in Int /\ L \in Int
  <2>1. /\ cur.addr \in Word /\ cur.data \in Seq(Octet) /\ Len(cur.data) \in Nat /\ Len(cur.data) <= WORD
    BY <1>2, CommandParts
  <2>2. P(cur) \in Seq(Octet) /\ Len(P(cur)) = 5 + Len(cur.data)
    BY <1>2, <1>3, MemWrShape
  <2>3. hci.n \in Int /\ Len(cur.data) \in Int
    BY <1>3, <2>1
  <2> QED
    BY <1>3, <2>1, <2>2, <2>3, Zenon
<1>5. PICK j : j = L - n + 1 /\ j \in 1 .. L /\ j \in Int /\ j - 1 = L - n /\ j \in 1 .. Len(d)
  BY <1>4
<1>6. hci.addr = Cell(a, j)
  BY <1>3, <1>4, <1>5, Distance, Zenon
<1>7. Consumed = (5 + L) - n /\ Produced = 0
  BY <1>1, <1>4, Zenon DEF Consumed, Produced
<1>8. Consumed \in Nat /\ Consumed < 5 + L /\ Consumed + 1 = 5 + j
  <2>1. n \in 1 .. L /\ L \in Nat /\ j = L - n + 1
    BY <1>4, <1>5
  <2> QED
    BY <1>7, <2>1
<1>9. Head(rx) = d[j] /\ d[j] \in Octet
  <2>1. Head(rx) = P(cur)[Consumed + 1]
    BY <1>1, <1>2, <1>4, <1>8, WorkByte
  <2>2. \A i \in 1 .. Len(d) : p[5 + i] = d[i]
    BY <1>2, <1>3, <1>4, MemWrShape
  <2> QED
    BY <1>4, <1>5, <1>8, <2>1, <2>2, ElementOfSeq
<1>10. Answer(cur, nes) = <<>> /\ Answer(cur, nes') = <<>> /\ Produced = Len(Answer(cur, nes))
  <2>1. Answer(cur, nes) = <<>> /\ Answer(cur, nes') = <<>>
    BY <1>3, AnswerParts
  <2> QED
    BY <1>7, <2>1, SmallLen
<1>11. /\ IsMachine(nes') /\ nes'.halted /\ Effect(cur, nes') = Effect(cur, nes)
       /\ Placed(IF cur.op = "CpuMemWr" THEN nes'.mem ELSE nes'.vram, a, d, j)
  <2>1. CASE cur.op = "CpuMemWr"
    <3>1. PICK x : x = Put(nes.mem, Cell(a, j), <<d[j]>>)
      OBVIOUS
    <3>2. nes' = [nes EXCEPT !.mem = x]
      BY <1>1, <1>3, <1>6, <1>9, <2>1, <3>1, OpCodes
    <3>3. /\ IsMemory(x) /\ IsMachine([nes EXCEPT !.mem = x]) /\ [nes EXCEPT !.mem = x].halted
          /\ [nes EXCEPT !.mem = x].mem = x
          /\ Effect(cur, [nes EXCEPT !.mem = x]) = Effect(cur, nes)
      <4>1. j \in 1 .. Len(cur.data) /\ x = Put(nes.mem, Cell(cur.addr, j), <<cur.data[j]>>)
        BY <1>4, <1>5, <3>1
      <4> QED
        BY <1>2, <2>1, <4>1, WriteStep
    <3>4. Placed(nes.mem, a, d, j - 1) /\ IsMemory(nes.mem)
      BY <1>2, <1>3, <1>4, <1>5, <2>1, MachOf
    <3>5. Placed(x, a, d, j)
      BY <1>4, <1>5, <3>1, <3>4, PlacesNext
    <3> QED
      BY <2>1, <3>2, <3>3, <3>5
  <2>2. CASE cur.op = "PpuMemWr"
    <3>1. PICK x : x = Put(nes.vram, Cell(a, j), <<d[j]>>)
      OBVIOUS
    <3>2. nes' = [nes EXCEPT !.vram = x]
      BY <1>1, <1>3, <1>6, <1>9, <2>2, <3>1, OpCodes
    <3>3. /\ IsMemory(x) /\ IsMachine([nes EXCEPT !.vram = x]) /\ [nes EXCEPT !.vram = x].halted
          /\ [nes EXCEPT !.vram = x].vram = x
          /\ Effect(cur, [nes EXCEPT !.vram = x]) = Effect(cur, nes)
      <4>1. j \in 1 .. Len(cur.data) /\ x = Put(nes.vram, Cell(cur.addr, j), <<cur.data[j]>>)
        BY <1>4, <1>5, <3>1
      <4> QED
        BY <1>2, <2>2, <4>1, PpuWriteStep
    <3>4. Placed(nes.vram, a, d, j - 1) /\ IsMemory(nes.vram)
      BY <1>2, <1>3, <1>4, <1>5, <2>2, MachOf
    <3>5. Placed(x, a, d, j)
      BY <1>4, <1>5, <3>1, <3>4, PlacesNext
    <3> QED
      BY <2>2, <3>2, <3>3, <3>5
  <2> QED
    BY <1>3, <2>1, <2>2
<1>12. CASE n = 1
  <2>1. hci'.st = "decode"
    BY <1>1, <1>2, <1>4, <1>12, CountIs, DecodingIs
  <2>2. Consumed + 1 = Len(P(cur)) /\ j = L
    BY <1>4, <1>5, <1>8, <1>12
  <2>3. StreamOK' /\ WorkOK' /\ cur' = NoCmd /\ sent' = sent
    BY <1>1, <1>8, <2>1, <2>2, EndsNext
  <2>4. Effect(cur, nes') = nes'
    <3>1. \A i \in 1 .. Len(cur.data) :
             LET m == IF cur.op = "CpuMemWr" THEN nes'.mem ELSE nes'.vram IN
             Cell(cur.addr, i) \in DOMAIN m /\ m[Cell(cur.addr, i)] = cur.data[i]
      BY <1>4, <1>11, <2>2 DEF Placed
    <3> QED
      BY <1>2, <1>3, <1>11, <3>1, WriteDone
  <2>5. Finishes
    BY <1>1, <1>2, <1>10, <1>11, <2>3, <2>4 DEF Finishes
  <2> QED
    BY <2>3, <2>5
<1>13. CASE n # 1
  <2>1. hci' = Regs("write", hci.op, <<>>, n - 1, (hci.addr + 1) % WORD, hci.err)
    BY <1>1, <1>2, <1>4, <1>13, CountIs
  <2>2. hci'.st = "write" /\ hci'.n = n - 1 /\ hci'.op = hci.op /\ hci'.addr = (hci.addr + 1) % WORD
    BY <2>1, RegsFields
  <2>3. cur' = cur => Consumed' = Consumed + 1
    <3>1. cur' = cur => Consumed' = (5 + L) - (n - 1)
      BY <1>4, <2>2, Zenon DEF Consumed
    <3>2. (5 + L) - (n - 1) = ((5 + L) - n) + 1
      BY <1>4
    <3> QED
      BY <1>7, <3>1, <3>2, Zenon
  <2>4. StreamOK' /\ cur' = cur /\ sent' = sent
    <3>1. Consumed < Len(P(cur))
      BY <1>4, <1>8
    <3> QED
      BY <1>1, <1>8, <2>2, <2>3, <3>1, GoesNext
  <2>5. /\ n - 1 \in 1 .. L /\ j = L - (n - 1) /\ j + 1 = L - (n - 1) + 1 /\ n - 1 \in Int /\ j + 1 <= L
    BY <1>4, <1>5, <1>13, SMTT(20)
  <2>6. hci'.addr = (a + L - (n - 1)) % WORD
    <3>1. (a + L - (n - 1)) % WORD = Cell(a, j + 1)
      BY <1>4, <2>5, Distance
    <3>2. j \in 1 .. WORD /\ j + 1 <= WORD
      BY <1>4, <1>5, <2>5, WordInt, SMTT(20)
    <3>3. (Cell(a, j) + 1) % WORD = Cell(a, j + 1)
      BY <1>4, <3>2, NextCell
    <3> QED
      BY <1>6, <2>2, <3>1, <3>3
  <2>7. WorkOK'
    <3>1. /\ cur'.op \in {"CpuMemWr", "PpuMemWr"} /\ hci'.op = Op[cur'.op]
          /\ hci'.n \in 1 .. Len(cur'.data)
          /\ hci'.addr = (cur'.addr + Len(cur'.data) - hci'.n) % WORD
      BY <1>3, <1>4, <2>2, <2>4, <2>5, <2>6, Zenon
    <3>2. Placed(IF cur'.op = "CpuMemWr" THEN nes'.mem ELSE nes'.vram, cur'.addr, cur'.data,
                 Len(cur'.data) - hci'.n)
      BY <1>4, <1>11, <2>2, <2>4, <2>5, Zenon
    <3>3. cur' # NoCmd /\ IsCommand(cur')
      BY <1>2, <2>4
    <3> QED
      BY <2>2, <3>1, <3>2, <3>3 DEF WorkOK, Placed, Cell
  <2>8. Produced' = Produced
    BY <1>7, <2>2 DEF Produced
  <2>9. GoesOn
    BY <1>1, <1>2, <1>10, <1>11, <2>4, <2>8 DEF GoesOn
  <2> QED
    BY <2>4, <2>7, <2>9
<1> QED
  BY <1>12, <1>13

Begun(a, p, k) == \A i \in 1 .. k : a[i] = p[1 + i]
Shifted(g, d, k) == \A i \in 1 .. k : g[5 - k + i] = d[i]

(* A byte of the header: where the packet at work stands.                  *)
LEMMA ArgsNow ==
  ASSUME LinkTypes, LinkInv, S_ARGS,
         NEW a, a = Append(hci.args, Head(rx)), NEW k, k = Len(a), NEW o, o = hci.op,
         NEW p, p = P(cur)
  PROVE  /\ cur # NoCmd /\ IsCommand(cur) /\ nes.halted /\ IsMachine(nes) /\ IsHci(hci)
         /\ IsQueue(sent) /\ HwTypes /\ hci.st = "args" /\ rx # <<>> /\ rx' = Tail(rx)
         /\ o = Op[cur.op] /\ Args(o) \in 0 .. 5 /\ k \in 1 .. Args(o) /\ 1 + Args(o) <= Len(p)
         /\ p \in Seq(Octet) /\ Len(p) \in Nat /\ Consumed = k
         /\ a \in Seq(Octet) /\ a = SubSeq(p, 2, 1 + k) /\ Begun(a, p, k)
         /\ a[k] = Head(rx) /\ Head(rx) \in Octet /\ Len(hci.args) = k - 1
         /\ cur.op \notin {"Echo", "CpuMemWr", "PpuMemWr"} => Len(p) = 1 + Args(o)
<1>1. hci.st = "args" /\ rx # <<>> /\ rx' = Tail(rx)
  BY DEF S_ARGS
<1>2. cur # NoCmd /\ IsCommand(cur) /\ nes.halted /\ IsMachine(nes) /\ IsHci(hci) /\ IsQueue(sent) /\ HwTypes
  BY <1>1, WorkNow
<1>3. o = Op[cur.op] /\ hci.args = SubSeq(p, 2, 1 + Len(hci.args))
  BY <1>1 DEF LinkInv, WorkOK
<1>4. /\ p \in Seq(Octet) /\ Len(p) \in Nat /\ 1 + Args(o) <= Len(p) /\ Args(o) \in 0 .. 5
      /\ cur.op \notin {"Echo", "CpuMemWr", "PpuMemWr"} => Len(p) = 1 + Args(o)
  <2>1. /\ P(cur) \in Seq(Octet) /\ Len(P(cur)) \in Nat \ {0} /\ Len(P(cur)) >= 1 + Args(Op[cur.op])
        /\ Args(Op[cur.op]) \in 0 .. 5
        /\ cur.op \notin {"Echo", "CpuMemWr", "PpuMemWr"} => Len(P(cur)) = 1 + Args(Op[cur.op])
    BY <1>2, PacketShape
  <2> QED
    BY <1>3, <2>1
<1>5. PICK g, m, b : g = hci.args /\ m = Len(g) /\ m \in Nat /\ g \in Seq(Octet) /\ m < Args(o) /\ b = Head(rx)
                     /\ b \in Octet
  BY <1>1, <1>2, RegsOf, RxHead
<1>6. a = Append(g, b) /\ k = m + 1 /\ a \in Seq(Octet) /\ a[k] = b /\ \A i \in 1 .. k - 1 : a[i] = g[i]
  <2>1. /\ Append(g, b) \in Seq(Octet) /\ Len(Append(g, b)) = Len(g) + 1
        /\ \A i \in 1 .. Len(g) : Append(g, b)[i] = g[i]
        /\ Append(g, b)[Len(g) + 1] = b
    BY <1>5, AppendProperties
  <2>2. a = Append(g, b) /\ k = m + 1
    BY <1>5, <2>1
  <2>3. k - 1 = m
    BY <1>5, <2>2
  <2> QED
    BY <1>5, <2>1, <2>2, <2>3
<1>7. Consumed = k
  <2>1. Consumed = 1 + m
    BY <1>1, <1>5 DEF Consumed
  <2> QED
    BY <1>5, <1>6, <2>1
<1>8. b = p[k + 1]
  <2>1. Consumed \in Nat /\ Consumed < Len(P(cur))
    <3>1. k \in Nat /\ k < Len(p)
      BY <1>4, <1>5, <1>6
    <3> QED
      BY <1>7, <3>1
  <2> QED
    BY <1>1, <1>2, <1>5, <1>7, <2>1, WorkByte
<1>9. k \in 1 .. Args(o) /\ k \in Nat /\ m + 2 <= Len(p)
  BY <1>4, <1>5, <1>6
<1>10. /\ SubSeq(p, 2, 1 + m) \in Seq(Octet) /\ \A i \in 1 .. m : SubSeq(p, 2, 1 + m)[i] = p[1 + i]
  <2>1. \A i \in 2 .. 1 + m : p[i] \in Octet
    BY <1>4, <1>5, <1>9, ElementOfSeq
  <2>2. /\ SubSeq(p, 2, 1 + m) \in Seq(Octet)
        /\ \A i \in 1 .. (1 + m) - 2 + 1 : SubSeq(p, 2, 1 + m)[i] = p[2 + i - 1]
    <3>1. 1 + m \in Int /\ 2 \in Int
      BY <1>5
    <3> QED
      BY <2>1, <3>1, SubSeqProperties
  <2> QED
    BY <1>5, <2>2
<1>11. \A i \in 1 .. k : a[i] = p[1 + i]
  <2> SUFFICES ASSUME NEW i \in 1 .. k PROVE a[i] = p[1 + i]
    OBVIOUS
  <2>1. CASE i = k
    <3>1. 1 + i = k + 1
      BY <1>9, <2>1
    <3> QED
      BY <1>6, <1>8, <2>1, <3>1
  <2>2. CASE i # k
    <3>1. i \in 1 .. m /\ i \in 1 .. k - 1
      BY <1>5, <1>6, <1>9, <2>2
    <3> QED
      BY <1>3, <1>5, <1>6, <1>10, <3>1
  <2> QED
    BY <2>1, <2>2
<1>12. a = SubSeq(p, 2, 1 + k)
  <2>1. \A i \in 2 .. 1 + k : p[i] \in Octet
    BY <1>4, <1>5, <1>6, <1>9, ElementOfSeq
  <2>2. PICK s : s = SubSeq(p, 2, 1 + k)
    OBVIOUS
  <2>3. /\ s \in Seq(Octet) /\ Len(s) = (IF 2 <= 1 + k THEN (1 + k) - 2 + 1 ELSE 0)
        /\ \A i \in 1 .. (1 + k) - 2 + 1 : s[i] = p[2 + i - 1]
    <3>1. 1 + k \in Int /\ 2 \in Int
      BY <1>9
    <3> QED
      BY <2>1, <2>2, <3>1, SubSeqProperties
  <2>4. Len(s) = k /\ \A i \in 1 .. k : s[i] = p[1 + i]
    BY <1>9, <2>3
  <2>5. Len(a) = k
    BY <1>6
  <2> QED
    <3>1. Len(s) = Len(a) /\ \A i \in 1 .. Len(s) : s[i] = a[i]
      BY <1>11, <2>4, <2>5
    <3>2. s = a
      BY <1>6, <2>3, <3>1, SeqEqual
    <3> QED
      BY <2>2, <3>2
<1>13. Len(hci.args) = k - 1
  BY <1>5, <1>6
<1> QED
  BY <1>1, <1>2, <1>3, <1>4, <1>5, <1>6, <1>7, <1>9, <1>11, <1>12, <1>13 DEF Begun

-----------------------------------------------------------------------------
(* The configuration is shifted in.                                        *)
ShiftIn(g, b) == Append(Tail(g), b)

LEMMA CfgShift ==
  ASSUME NEW g \in Seq(Octet), Len(g) = 5, NEW d \in Seq(Octet), Len(d) = 5, NEW k \in 1 .. 5,
         Shifted(g, d, k - 1), NEW b \in Octet, b = d[k], NEW x, x = ShiftIn(g, b)
  PROVE  x \in Seq(Octet) /\ Len(x) = 5 /\ Shifted(x, d, k) /\ (k = 5 => x = d)
<1>1. g \in Seq(Octet) /\ Len(g) = 5 /\ \A i \in 1 .. k - 1 : g[5 - (k - 1) + i] = d[i]
  BY DEF Shifted
<1>2. g # <<>>
  BY <1>1
<1>3. PICK t : t = Tail(g) /\ t \in Seq(Octet) /\ Len(t) = 4 /\ \A i \in 1 .. 4 : t[i] = g[i + 1]
  <2>1. PICK t : t = Tail(g)
    OBVIOUS
  <2>2. t \in Seq(Octet) /\ Len(t) = Len(g) - 1 /\ \A i \in 1 .. Len(t) : t[i] = g[i + 1]
    BY <1>1, <1>2, <2>1, HeadTailProperties
  <2>3. Len(t) = 4
    BY <1>1, <2>2
  <2> QED
    BY <2>1, <2>2, <2>3
<1>4. x \in Seq(Octet) /\ Len(x) = 5 /\ x[5] = b /\ \A i \in 1 .. 4 : x[i] = t[i]
  <2>1. PICK y : y = Append(t, b)
    OBVIOUS
  <2>2. y \in Seq(Octet) /\ Len(y) = Len(t) + 1 /\ (\A i \in 1 .. Len(t) : y[i] = t[i]) /\ y[Len(t) + 1] = b
    <3>1. t \in Seq(Octet)
      BY <1>3
    <3> HIDE <1>1, <1>2, <1>3
    <3> QED
      BY <2>1, <3>1, AppendProperties
  <2>3. Len(t) = 4 /\ Len(t) + 1 = 5
    BY <1>3
  <2> QED
    BY <1>3, <2>1, <2>2, <2>3 DEF ShiftIn
<1>5. ASSUME NEW i \in 1 .. k PROVE x[5 - k + i] = d[i]
  <2>1. CASE i = k
    <3>1. 5 - k + i = 5
      BY <2>1
    <3> QED
      BY <1>4, <2>1, <3>1
  <2>2. CASE i # k
    <3>1. i \in 1 .. k - 1 /\ 5 - k + i \in 1 .. 4 /\ (5 - k + i) + 1 = 5 - (k - 1) + i
      BY <2>2
    <3>2. x[5 - k + i] = g[5 - (k - 1) + i]
      BY <1>3, <1>4, <3>1
    <3> QED
      BY <1>1, <3>1, <3>2
  <2> QED
    BY <2>1, <2>2
<1>6. ASSUME k = 5 PROVE x = d
  <2>1. \A i \in 1 .. 5 : x[i] = d[i]
    <3> SUFFICES ASSUME NEW i \in 1 .. 5 PROVE x[i] = d[i]
      OBVIOUS
    <3>1. x[5 - k + i] = d[i]
      BY <1>5, <1>6
    <3>2. 5 - k + i = i
      BY <1>6
    <3> QED
      BY <3>1, <3>2
  <2> QED
    BY <1>4, <2>1, SeqEqual
<1> QED
  BY <1>4, <1>5, <1>6 DEF Shifted

LEMMA CfgByte ==
  ASSUME LinkTypes, LinkInv, S_ARGS, cur.op = "CartSetCfg", NEW k, k = Len(Append(hci.args, Head(rx)))
  PROVE  /\ IsMachine(nes') /\ nes'.halted /\ Effect(cur, nes') = Effect(cur, nes)
         /\ Shifted(nes'.cfg, cur.data, k)
         /\ k = 5 => nes' = Effect(cur, nes)
<1>1. PICK a, o, p : a = Append(hci.args, Head(rx)) /\ k = Len(a) /\ o = hci.op /\ p = P(cur)
  OBVIOUS
<1>2. /\ IsCommand(cur) /\ nes.halted /\ IsMachine(nes) /\ HwTypes /\ hci.st = "args"
      /\ o = Op[cur.op] /\ k \in 1 .. Args(o) /\ Head(rx) \in Octet /\ a[k] = Head(rx)
      /\ Begun(a, p, k) /\ Len(hci.args) = k - 1
  BY <1>1, ArgsNow
<1>3. o = 12 /\ k \in 1 .. 5
  BY <1>2, OpCodes, ArgsOf
<1>4. nes' = [nes EXCEPT !.cfg = Append(Tail(nes.cfg), Head(rx))]
  BY <1>1, <1>2, <1>3, ArgsShape
<1>5. Shifted(nes.cfg, cur.data, k - 1)
  BY <1>2 DEF LinkInv, WorkOK, Shifted
<1>6. PICK d, g : /\ d = cur.data /\ d \in Seq(Octet) /\ Len(d) = 5 /\ (\A i \in 1 .. 5 : p[1 + i] = d[i])
                  /\ g = nes.cfg /\ g \in Seq(Octet) /\ Len(g) = 5
  BY <1>1, <1>2, CommandParts, CfgShape, MachOf, SMTT(20)
<1>7. PICK b, x : b = Head(rx) /\ b \in Octet /\ b = d[k] /\ x = ShiftIn(g, b)
  <2>1. p[1 + k] = d[k]
    BY <1>3, <1>6
  <2>2. a[k] = p[1 + k]
    BY <1>2, <1>3 DEF Begun
  <2> QED
    BY <1>2, <1>6, <2>1, <2>2
<1>8. x \in Seq(Octet) /\ Len(x) = 5 /\ Shifted(x, d, k) /\ (k = 5 => x = d)
  <2>1. Shifted(g, d, k - 1)
    BY <1>5, <1>6
  <2>2. /\ g \in Seq(Octet) /\ Len(g) = 5 /\ d \in Seq(Octet) /\ Len(d) = 5 /\ k \in 1 .. 5
        /\ b \in Octet /\ b = d[k] /\ x = ShiftIn(g, b)
    BY <1>3, <1>6, <1>7
  <2> HIDE <1>2, <1>3, <1>5, <1>6, <1>7
  <2> QED
    BY <2>1, <2>2, CfgShift
<1>9. nes' = [nes EXCEPT !.cfg = x]
  BY <1>4, <1>6, <1>7 DEF ShiftIn
<1>10. IsMachine(nes') /\ nes'.halted
  BY <1>2, <1>8, <1>9, WithCfg
<1>11. nes'.cfg = x
  <2>1. [nes EXCEPT !.cfg = x] = Mach(nes.halted, nes.mem, nes.vram, x, nes.ppu, nes.regs)
    BY <1>2, <1>8, WithCfg
  <2> QED
    BY <1>9, <2>1, MachFields
<1>12. Effect(cur, nes') = Effect(cur, nes) /\ (x = cur.data => Effect(cur, nes') = nes')
  BY <1>2, <1>8, <1>9, CfgStep
<1> QED
  BY <1>1, <1>6, <1>8, <1>10, <1>11, <1>12

LEMMA WorksIs ==
  ASSUME IsHci(hci), NEW s \in {"echo", "read", "write"}, NEW n \in Word, NEW d \in Word,
         hci' = Works(s, n, d)
  PROVE  /\ n = 0 => hci'.st = "decode"
         /\ n # 0 => hci'.st = s /\ hci'.op = hci.op /\ hci'.n = n /\ hci'.addr = d
<1>1. CASE n = 0
  BY <1>1, DecodingIs DEF Works
<1>2. CASE n # 0
  <2>1. hci' = Regs(s, hci.op, <<>>, n, d, hci.err)
    BY <1>2, SetWorkIs DEF Works
  <2> QED
    BY <1>2, <2>1, RegsFields
<1> QED
  BY <1>1, <1>2

(* The header is not complete.                                             *)
LEMMA HeaderGoesOn ==
  ASSUME LinkTypes, LinkInv, ~broken, HciAction, S_ARGS,
         Len(Append(hci.args, Head(rx))) # Args(hci.op)
  PROVE  StreamOK' /\ WorkOK' /\ GoesOn
<1>1. PICK a, k, o, p : a = Append(hci.args, Head(rx)) /\ k = Len(a) /\ o = hci.op /\ p = P(cur)
  OBVIOUS
<1>2. /\ cur # NoCmd /\ IsCommand(cur) /\ nes.halted /\ IsMachine(nes) /\ IsHci(hci)
      /\ HwTypes /\ hci.st = "args" /\ rx # <<>> /\ rx' = Tail(rx)
      /\ o = Op[cur.op] /\ Args(o) \in 0 .. 5 /\ k \in 1 .. Args(o) /\ 1 + Args(o) <= Len(p)
      /\ Len(p) \in Nat /\ Consumed = k
      /\ a \in Seq(Octet) /\ a = SubSeq(p, 2, 1 + k)
  BY <1>1, ArgsNow
<1>3. k < Args(o) /\ k \in Nat /\ k < Len(p)
  BY <1>1, <1>2
<1>4. hci' = SetArgs(hci, a) /\ tx' = (IF o = 5 THEN Push(tx, Read(nes.regs, Head(rx) % 16)) ELSE tx)
      /\ (o # 12 => nes' = nes)
  BY <1>1, <1>2, <1>3, ArgsShape
<1>5. hci' = Regs("args", o, a, hci.n, hci.addr, hci.err)
  BY <1>1, <1>2, <1>3, <1>4, SetArgsIs
<1>6. hci'.st = "args" /\ hci'.op = o /\ hci'.args = a
  BY <1>5, RegsFields
<1>7. cur' = cur => Consumed' = Consumed + 1
  <2>1. Consumed' = 1 + k
    BY <1>1, <1>6 DEF Consumed
  <2> QED
    BY <1>2, <1>3, <2>1
<1>8. StreamOK' /\ cur' = cur /\ sent' = sent
  <2>1. Consumed \in Nat /\ Consumed < Len(P(cur)) /\ hci'.st \notin {"off", "decode"}
    BY <1>1, <1>2, <1>3, <1>6
  <2> QED
    BY <1>2, <1>7, <2>1, GoesNext
<1>9. tx' = tx
  <2>1. o # 5
    BY <1>2, <1>3, ArgsOf
  <2> QED
    BY <1>4, <2>1
<1>10. /\ nes'.halted /\ Effect(cur, nes') = Effect(cur, nes) /\ Answer(cur, nes') = Answer(cur, nes)
       /\ cur.op = "CartSetCfg" => Shifted(nes'.cfg, cur.data, k)
  <2>1. CASE cur.op = "CartSetCfg"
    <3>1. nes'.halted /\ Effect(cur, nes') = Effect(cur, nes) /\ Shifted(nes'.cfg, cur.data, k)
      BY <1>1, <2>1, CfgByte
    <3>2. Answer(cur, nes') = <<>> /\ Answer(cur, nes) = <<>>
      BY <2>1, AnswerParts
    <3> QED
      BY <3>1, <3>2
  <2>2. CASE cur.op # "CartSetCfg"
    <3>1. o # 12
      BY <1>2, <2>2, OpCodes, CommandParts
    <3> QED
      BY <1>2, <1>4, <2>2, <3>1
  <2> QED
    BY <2>1, <2>2
<1>11. WorkOK'
  <2>1. cur' # NoCmd /\ IsCommand(cur')
    BY <1>2, <1>8
  <2>2. hci'.op = Op[cur'.op] /\ hci'.args = SubSeq(P(cur'), 2, 1 + Len(hci'.args))
    BY <1>1, <1>2, <1>6, <1>8
  <2>3. cur'.op = "CartSetCfg" => \A i \in 1 .. Len(hci'.args) : nes'.cfg[5 - Len(hci'.args) + i] = cur'.data[i]
    BY <1>1, <1>6, <1>8, <1>10 DEF Shifted
  <2> QED
    BY <1>6, <2>1, <2>2, <2>3 DEF WorkOK
<1>12. Produced' = Produced
  BY <1>2, <1>6 DEF Produced
<1>13. GoesOn
  BY <1>2, <1>8, <1>9, <1>10, <1>12 DEF GoesOn
<1> QED
  BY <1>8, <1>11, <1>13

(* The header is complete, and it was the whole packet.                    *)
LEMMA HeaderFinishes ==
  ASSUME LinkTypes, LinkInv, ~broken, HciAction, S_ARGS,
         Len(Append(hci.args, Head(rx))) = Args(hci.op),
         cur.op \in {"CpuRegRd", "CpuRegWr", "CartSetCfg"}
  PROVE  StreamOK' /\ WorkOK' /\ Finishes
<1>1. PICK a, k, o, p : a = Append(hci.args, Head(rx)) /\ k = Len(a) /\ o = hci.op /\ p = P(cur)
  OBVIOUS
<1>2. /\ cur # NoCmd /\ IsCommand(cur) /\ nes.halted /\ IsMachine(nes) /\ IsHci(hci)
      /\ HwTypes /\ hci.st = "args" /\ rx # <<>> /\ rx' = Tail(rx)
      /\ o = Op[cur.op] /\ Args(o) \in 0 .. 5 /\ k \in 1 .. Args(o)
      /\ Len(p) \in Nat /\ Consumed = k /\ a \in Seq(Octet)
      /\ a[k] = Head(rx) /\ Head(rx) \in Octet /\ Begun(a, p, k)
  BY <1>1, ArgsNow
<1>3. k = Args(o) /\ k \in Nat /\ Len(p) = k + 1
  <2>1. k = Args(o)
    BY <1>1
  <2>2. Len(p) = 1 + Args(o)
    BY <1>1, ArgsNow
  <2> QED
    BY <1>2, <2>1, <2>2
<1>4. /\ hci' = Decoding
      /\ tx' = (IF o = 5 THEN Push(tx, Read(nes.regs, Head(rx) % 16)) ELSE tx)
      /\ o = 6 => nes' = IF a[1] % 16 \in 0 .. 6 THEN [nes EXCEPT !.regs[a[1] % 16] = a[2]] ELSE nes
      /\ o \notin {6, 12} => nes' = nes
      /\ o = 5 => Len(tx) < FIFO
  <2>1. o \in {5, 6, 12}
    BY <1>2, OpCodes
  <2> QED
    <3>1. o \notin {0, 1, 2, 9, 10} /\ HwTypes
      BY <1>2, <2>1
    <3>2. hci' = Decoding
      BY <1>1, <1>3, <3>1, ArgsShape
    <3>3. tx' = (IF o = 5 THEN Push(tx, Read(nes.regs, Head(rx) % 16)) ELSE tx) /\ (o = 5 => Len(tx) < FIFO)
      BY <1>1, <3>1, ArgsShape
    <3>4. o = 6 => nes' = IF a[1] % 16 \in 0 .. 6 THEN [nes EXCEPT !.regs[a[1] % 16] = a[2]] ELSE nes
      BY <1>1, <1>3, <3>1, ArgsShape
    <3>5. o \notin {6, 12} => nes' = nes
      BY <1>1, <3>1, ArgsShape
    <3> QED
      BY <3>2, <3>3, <3>4, <3>5
<1>5. StreamOK' /\ WorkOK' /\ cur' = NoCmd /\ sent' = sent
  <2>1. hci'.st = "decode"
    BY <1>2, <1>4, DecodingIs
  <2>2. Consumed \in Nat /\ Consumed + 1 = Len(P(cur))
    BY <1>1, <1>2, <1>3
  <2> QED
    BY <1>2, <2>1, <2>2, EndsNext
<1>6. Produced = 0
  BY <1>2 DEF Produced
<1>7. CASE cur.op = "CpuRegRd"
  <2>1. o = 5 /\ k = 1
    BY <1>2, <1>3, <1>7, OpCodes, ArgsOf
  <2>2. Head(rx) = cur.addr /\ cur.addr \in 0 .. 6
    <3>1. p[2] = cur.addr /\ cur.addr \in 0 .. 6
      BY <1>1, <1>2, <1>7, RegRdShape
    <3>2. a[1] = p[2]
      BY <1>2, <2>1 DEF Begun
    <3> QED
      BY <1>2, <2>1, <3>1, <3>2
  <2>3. Head(rx) % 16 = cur.addr
    BY <2>2
  <2>4. Read(nes.regs, cur.addr) = nes.regs[cur.addr]
    <3>1. DOMAIN nes.regs = 0 .. 6
      BY <1>2, MachOf
    <3> QED
      BY <2>2, <3>1 DEF Read
  <2>5. PICK v : v = nes.regs[cur.addr]
    OBVIOUS
  <2>6. Answer(cur, nes) = <<v>> /\ Effect(cur, nes) = nes
    BY <1>2, <1>7, <2>5, AnswerParts, EffectQuery
  <2>7. Yields /\ Produced + 1 = Len(Answer(cur, nes))
    <3>1. tx' = Append(tx, v)
      BY <1>4, <2>1, <2>3, <2>4, <2>5 DEF Push
    <3>2. Len(<<v>>) = 1 /\ <<v>>[1] = v
      OBVIOUS
    <3> QED
      BY <1>6, <2>6, <3>1, <3>2 DEF Yields
  <2>8. nes' = nes
    BY <1>4, <2>1
  <2> QED
    BY <1>2, <1>5, <2>6, <2>7, <2>8 DEF Finishes
<1>8. nes'.halted /\ nes' = Effect(cur, nes) /\ cur.op # "CpuRegRd" => Finishes
  <2> SUFFICES ASSUME nes'.halted, nes' = Effect(cur, nes), cur.op # "CpuRegRd" PROVE Finishes
    OBVIOUS
  <2>1. Answer(cur, nes) = <<>>
    BY <1>1, <1>2, AnswerParts
  <2>2. Produced = Len(Answer(cur, nes))
    BY <1>6, <2>1, SmallLen
  <2>3. tx' = tx
    <3>1. o # 5
      BY <1>2, OpCodes
    <3> QED
      BY <1>4, <3>1
  <2> QED
    BY <1>2, <1>5, <2>2, <2>3 DEF Finishes
<1>9. CASE cur.op = "CpuRegWr"
  <2>1. o = 6 /\ k = 2
    BY <1>2, <1>3, <1>9, OpCodes, ArgsOf
  <2>2. p[2] = cur.addr /\ p[3] = cur.data[1] /\ cur.addr \in 0 .. 6 /\ cur.data[1] \in Octet
    BY <1>1, <1>2, <1>9, RegWrShape, CommandParts
  <2>3. a[1] = p[2] /\ a[2] = p[3]
    BY <2>1, <1>2 DEF Begun
  <2>4. PICK i, v : i = cur.addr /\ v = cur.data[1] /\ i \in 0 .. 6 /\ v \in Octet
    BY <2>2
  <2>5. a[1] % 16 = i /\ a[2] = v
    BY <2>2, <2>3, <2>4
  <2>6. nes' = [nes EXCEPT !.regs[i] = v]
    BY <1>4, <2>1, <2>4, <2>5
  <2>7. nes' = Effect(cur, nes)
    BY <1>2, <1>9, <2>4, <2>6, RegDone, Zenon
  <2>8. IsMachine([nes EXCEPT !.regs[i] = v]) /\ [nes EXCEPT !.regs[i] = v].halted = nes.halted
    <3>1. IsMachine(nes)
      BY <1>2
    <3>2. i \in 0 .. 6
      BY <2>4
    <3>3. v \in Octet
      BY <2>4
    <3> QED
      BY <3>1, <3>2, <3>3, WithReg, Zenon
  <2>9. nes'.halted
    BY <1>2, <2>6, <2>8
  <2> QED
    <3>1. cur.op # "CpuRegRd"
      BY <1>9
    <3> QED
      BY <1>5, <1>8, <2>7, <2>9, <3>1, Zenon
<1>10. CASE cur.op = "CartSetCfg"
  <2>1. k = 5
    BY <1>2, <1>3, <1>10, OpCodes, ArgsOf
  <2>2. nes'.halted /\ nes' = Effect(cur, nes)
    BY <1>1, <1>10, <2>1, CfgByte
  <2> QED
    <3>1. cur.op # "CpuRegRd"
      BY <1>10
    <3> QED
      BY <1>5, <1>8, <2>2, <3>1, Zenon
<1> QED
  BY <1>5, <1>7, <1>8, <1>9, <1>10

(* The header is complete, and bytes or a count follow.                    *)
LEMMA HeaderWorks ==
  ASSUME LinkTypes, LinkInv, ~broken, HciAction, S_ARGS,
         NEW a, a = Append(hci.args, Head(rx)), Len(a) = Args(hci.op),
         NEW s \in {"echo", "read", "write"}, NEW n \in Word, NEW d \in Word,
         hci' = Works(s, n, d), hci.op \notin {5, 6, 12},
         n = 0 => Len(P(cur)) = 1 + Len(a) /\ Effect(cur, nes) = nes /\ Len(Answer(cur, nes)) = 0,
         s = "echo" => cur.op = "Echo" /\ n = Len(cur.data) /\ Len(P(cur)) = n + (1 + Len(a)),
         s = "write" => cur.op \in {"CpuMemWr", "PpuMemWr"} /\ n = Len(cur.data) /\ d = cur.addr
                        /\ Len(P(cur)) = n + (1 + Len(a)),
         s = "read" => cur.op \in {"CpuMemRd", "PpuMemRd"} /\ n = cur.n /\ d = cur.addr
                       /\ Len(P(cur)) = 1 + Len(a)
  PROVE  StreamOK' /\ WorkOK' /\ (GoesOn \/ Finishes)
<1>1. PICK k, o, p : k = Len(a) /\ o = hci.op /\ p = P(cur)
  OBVIOUS
<1>2. /\ cur # NoCmd /\ IsCommand(cur) /\ nes.halted /\ IsMachine(nes) /\ IsHci(hci)
      /\ HwTypes /\ hci.st = "args" /\ rx # <<>> /\ rx' = Tail(rx)
      /\ o = Op[cur.op] /\ Args(o) \in 0 .. 5 /\ k \in 1 .. Args(o) /\ 1 + Args(o) <= Len(p)
      /\ Len(p) \in Nat /\ Consumed = k
  BY <1>1, ArgsNow
<1>3. k \in Nat /\ k < Len(p) /\ k \in Int /\ n \in Int /\ n \in Nat
  <2>1. k \in Nat /\ k < Len(p)
    BY <1>1, <1>2
  <2>2. n \in Int /\ n \in Nat
    BY WordIs, SMT
  <2> QED
    BY <2>1, <2>2
<1>4. tx' = tx /\ nes' = nes
  BY <1>1, <1>2, ArgsShape
<1>5. Produced = 0
  BY <1>2 DEF Produced
<1>6. CASE n = 0
  <2>1. hci'.st = "decode"
    BY <1>2, <1>6, WorksIs
  <2>2. Consumed \in Nat /\ Consumed + 1 = Len(P(cur))
    <3>1. Len(P(cur)) = 1 + k
      BY <1>1, <1>6
    <3>2. Consumed + 1 = 1 + k
      BY <1>2, <1>3
    <3> QED
      BY <1>2, <1>3, <3>1, <3>2
  <2>3. StreamOK' /\ WorkOK' /\ cur' = NoCmd /\ sent' = sent
    BY <1>2, <2>1, <2>2, EndsNext
  <2>4. Finishes
    BY <1>2, <1>4, <1>5, <1>6, <2>3 DEF Finishes
  <2> QED
    BY <2>3, <2>4
<1>7. CASE n # 0
  <2>1. hci'.st = s /\ hci'.op = o /\ hci'.n = n /\ hci'.addr = d
    BY <1>1, <1>2, <1>7, WorksIs
  <2>2. cur' = cur => Consumed' = Consumed + 1
    <3> SUFFICES ASSUME cur' = cur PROVE Consumed' = 1 + k
      BY <1>2, <1>3
    <3>1. s = "read" => Len(p) = 1 + k
      BY <1>1
    <3>2. s \in {"echo", "write"} => Len(p) = n + (1 + k)
      BY <1>1
    <3>3. CASE s = "read"
      <4>1. Consumed' = Len(p)
        BY <1>1, <2>1, <3>3 DEF Consumed
      <4> QED
        BY <3>1, <3>3, <4>1
    <3>4. CASE s \in {"echo", "write"}
      <4>1. Consumed' = Len(p) - n
        BY <1>1, <2>1, <3>4 DEF Consumed
      <4>2. (n + (1 + k)) - n = 1 + k
        BY <1>3
      <4> QED
        BY <3>2, <3>4, <4>1, <4>2, Zenon
    <3> QED
      BY <3>3, <3>4
  <2>3. StreamOK' /\ cur' = cur /\ sent' = sent
    <3>1. Consumed \in Nat /\ Consumed < Len(P(cur)) /\ hci'.st \notin {"off", "decode"}
      BY <1>1, <1>2, <1>3, <2>1
    <3> QED
      BY <1>2, <2>2, <3>1, GoesNext
  <2>4. n \in 1 .. n /\ n - n = 0
    BY <1>3, <1>7
  <2>5. ASSUME NEW l, l = n, s \in {"read", "write"} PROVE d = (cur.addr + l - n) % WORD
    <3>1. cur.addr \in Word
      BY <1>2, CommandParts
    <3>2. (cur.addr + l - n) % WORD = Cell(cur.addr, l - n + 1)
      BY <1>3, <2>5, <3>1, Distance
    <3>3. l - n + 1 = 1
      BY <1>3, <2>5
    <3> QED
      BY <2>5, <3>1, <3>2, <3>3, FirstCell
  <2>6. WorkOK'
    <3>1. cur' # NoCmd /\ IsCommand(cur')
      BY <1>2, <2>3
    <3>2. hci'.st = "echo" => cur'.op = "Echo" /\ hci'.n \in 1 .. Len(cur'.data)
      BY <2>1, <2>3, <2>4
    <3>3. hci'.st = "write" =>
            /\ cur'.op \in {"CpuMemWr", "PpuMemWr"} /\ hci'.op = Op[cur'.op] /\ hci'.n \in 1 .. Len(cur'.data)
            /\ hci'.addr = (cur'.addr + Len(cur'.data) - hci'.n) % WORD
            /\ Len(cur'.data) - hci'.n = 0
      BY <1>2, <2>1, <2>3, <2>4, <2>5
    <3>4. hci'.st = "read" =>
            /\ cur'.op \in {"CpuMemRd", "PpuMemRd"} /\ hci'.op = Op[cur'.op] /\ hci'.n \in 1 .. cur'.n
            /\ hci'.addr = (cur'.addr + cur'.n - hci'.n) % WORD
      BY <1>2, <2>1, <2>3, <2>4, <2>5
    <3>5. hci'.st = "write" => \A i \in 1 .. Len(cur'.data) - hci'.n : FALSE
      BY <3>3
    <3>6. hci'.st # "err" /\ hci'.st # "args" /\ hci'.st # "ppu" /\ hci'.st \notin {"off", "decode"}
      BY <2>1
    <3> QED
      BY <3>1, <3>2, <3>3, <3>4, <3>5, <3>6 DEF WorkOK
  <2>7. Produced' = 0
    <3>1. s = "echo" => Produced' = n - n
      BY <2>1, <2>3 DEF Produced
    <3>2. s = "read" => Produced' = n - n
      BY <2>1, <2>3 DEF Produced
    <3>3. s = "write" => Produced' = 0
      BY <2>1 DEF Produced
    <3> QED
      BY <2>4, <3>1, <3>2, <3>3
  <2>8. GoesOn
    BY <1>2, <1>4, <1>5, <2>3, <2>7 DEF GoesOn
  <2> QED
    BY <2>3, <2>6, <2>8
<1> QED
  BY <1>6, <1>7

LEMMA ArgsStep ==
  ASSUME LinkTypes, LinkInv, ~broken, HciAction, S_ARGS
  PROVE  StreamOK' /\ WorkOK' /\ (GoesOn \/ Finishes)
<1>1. PICK a, k, o, p : a = Append(hci.args, Head(rx)) /\ k = Len(a) /\ o = hci.op /\ p = P(cur)
  OBVIOUS
<1>2. /\ IsCommand(cur) /\ nes.halted /\ IsMachine(nes) /\ HwTypes
      /\ o = Op[cur.op] /\ Args(o) \in 0 .. 5 /\ k \in 1 .. Args(o) /\ Begun(a, p, k)
  BY <1>1, ArgsNow
<1>3. CASE k # Args(o)
  BY <1>1, <1>3, HeaderGoesOn
<1>4. CASE k = Args(o) /\ cur.op \in {"CpuRegRd", "CpuRegWr", "CartSetCfg"}
  BY <1>1, <1>4, HeaderFinishes
<1>5. CASE k = Args(o) /\ cur.op = "Echo"
  <2>1. o = 0 /\ k = 2
    BY <1>2, <1>5, OpCodes, ArgsOf
  <2>2. hci' = Works("echo", Num(a[1], a[2]), 0)
    BY <1>1, <1>2, <1>5, <2>1, ArgsShape
  <2>3. /\ Len(p) = 3 + Len(cur.data) /\ Num(p[2], p[3]) = Len(cur.data)
    BY <1>1, <1>2, <1>5, EchoShape
  <2>4. a[1] = p[2] /\ a[2] = p[3]
    BY <1>2, <2>1 DEF Begun
  <2>5. PICK n : n = Len(cur.data) /\ n \in Word /\ n \in Int
    <3>1. Len(cur.data) \in Word
      BY <1>2, CommandParts
    <3>2. Len(cur.data) \in Int
      BY <3>1, WordIs, SMT
    <3> QED
      BY <3>1, <3>2
  <2>6. hci' = Works("echo", n, 0)
    BY <2>2, <2>3, <2>4, <2>5
  <2>7. Effect(cur, nes) = nes /\ Len(Answer(cur, nes)) = n
    BY <1>2, <1>5, <2>5, AnswerParts, EffectQuery
  <2>8. Len(P(cur)) = n + (1 + Len(a))
    <3>1. Len(p) = 3 + n
      BY <2>3, <2>5
    <3>2. 3 + n = n + (1 + 2)
      BY <2>5
    <3> QED
      BY <1>1, <2>1, <3>1, <3>2
  <2>9. n = 0 => Len(P(cur)) = 1 + Len(a)
    <3>1. n = 0 => n + (1 + 2) = 1 + 2
      OBVIOUS
    <3> QED
      BY <1>1, <2>1, <2>8, <3>1
  <2>10. hci.op \notin {5, 6, 12} /\ Len(a) = Args(hci.op) /\ 0 \in Word
    BY <1>1, <1>5, <2>1, Zeros
  <2>11. cur.op = "Echo"
    BY <1>5
  <2>12. PICK s : s = "echo"
    OBVIOUS
  <2> QED
    BY <1>1, <2>5, <2>6, <2>7, <2>8, <2>9, <2>10, <2>11, <2>12, HeaderWorks
<1>6. CASE k = Args(o) /\ cur.op \in {"CpuMemRd", "PpuMemRd"}
  <2>1. o \in {1, 9} /\ k = 4
    BY <1>2, <1>6, OpCodes, ArgsOf
  <2>2. hci' = Works("read", Num(a[3], a[4]), Num(a[1], a[2]))
    BY <1>1, <1>2, <1>6, <2>1, ArgsShape
  <2>3. Len(p) = 5 /\ Num(p[2], p[3]) = cur.addr /\ Num(p[4], p[5]) = cur.n
    BY <1>1, <1>2, <1>6, MemRdShape
  <2>4. a[1] = p[2] /\ a[2] = p[3] /\ a[3] = p[4] /\ a[4] = p[5]
    BY <1>2, <2>1 DEF Begun
  <2>5. PICK n, d : n = cur.n /\ d = cur.addr /\ n \in Word /\ d \in Word
    BY <1>2, CommandParts
  <2>6. hci' = Works("read", n, d)
    BY <2>2, <2>3, <2>4, <2>5
  <2>7. Effect(cur, nes) = nes /\ Len(Answer(cur, nes)) = n
    BY <1>2, <1>6, <2>5, AnswerRead, EffectQuery
  <2>8. Len(P(cur)) = 1 + Len(a)
    BY <1>1, <2>1, <2>3
  <2>9. hci.op \notin {5, 6, 12} /\ Len(a) = Args(hci.op)
    BY <1>1, <1>6, <2>1
  <2>10. cur.op \in {"CpuMemRd", "PpuMemRd"}
    BY <1>6
  <2>11. PICK s : s = "read"
    OBVIOUS
  <2> QED
    BY <1>1, <2>5, <2>6, <2>7, <2>8, <2>9, <2>10, <2>11, HeaderWorks
<1>7. CASE k = Args(o) /\ cur.op \in {"CpuMemWr", "PpuMemWr"}
  <2>1. o \in {2, 10} /\ k = 4
    BY <1>2, <1>7, OpCodes, ArgsOf
  <2>2. hci' = Works("write", Num(a[3], a[4]), Num(a[1], a[2]))
    BY <1>1, <1>2, <1>7, <2>1, ArgsShape
  <2>3. Len(p) = 5 + Len(cur.data) /\ Num(p[2], p[3]) = cur.addr /\ Num(p[4], p[5]) = Len(cur.data)
    BY <1>1, <1>2, <1>7, MemWrShape
  <2>4. a[1] = p[2] /\ a[2] = p[3] /\ a[3] = p[4] /\ a[4] = p[5]
    BY <1>2, <2>1 DEF Begun
  <2>5. PICK n, d : n = Len(cur.data) /\ d = cur.addr /\ n \in Word /\ d \in Word /\ n \in Int
    <3>1. Len(cur.data) \in Word /\ cur.addr \in Word
      BY <1>2, CommandParts
    <3>2. Len(cur.data) \in Int
      BY <3>1, WordIs, SMT
    <3> QED
      BY <3>1, <3>2
  <2>6. hci' = Works("write", n, d)
    BY <2>2, <2>3, <2>4, <2>5
  <2>7. n = 0 => Effect(cur, nes) = nes /\ Len(Answer(cur, nes)) = 0
    <3> SUFFICES ASSUME n = 0 PROVE Effect(cur, nes) = nes /\ Len(Answer(cur, nes)) = 0
      OBVIOUS
    <3>1. Answer(cur, nes) = <<>>
      BY <1>7, AnswerParts
    <3>2. ~(\E i \in 1 .. Len(cur.data) : TRUE)
      BY <2>5
    <3>3. Effect(cur, nes) = nes
      BY <1>2, <1>7, <3>2, WriteDone
    <3> QED
      BY <3>1, <3>3, SmallLen
  <2>8. Len(P(cur)) = n + (1 + Len(a))
    <3>1. Len(p) = 5 + n
      BY <2>3, <2>5
    <3>2. 5 + n = n + (1 + 4)
      BY <2>5
    <3> QED
      BY <1>1, <2>1, <3>1, <3>2
  <2>9. n = 0 => Len(P(cur)) = 1 + Len(a)
    <3>1. n = 0 => n + (1 + 4) = 1 + 4
      OBVIOUS
    <3> QED
      BY <1>1, <2>1, <2>8, <3>1
  <2>10. hci.op \notin {5, 6, 12} /\ Len(a) = Args(hci.op)
    BY <1>1, <1>7, <2>1
  <2>11. cur.op \in {"CpuMemWr", "PpuMemWr"}
    BY <1>7
  <2>12. PICK s : s = "write"
    OBVIOUS
  <2> QED
    BY <1>1, <2>5, <2>6, <2>7, <2>8, <2>9, <2>10, <2>11, <2>12, HeaderWorks
<1>8. CASE cur.op \in {"DbgHlt", "DbgRun", "QueryHlt", "PpuDisable"}
  <2>1. Args(o) = 0
    BY <1>2, <1>8, OpCodes, ArgsOf
  <2> QED
    BY <1>2, <2>1
<1>9. cur.op \in {"Echo", "CpuMemRd", "CpuMemWr", "DbgHlt", "DbgRun", "CpuRegRd", "CpuRegWr",
                  "QueryHlt", "PpuMemRd", "PpuMemWr", "PpuDisable", "CartSetCfg"}
  BY <1>2, CommandParts
<1> QED
  BY <1>3, <1>4, <1>5, <1>6, <1>7, <1>8, <1>9

(* Every step of the interface keeps the line and its work in order, and   *)
(* is one of the four steps of the session.                                *)
LEMMA InterfaceStep ==
  ASSUME LinkTypes, LinkInv, ~broken, HciAction
  PROVE  StreamOK' /\ WorkOK' /\ (AtOnce \/ Begins \/ GoesOn \/ Finishes)
<1>1. HciStep
  BY DEF HciAction
<1>2. CASE S_DISABLED
  BY <1>2, DisabledStep
<1>3. CASE S_DECODE
  BY <1>3, DecodeStep
<1>4. CASE S_ARGS
  BY <1>4, ArgsStep
<1>5. CASE S_ECHO_STG_1
  BY <1>5, EchoStep
<1>6. CASE S_MEM_WR_STG_1
  BY <1>6, MemWriteStep
<1>7. CASE S_MEM_RD_STG_1
  BY <1>7, ReadStep
<1>8. ASSUME S_QUERY_ERR_CODE PROVE FALSE
  BY <1>8 DEF S_QUERY_ERR_CODE, LinkInv, WorkOK
<1>9. CASE S_PPU_DISABLE
  BY <1>9, PpuStep
<1> QED
  BY <1>1, <1>2, <1>3, <1>4, <1>5, <1>6, <1>7, <1>8, <1>9 DEF HciStep

(* What has been produced of an answer is never all of it while the        *)
(* interface works on.                                                     *)
LEMMA ProducedIs ==
  ASSUME LinkTypes, LinkInv, cur # NoCmd
  PROVE  Produced \in Nat /\ (Produced = 0 \/ Produced < Expect(cur))
<1>1. IsCommand(cur)
  BY DEF LinkInv, WorkOK
<1>2. CASE hci.st = "echo"
  <2>1. cur.op = "Echo" /\ hci.n \in 1 .. Len(cur.data)
    BY <1>2 DEF LinkInv, WorkOK
  <2>2. PICK n, L : n = hci.n /\ L = Len(cur.data) /\ L \in Nat /\ n \in 1 .. L /\ Expect(cur) = L
    BY <1>1, <2>1, CommandParts, EchoShape
  <2>3. L - n \in Nat /\ L - n < L
    BY <2>2
  <2>4. Produced = L - n
    BY <1>2, <2>2 DEF Produced
  <2> QED
    BY <2>2, <2>3, <2>4
<1>3. CASE hci.st = "read"
  <2>1. cur.op \in {"CpuMemRd", "PpuMemRd"} /\ hci.n \in 1 .. cur.n
    BY <1>3 DEF LinkInv, WorkOK
  <2>2. cur.n \in Word
    BY <1>1, CommandParts
  <2>3. cur.n \in Nat
    BY <2>2, WordIs, SMT
  <2>4. PICK n, L : n = hci.n /\ L = cur.n /\ L \in Nat /\ n \in 1 .. L /\ Expect(cur) = L
    BY <1>1, <2>1, <2>3, MemRdShape
  <2>5. L - n \in Nat /\ L - n < L
    BY <2>4
  <2>6. Produced = L - n
    BY <1>3, <2>4 DEF Produced
  <2> QED
    BY <2>4, <2>5, <2>6
<1>4. CASE hci.st \notin {"echo", "read"}
  BY <1>4 DEF Produced
<1> QED
  BY <1>2, <1>3, <1>4

LEMMA TailOf ==
  ASSUME NEW s, IsQueue(s), s # <<>>
  PROVE  /\ Len(s) \in {1, 2} /\ Len(Tail(s)) = Len(s) - 1 /\ (Tail(s) = <<>> <=> Len(s) = 1)
         /\ Len(s) = 2 => Tail(s)[1] = s[2]
<1>1. IsQueue(Tail(s)) /\ Len(Tail(s)) = Len(s) - 1 /\ (Len(s) = 2 => Tail(s)[1] = s[2])
  BY QueueTail
<1>2. Len(s) \in 0 .. 2 /\ Len(s) # 0 /\ (Tail(s) = <<>> <=> Len(Tail(s)) = 0)
  BY <1>1, WireBytes
<1> QED
  BY <1>1, <1>2

(* The answer of the command the interface takes, or works on.             *)
LEMMA AnswerAtOnce ==
  ASSUME LinkTypes, LinkInv, AtOnce, job' = job, back' = back
  PROVE  AnswerOK'
<1>1. /\ sent # <<>> /\ cur' = NoCmd /\ sent' = Tail(sent)
      /\ back = <<>> /\ tx' = Answer(sent[1], nes) /\ (nes.halted \/ sent[1].op \in Breaks)
  BY DEF AtOnce
<1>2. IsQueue(sent) /\ AnswerOK
  BY DEF LinkInv, StreamOK
<1>3. /\ Len(sent) \in {1, 2} /\ Len(sent') = Len(sent) - 1 /\ (sent' = <<>> <=> Len(sent) = 1)
      /\ Len(sent) = 2 => sent'[1] = sent[2]
  BY <1>1, <1>2, TailOf
<1>4. IsCommand(sent[1]) /\ IsMachine(nes)
  BY <1>1, <1>2, QueueTail DEF LinkTypes, HwTypes
<1>5. tx' \in Seq(Octet) /\ Len(tx') = Expect(sent[1])
  BY <1>1, <1>4, AnswerIs
<1>6. \A i \in 1 .. Len(sent) : i < Len(sent) \/ job.wait = 0 => Expect(sent[i]) = 0
  BY <1>2 DEF AnswerOK
<1>7. job.wait > 0 /\ sent # <<>> => Expect(sent[Len(sent)]) = job.wait
  BY <1>2 DEF AnswerOK
<1>8. CASE Len(sent) = 1
  <2>1. sent' = <<>> /\ Len(sent') = 0 /\ 1 \in 1 .. Len(sent)
    BY <1>3, <1>8, SmallLen
  <2>2. job.wait = 0 => Expect(sent[1]) = 0
    BY <1>6, <2>1
  <2>3. job.wait = 0 => tx' = <<>>
    BY <1>5, <2>2, EmptySeq
  <2>4. job.wait > 0 => Expect(sent[1]) = job.wait
    BY <1>1, <1>7, <1>8
  <2>5. job.wait > 0 => Len(back' \o tx') = job.wait
    <3>1. back' \o tx' = tx'
      BY <1>1, <1>5, ConcatEmptySeq
    <3> QED
      BY <1>5, <2>4, <3>1
  <2>6. \A i \in 1 .. Len(sent') : FALSE
    BY <2>1
  <2> QED
    BY <1>1, <2>1, <2>3, <2>5, <2>6 DEF AnswerOK
<1>9. CASE Len(sent) = 2
  <2>1. sent' # <<>> /\ Len(sent') = 1 /\ sent'[1] = sent[2] /\ 1 \in 1 .. Len(sent) /\ 2 \in 1 .. Len(sent)
        /\ 1 < Len(sent)
    BY <1>3, <1>9
  <2>2. Expect(sent[1]) = 0
    BY <1>6, <2>1
  <2>3. tx' = <<>>
    BY <1>5, <2>2, EmptySeq
  <2>4. job.wait = 0 => Expect(sent'[1]) = 0
    BY <1>6, <2>1
  <2>5. job.wait > 0 => Expect(sent'[Len(sent')]) = job.wait
    BY <1>1, <1>7, <1>9, <2>1
  <2>6. \A i \in 1 .. Len(sent') : i < Len(sent') \/ job'.wait = 0 => Expect(sent'[i]) = 0
    <3>1. \A i \in 1 .. 1 : i = 1 /\ ~(i < 1)
      OBVIOUS
    <3> QED
      BY <2>1, <2>4, <3>1
  <2> QED
    BY <1>1, <2>1, <2>3, <2>5, <2>6 DEF AnswerOK
<1> QED
  BY <1>3, <1>8, <1>9

LEMMA AnswerBegins ==
  ASSUME LinkTypes, LinkInv, Begins, job' = job, back' = back
  PROVE  AnswerOK'
<1>1. /\ sent # <<>> /\ cur' = sent[1] /\ sent' = Tail(sent) /\ nes' = nes /\ nes.halted
      /\ back = <<>> /\ tx' = <<>> /\ Produced' = 0
  BY DEF Begins
<1>2. IsQueue(sent) /\ AnswerOK
  BY DEF LinkInv, StreamOK
<1>3. /\ Len(sent) \in {1, 2} /\ Len(sent') = Len(sent) - 1 /\ (sent' = <<>> <=> Len(sent) = 1)
      /\ Len(sent) = 2 => sent'[1] = sent[2]
  BY <1>1, <1>2, TailOf
<1>4. IsCommand(sent[1]) /\ IsMachine(nes) /\ cur' # NoCmd
  BY <1>1, <1>2, QueueTail, CommandParts DEF LinkTypes, HwTypes
<1>6. \A i \in 1 .. Len(sent) : i < Len(sent) \/ job.wait = 0 => Expect(sent[i]) = 0
  BY <1>2 DEF AnswerOK
<1>7. job.wait > 0 /\ sent # <<>> => Expect(sent[Len(sent)]) = job.wait
  BY <1>2 DEF AnswerOK
<1>8. CASE Len(sent) = 1
  <2>1. sent' = <<>> /\ Len(sent') = 0 /\ 1 \in 1 .. Len(sent)
    BY <1>3, <1>8, SmallLen
  <2>2. job.wait = 0 => Expect(cur') = 0
    BY <1>1, <1>6, <2>1
  <2>3. job.wait > 0 => Expect(cur') = job.wait
    BY <1>1, <1>7, <1>8
  <2>4. back' \o tx' = SubSeq(Answer(cur', nes'), 1, Produced')
    <3>1. Answer(cur', nes') \in Seq(Octet)
      BY <1>1, <1>4, AnswerIs
    <3>2. SubSeq(Answer(cur', nes'), 1, 0) = <<>>
      BY <3>1, SubSeqEmpty
    <3>3. back' \o tx' = <<>>
      BY <1>1
    <3> QED
      BY <1>1, <3>2, <3>3
  <2>5. \A i \in 1 .. Len(sent') : FALSE
    BY <2>1
  <2> QED
    BY <1>1, <1>4, <2>1, <2>2, <2>3, <2>4, <2>5 DEF AnswerOK
<1>9. CASE Len(sent) = 2
  <2>1. sent' # <<>> /\ Len(sent') = 1 /\ sent'[1] = sent[2] /\ 1 \in 1 .. Len(sent) /\ 2 \in 1 .. Len(sent)
        /\ 1 < Len(sent)
    BY <1>3, <1>9
  <2>2. Expect(cur') = 0
    BY <1>1, <1>6, <2>1
  <2>4. job.wait = 0 => Expect(sent'[1]) = 0
    BY <1>6, <2>1
  <2>5. job.wait > 0 => Expect(sent'[Len(sent')]) = job.wait
    BY <1>1, <1>7, <1>9, <2>1
  <2>6. \A i \in 1 .. Len(sent') : i < Len(sent') \/ job'.wait = 0 => Expect(sent'[i]) = 0
    <3>1. \A i \in 1 .. 1 : i = 1 /\ ~(i < 1)
      OBVIOUS
    <3> QED
      BY <2>1, <2>4, <3>1
  <2> QED
    BY <1>1, <2>1, <2>2, <2>5, <2>6 DEF AnswerOK
<1> QED
  BY <1>3, <1>8, <1>9

LEMMA Joins ==
  ASSUME NEW u \in Seq(Octet), NEW v \in Seq(Octet), NEW w \in Seq(Octet)
  PROVE  (u \o v) \o w = u \o (v \o w)
BY ConcatAssociative

LEMMA OneMore ==
  ASSUME NEW x \in Seq(Octet), NEW y \in Seq(Octet), NEW r \in Seq(Octet), NEW k \in Nat, k < Len(r),
         x \o y = SubSeq(r, 1, k), NEW z, z = Append(y, r[k + 1])
  PROVE  x \o z = SubSeq(r, 1, k + 1) /\ Len(x \o z) = k + 1
<1>1. k + 1 \in 1 .. Len(r) /\ 1 \in 1 .. Len(r) /\ (k + 1) - 1 = k
  BY SmallLen
<1>2. PICK b : b = r[k + 1] /\ b \in Octet
  BY <1>1, ElementOfSeq
<1>3. SubSeq(r, 1, k + 1) = SubSeq(r, 1, k) \o <<b>>
  BY <1>1, <1>2, SubSeqRecursiveSecond
<1>4. z = y \o <<b>>
  BY <1>2, AppendIsConcat
<1>5. <<b>> \in Seq(Octet)
  BY <1>2
<1>6. (x \o y) \o <<b>> = x \o (y \o <<b>>)
  <2>1. \A v, w \in Seq(Octet) : (x \o v) \o w = x \o (v \o w)
    BY Joins
  <2> QED
    BY <1>5, <2>1
<1>7. Len(SubSeq(r, 1, k + 1)) = k + 1
  <2>1. \A i \in 1 .. k + 1 : r[i] \in Octet
    BY <1>1, ElementOfSeq
  <2>2. Len(SubSeq(r, 1, k + 1)) = IF 1 <= k + 1 THEN k + 1 - 1 + 1 ELSE 0
    BY <1>1, <2>1, SubSeqProperties
  <2> QED
    BY <2>2
<1> QED
  BY <1>3, <1>4, <1>6, <1>7

LEMMA AnswerGoesOn ==
  ASSUME LinkTypes, LinkInv, GoesOn \/ Finishes, job' = job, back' = back
  PROVE  AnswerOK'
<1>1. cur # NoCmd /\ sent' = sent /\ nes.halted
  BY DEF GoesOn, Finishes
<1>2. AnswerOK /\ IsCommand(cur) /\ IsMachine(nes) /\ back \in Seq(Octet) /\ tx \in Seq(Octet)
  BY <1>1 DEF LinkInv, WorkOK, LinkTypes, HwTypes
<1>3. PICK r, k : /\ r = Answer(cur, nes) /\ k = Produced /\ r \in Seq(Octet) /\ Len(r) = Expect(cur)
                  /\ k \in Nat /\ (k = 0 \/ k < Len(r)) /\ Len(r) \in Nat
  <2>1. Answer(cur, nes) \in Seq(Octet) /\ Len(Answer(cur, nes)) = Expect(cur)
    BY <1>1, <1>2, AnswerIs
  <2>2. Produced \in Nat /\ (Produced = 0 \/ Produced < Expect(cur))
    BY <1>1, ProducedIs
  <2> QED
    BY <2>1, <2>2
<1>4. /\ sent # <<>> \/ job.wait = 0 => Expect(cur) = 0 /\ back = <<>> /\ tx = <<>>
      /\ \A i \in 1 .. Len(sent) : i < Len(sent) \/ job.wait = 0 => Expect(sent[i]) = 0
      /\ job.wait > 0 /\ sent # <<>> => Expect(sent[Len(sent)]) = job.wait
      /\ job.wait > 0 /\ sent = <<>> => Expect(cur) = job.wait /\ back \o tx = SubSeq(r, 1, k)
  BY <1>1, <1>2, <1>3 DEF AnswerOK
<1>5. Yields => k < Len(r) /\ tx' = Append(tx, r[k + 1])
  BY <1>3 DEF Yields
<1>6. sent # <<>> \/ job.wait = 0 => tx' = <<>>
  <2> SUFFICES ASSUME sent # <<>> \/ job.wait = 0 PROVE tx' = <<>>
    OBVIOUS
  <2>1. ~Yields
    BY <1>3, <1>4, <1>5
  <2>2. tx' = tx
    BY <2>1 DEF GoesOn, Finishes
  <2> QED
    BY <1>4, <2>2
<1>7. job.wait > 0 /\ sent = <<>> =>
         /\ Yields => back \o tx' = SubSeq(r, 1, k + 1) /\ Len(back \o tx') = k + 1
         /\ tx' = tx /\ k = Len(r) => Len(back \o tx') = k
  <2> SUFFICES ASSUME job.wait > 0, sent = <<>>
               PROVE  /\ Yields => back \o tx' = SubSeq(r, 1, k + 1) /\ Len(back \o tx') = k + 1
                      /\ tx' = tx /\ k = Len(r) => Len(back \o tx') = k
    OBVIOUS
  <2>1. back \o tx = SubSeq(r, 1, k)
    BY <1>4
  <2>2. Yields => back \o tx' = SubSeq(r, 1, k + 1) /\ Len(back \o tx') = k + 1
    <3> SUFFICES ASSUME Yields PROVE back \o tx' = SubSeq(r, 1, k + 1) /\ Len(back \o tx') = k + 1
      OBVIOUS
    <3>1. back \in Seq(Octet) /\ tx \in Seq(Octet)
      BY <1>2
    <3>2. r \in Seq(Octet) /\ k \in Nat
      BY <1>3
    <3>3. k < Len(r) /\ tx' = Append(tx, r[k + 1])
      BY <1>5
    <3> HIDE <2>1
    <3> QED
      BY <2>1, <3>1, <3>2, <3>3, OneMore
  <2>3. tx' = tx /\ k = Len(r) => Len(back \o tx') = k
    BY <1>3, <2>1, SubSeqFull
  <2> QED
    BY <2>2, <2>3
<1>8. CASE GoesOn
  <2>1. cur' = cur /\ Answer(cur', nes') = r
    BY <1>3, <1>8 DEF GoesOn
  <2>2. (tx' = tx /\ Produced' = k) \/ (Yields /\ Produced' = k + 1)
    BY <1>3, <1>8 DEF GoesOn
  <2>3. job.wait > 0 /\ sent = <<>> => back' \o tx' = SubSeq(Answer(cur', nes'), 1, Produced')
    BY <1>4, <1>7, <2>1, <2>2
  <2> QED
    BY <1>1, <1>4, <1>6, <2>1, <2>3 DEF AnswerOK
<1>9. CASE Finishes
  <2>1. cur' = NoCmd
    BY <1>9 DEF Finishes
  <2>2. (tx' = tx /\ k = Len(r)) \/ (Yields /\ k + 1 = Len(r))
    BY <1>3, <1>9 DEF Finishes
  <2>3. job.wait > 0 /\ sent = <<>> => Len(back' \o tx') = job.wait
    BY <1>3, <1>4, <1>7, <2>2
  <2> QED
    BY <1>1, <1>4, <1>6, <2>1, <2>3 DEF AnswerOK
<1> QED
  BY <1>8, <1>9

LEMMA HaltTaken ==
  ASSUME LinkTypes, LinkInv, sent # <<>>, sent' = Tail(sent), nes'.halted = Settles(sent[1], nes.halted),
         job' = job, held' = held, buf' = buf,
         job.then = "wait" /\ job.cmds = <<>> /\ Len(sent) = 1 =>
           cur' = NoCmd /\ ((back' \o tx')[1] # 0 => nes'.halted)
  PROVE  HaltOK'
<1>1. IsQueue(sent) /\ HaltOK
  BY DEF LinkInv, StreamOK
<1>2. /\ Len(sent) \in {1, 2} /\ Len(sent') = Len(sent) - 1 /\ (sent' = <<>> <=> Len(sent) = 1)
      /\ Len(sent) = 2 => sent'[1] = sent[2]
  BY <1>1, TailOf
<1>3. held => Settled
  BY <1>1 DEF HaltOK
<1>4. Len(sent) = 2 => sent[2].op \in Breaks \/ Settles(sent[1], nes.halted)
  BY <1>1 DEF HaltOK
<1>5. job.then = "wait" /\ job.cmds = <<>> => job.wait = 1 /\ job.wait # 0 /\ sent[Len(sent)] = Simple("QueryHlt")
  BY <1>1 DEF HaltOK
<1>6. CASE Len(sent) = 1
  <2>1. sent' = <<>> /\ Len(sent') # 2
    BY <1>2, <1>6
  <2>2. Settled' = nes'.halted
    BY <2>1 DEF Settled
  <2>3. Settled = nes'.halted
    BY <1>6 DEF Settled
  <2> QED
    BY <1>3, <1>5, <1>6, <2>1, <2>2, <2>3 DEF HaltOK
<1>7. CASE Len(sent) = 2
  <2>1. sent' # <<>> /\ Len(sent') = 1 /\ Len(sent') # 2 /\ sent'[1] = sent[2]
    <3>1. Len(sent) # 1 /\ Len(sent') = 1
      BY <1>2, <1>7
    <3> QED
      BY <1>2, <1>7, <3>1
  <2>2. Settled' = Settles(sent[2], Settles(sent[1], nes.halted))
    BY <2>1 DEF Settled, Settles
  <2>3. Len(sent) # 1
    BY <1>7
  <2>4. Settled = Settles(sent[2], Settles(sent[1], nes.halted))
    BY <2>3 DEF Settled
  <2>5. sent'[Len(sent')] = sent[Len(sent)]
    BY <1>7, <2>1
  <2>6. held' => Settled'
    BY <1>3, <2>2, <2>4
  <2>7. sent'[1].op \in Breaks \/ nes'.halted
    BY <1>4, <1>7, <2>1
  <2>8. job'.then = "wait" /\ job'.cmds = <<>> =>
          job'.wait = 1 /\ job'.wait # 0 /\ sent'[Len(sent')] = Simple("QueryHlt")
    BY <1>5, <2>5
  <2> QED
    BY <2>1, <2>6, <2>7, <2>8 DEF HaltOK
<1> QED
  BY <1>2, <1>6, <1>7

LEMMA HaltAtOnce ==
  ASSUME LinkTypes, LinkInv, AtOnce, job' = job, held' = held, buf' = buf, back' = back
  PROVE  HaltOK'
<1>1. /\ sent # <<>> /\ cur' = NoCmd /\ sent' = Tail(sent) /\ nes' = Effect(sent[1], nes)
      /\ back = <<>> /\ tx' = Answer(sent[1], nes)
  BY DEF AtOnce
<1>2. IsQueue(sent) /\ HaltOK
  BY DEF LinkInv, StreamOK
<1>3. IsCommand(sent[1]) /\ IsMachine(nes)
  BY <1>1, <1>2, QueueTail DEF LinkTypes, HwTypes
<1>4. nes'.halted = Settles(sent[1], nes.halted)
  BY <1>1, <1>3, EffectIs
<1>5. job.then = "wait" /\ job.cmds = <<>> /\ Len(sent) = 1 =>
           cur' = NoCmd /\ ((back' \o tx')[1] # 0 => nes'.halted)
  <2> SUFFICES ASSUME job.then = "wait", job.cmds = <<>>, Len(sent) = 1
               PROVE  (back' \o tx')[1] # 0 => nes'.halted
    BY <1>1
  <2>1. sent[1] = Simple("QueryHlt")
    BY <1>1, <1>2 DEF HaltOK
  <2>2. sent[1].op = "QueryHlt"
    BY <2>1 DEF Simple, Cmd
  <2>3. nes' = nes
    BY <1>1, <2>2, EffectQuery
  <2>4. PICK b : b = (IF nes.halted THEN 1 ELSE 0) /\ tx' = <<b>> /\ b \in Octet
    <3>1. tx' = <<IF nes.halted THEN 1 ELSE 0>>
      BY <1>1, <2>2, AnswerParts
    <3>2. (IF nes.halted THEN 1 ELSE 0) \in Octet
      BY DEF Octet, BYTE
    <3> QED
      BY <3>1, <3>2
  <2>5. back' \o tx' = <<b>>
    <3>1. <<b>> \in Seq(Octet)
      BY <2>4
    <3>2. <<>> \o <<b>> = <<b>>
      BY <3>1, ConcatEmptySeq
    <3> QED
      BY <1>1, <2>4, <3>2
  <2>6. (back' \o tx')[1] = b
    BY <2>5
  <2> QED
    BY <2>3, <2>4, <2>6
<1> QED
  BY <1>1, <1>4, <1>5, HaltTaken

LEMMA HaltBegins ==
  ASSUME LinkTypes, LinkInv, Begins, job' = job, held' = held, buf' = buf, back' = back
  PROVE  HaltOK'
<1>1. /\ sent # <<>> /\ sent' = Tail(sent) /\ nes' = nes
      /\ sent[1].op \notin {"DbgHlt", "DbgRun", "QueryHlt"}
  BY DEF Begins
<1>2. HaltOK
  BY DEF LinkInv
<1>3. nes'.halted = Settles(sent[1], nes.halted)
  BY <1>1 DEF Settles
<1>4. ~(job.then = "wait" /\ job.cmds = <<>> /\ Len(sent) = 1)
  <2> SUFFICES ASSUME job.then = "wait", job.cmds = <<>>, Len(sent) = 1 PROVE FALSE
    OBVIOUS
  <2>1. sent[1] = Simple("QueryHlt")
    BY <1>1, <1>2 DEF HaltOK
  <2>2. sent[1].op = "QueryHlt"
    BY <2>1 DEF Simple, Cmd
  <2> QED
    BY <1>1, <2>2
<1> QED
  BY <1>1, <1>3, <1>4, HaltTaken

LEMMA HaltGoesOn ==
  ASSUME LinkTypes, LinkInv, GoesOn \/ Finishes, job' = job, held' = held, buf' = buf, back' = back,
         IsMachine(nes')
  PROVE  HaltOK'
<1>1. cur # NoCmd /\ sent' = sent /\ nes.halted /\ nes'.halted
  BY DEF GoesOn, Finishes
<1>2. HaltOK /\ IsMachine(nes)
  BY DEF LinkInv, LinkTypes, HwTypes
<1>3. nes'.halted = nes.halted
  BY <1>1, <1>2, MachOf
<1>4. Settled' = Settled
  BY <1>1, <1>3 DEF Settled, Settles
<1>5. job.then = "wait" /\ job.cmds = <<>> =>
        job.wait # 0 /\ job.wait = 1 /\ sent # <<>> /\ sent[Len(sent)] = Simple("QueryHlt")
  BY <1>1, <1>2 DEF HaltOK
<1>6. Len(sent) = 2 => sent[2].op \in Breaks \/ Settles(sent[1], nes'.halted)
  BY <1>2, <1>3 DEF HaltOK
<1> QED
  BY <1>1, <1>2, <1>4, <1>5, <1>6 DEF HaltOK

LEMMA DividedInt ==
  ASSUME NEW b \in Int, b > 0, NEW i \in Int
  PROVE  i = b * (i \div b) + (i % b)
OBVIOUS

LEMMA Divided ==
  ASSUME NEW b \in Nat \ {0}, NEW i \in Nat
  PROVE  /\ i \div b \in Nat /\ i % b \in 0 .. b - 1 /\ i = b * (i \div b) + (i % b)
<1>1. i \div b \in Nat /\ i % b \in 0 .. b - 1
  OBVIOUS
<1>2. b \in Int /\ b > 0 /\ i \in Int
  OBVIOUS
<1> QED
  BY <1>1, <1>2, DividedInt

LEMMA Multiples ==
  ASSUME NEW b \in Nat, NEW i \in Nat, NEW n \in Nat, i < n
  PROVE  b * i \in Nat /\ b * n \in Nat /\ b * i + b <= b * n
<1>1. PICK d \in Nat : d = n - i - 1
  OBVIOUS
<1>2. b * d \in Nat /\ b * i \in Nat /\ b * n \in Nat
  OBVIOUS
<1>3. n = i + 1 + d
  BY <1>1
<1>4. b * n = b * i + b + b * d
  BY <1>3
<1> QED
  BY <1>2, <1>4

LEMMA Exact ==
  ASSUME NEW b \in Nat \ {0}, NEW s \in Nat, s % b = 0
  PROVE  s \div b \in Nat /\ b * (s \div b) = s
<1>1. PICK q : q = s \div b /\ q \in Nat /\ s = b * q + (s % b)
  BY Divided
<1>2. b * q \in Int /\ s = b * q + 0
  BY <1>1
<1>3. s = b * q
  BY <1>2
<1> QED
  BY <1>1, <1>3

LEMMA NoRemainder ==
  ASSUME NEW b \in Nat \ {0}, NEW k \in Nat
  PROVE  (b * k) % b = 0
<1>1. b * k \in Nat
  OBVIOUS
<1>2. PICK q, r : q = (b * k) \div b /\ r = (b * k) % b /\ q \in Nat /\ r \in 0 .. b - 1
                  /\ b * k = b * q + r
  <2>1. PICK v \in Nat : v = b * k
    BY <1>1
  <2>2. v \div b \in Nat /\ v % b \in 0 .. b - 1 /\ v = b * (v \div b) + (v % b)
    BY Divided
  <2> QED
    BY <2>1, <2>2
<1>3. CASE q < k
  <2>1. b * q + b <= b * k /\ b * q \in Nat
    BY <1>2, <1>3, Multiples
  <2> QED
    BY <1>1, <1>2, <2>1
<1>4. CASE k < q
  <2>1. b * k + b <= b * q /\ b * q \in Nat
    BY <1>2, <1>4, Multiples
  <2> QED
    BY <1>1, <1>2, <2>1
<1>5. CASE k = q
  BY <1>1, <1>2, <1>5
<1> QED
  BY <1>2, <1>3, <1>4, <1>5

LEMMA Times ==
  ASSUME NEW b \in Nat, NEW k \in Nat, NEW n \in Nat
  PROVE  b * (k * n) = k * (b * n) /\ k * n \in Nat
OBVIOUS

LEMMA BlockOf ==
  ASSUME NEW b \in Nat \ {0}, NEW n \in Nat, NEW i \in 0 .. b * n - 1
  PROVE  i \div b \in 0 .. n - 1
<1>1. PICK q, r : q = i \div b /\ r = i % b /\ q \in Nat /\ r \in 0 .. b - 1 /\ i = b * q + r
  <2>1. b * n \in Nat
    OBVIOUS
  <2>2. i \in Nat
    BY <2>1
  <2>3. i \div b \in Nat /\ i % b \in 0 .. b - 1 /\ i = b * (i \div b) + (i % b)
    BY <2>2, Divided
  <2> QED
    BY <2>3
<1>2. CASE q < n
  BY <1>1, <1>2
<1>3. CASE ~(q < n)
  <2>1. b * n <= b * q
    <3>1. CASE n = q
      BY <3>1, <1>1
    <3>2. CASE n # q
      <4>1. n < q
        BY <1>1, <1>3, <3>2
      <4>2. b * n + b <= b * q /\ b * n \in Nat /\ b * q \in Nat
        BY <1>1, <4>1, Multiples
      <4> QED
        BY <4>2
    <3> QED
      BY <3>1, <3>2
  <2>2. b * q \in Nat /\ b * n \in Nat
    BY <1>1
  <2> QED
    BY <1>1, <2>1, <2>2
<1> QED
  BY <1>2, <1>3

(* The packets of LoadRom (nesdbg.cpp:178-335).                            *)
Block(f, from) == [k \in 1 .. BLOCK |-> FileData(f, from + k - 1)]
BlockCmd(f, op, base, from) == Cmd(op, base, Block(f, from), 0)
RegCmd(f, r, i) == Cmd("CpuRegWr", r, <<FileData(f, i)>>, 0)
Commands ==
  {c \in {Cmd(o, a, d, 0) : o \in DOMAIN Op \ {"QueryErrCode"}, a \in Word, d \in Seq(Octet)} :
     IsCommand(c)}

LEMMA BlockSize == BLOCK \in Nat \ {0} /\ BLOCK \in Word /\ BLOCK \in Int /\ BLOCK <= WORD
<1>1. BLOCK \in Word \ {0}
  BY DebuggerAssumption
<1>2. BLOCK \in Int /\ 0 <= BLOCK /\ BLOCK < 65536 /\ BLOCK # 0
  BY <1>1, WordIs, SMT
<1>3. BLOCK <= WORD
  BY <1>2, WordSize, SMT
<1> QED
  BY <1>1, <1>2, <1>3

LEMMA BankSizes ==
  ASSUME NEW f \in Roms, RomAccepted(f)
  PROVE  /\ f.hdr \in Seq(Octet) /\ Len(f.hdr) = 16 /\ f.body \in Seq(Octet)
         /\ Prg(f) \in Nat /\ Prg(f) <= 32768 /\ (Prg(f) = 0 \/ Prg(f) >= 4)
         /\ Chr(f) \in Nat /\ Chr(f) <= 65536
         /\ Len(f.body) \in Nat /\ Len(f.body) >= Prg(f) + Chr(f)
         /\ PrgBlocks(f) \in Nat /\ BLOCK * PrgBlocks(f) = Prg(f)
         /\ ChrBlocks(f) \in Nat /\ BLOCK * ChrBlocks(f) = Chr(f)
<1>1. /\ f.hdr \in Seq(Octet) /\ Len(f.hdr) = 16 /\ f.body \in Seq(Octet)
      /\ f.hdr[5] <= 2 /\ f.hdr[6] <= 1 => Len(f.body) >= f.hdr[5] * PRGBANK + f.hdr[6] * CHRBANK
  BY InputAssumption
<1>2. f.hdr[5] <= 2 /\ f.hdr[6] <= 1
  BY DEF RomAccepted
<1>3. f.hdr[5] \in Octet /\ f.hdr[6] \in Octet
  <2>1. 5 \in 1 .. Len(f.hdr) /\ 6 \in 1 .. Len(f.hdr)
    BY <1>1
  <2> QED
    BY <1>1, <2>1, ElementOfSeq
<1>4. PICK h, g : h = f.hdr[5] /\ g = f.hdr[6] /\ h \in {0, 1, 2} /\ g \in {0, 1}
  <2>1. f.hdr[5] \in 0 .. 255 /\ f.hdr[6] \in 0 .. 255
    BY <1>3 DEF Octet, BYTE
  <2>2. f.hdr[5] \in {0, 1, 2} /\ f.hdr[6] \in {0, 1}
    BY <1>2, <2>1
  <2> QED
    BY <2>2
<1> DEFINE y == PRGBANK
<1> DEFINE z == CHRBANK
<1>5. /\ y = PRGBANK /\ z = CHRBANK /\ y \in 4 .. 16384 /\ z \in Nat /\ z <= 65536
      /\ y % BLOCK = 0 /\ z % BLOCK = 0
  <2>1. CHRBANK \in 1 .. WORD /\ CHRBANK % BLOCK = 0 /\ PRGBANK \in 4 .. 16384 /\ PRGBANK % BLOCK = 0
    BY DebuggerAssumption
  <2>2. CHRBANK \in Nat /\ CHRBANK <= 65536
    BY <2>1, UpToWord, SMT
  <2>3. PRGBANK \in 4 .. 16384 /\ PRGBANK % BLOCK = 0 /\ CHRBANK % BLOCK = 0
    BY <2>1
  <2> QED
    BY <2>2, <2>3
<1> HIDE DEF y, z
<1>6. h * y \in Nat /\ h * y <= 32768 /\ (h * y = 0 \/ h * y >= 4) /\ g * z \in Nat /\ g * z <= 65536
  <2>1. g * z \in Nat /\ g * z <= 65536
    <3>1. CASE g = 0
      BY <1>5, <3>1, SMT
    <3>2. CASE g = 1
      BY <1>5, <3>2, SMT
    <3> QED
      BY <1>4, <3>1, <3>2
  <2>2. h * y \in Nat /\ h * y <= 32768 /\ (h * y = 0 \/ h * y >= 4)
    <3>1. CASE h = 0
      BY <1>5, <3>1, SMT
    <3>2. CASE h = 1
      BY <1>5, <3>2, SMT
    <3>3. CASE h = 2
      BY <1>5, <3>3, SMT
    <3> QED
      BY <1>4, <3>1, <3>2, <3>3
  <2> QED
    BY <2>1, <2>2
<1>7. PICK p, c : /\ p = y \div BLOCK /\ p \in Nat /\ BLOCK * p = y
                  /\ c = z \div BLOCK /\ c \in Nat /\ BLOCK * c = z
  <2>1. BLOCK \in Nat \ {0} /\ y \in Nat /\ z \in Nat
    BY <1>5, BlockSize
  <2>2. y \div BLOCK \in Nat /\ BLOCK * (y \div BLOCK) = y
    BY <1>5, <2>1, Exact
  <2>3. z \div BLOCK \in Nat /\ BLOCK * (z \div BLOCK) = z
    BY <1>5, <2>1, Exact
  <2> QED
    BY <2>2, <2>3
<1>8. /\ (h * y) \div BLOCK \in Nat /\ BLOCK * ((h * y) \div BLOCK) = h * y
      /\ (g * z) \div BLOCK \in Nat /\ BLOCK * ((g * z) \div BLOCK) = g * z
  <2>1. (h * y) % BLOCK = 0 /\ (g * z) % BLOCK = 0
    <3>1. BLOCK * (h * p) = h * y /\ BLOCK * (g * c) = g * z /\ h * p \in Nat /\ g * c \in Nat
      <4>1. BLOCK \in Nat /\ h \in Nat /\ g \in Nat /\ p \in Nat /\ c \in Nat
        BY <1>4, <1>7, BlockSize
      <4>2. BLOCK * (h * p) = h * (BLOCK * p) /\ h * p \in Nat
        BY <4>1, Times
      <4>3. BLOCK * (g * c) = g * (BLOCK * c) /\ g * c \in Nat
        BY <4>1, Times
      <4> QED
        BY <1>7, <4>2, <4>3
    <3>2. \A k \in Nat : (BLOCK * k) % BLOCK = 0
      BY BlockSize, NoRemainder
    <3> QED
      BY <3>1, <3>2
  <2>2. PICK v \in Nat, w \in Nat : v = h * y /\ w = g * z
    BY <1>6
  <2>3. v % BLOCK = 0 /\ w % BLOCK = 0
    BY <2>1, <2>2
  <2>4. v \div BLOCK \in Nat /\ BLOCK * (v \div BLOCK) = v
    BY <2>3, BlockSize, Exact
  <2>5. w \div BLOCK \in Nat /\ BLOCK * (w \div BLOCK) = w
    BY <2>3, BlockSize, Exact
  <2> QED
    BY <2>2, <2>4, <2>5
<1>9. Prg(f) = h * y /\ Chr(f) = g * z
  BY <1>4, <1>5 DEF Prg, Chr
<1>10. Len(f.body) \in Nat /\ Len(f.body) >= Prg(f) + Chr(f)
  BY <1>1, <1>2 DEF Prg, Chr
<1> QED
  BY <1>1, <1>6, <1>8, <1>9, <1>10 DEF PrgBlocks, ChrBlocks

LEMMA FileBytes ==
  ASSUME NEW f \in Roms, RomAccepted(f), NEW i \in Nat, i < 16 + Prg(f) + Chr(f)
  PROVE  FileData(f, i) \in Octet /\ (i >= 16 => FileData(f, i) = f.body[i - 15])
<1>1. PICK h, b : h = f.hdr /\ b = f.body /\ h \in Seq(Octet) /\ b \in Seq(Octet) /\ Len(h) = 16
  BY BankSizes
<1> DEFINE n == Len(b)
<1> DEFINE l == Prg(f) + Chr(f)
<1>2. n = Len(b) /\ n \in Nat /\ l \in Nat /\ n >= l /\ i < 16 + l
  <2>1. Prg(f) \in Nat /\ Chr(f) \in Nat /\ Len(f.body) \in Nat /\ Len(f.body) >= Prg(f) + Chr(f)
    BY BankSizes
  <2>2. Len(b) = Len(f.body)
    BY <1>1
  <2> QED
    BY <2>1, <2>2
<1> HIDE DEF n, l
<1>3. /\ \A j \in 1 .. 16 : (h \o b)[j] = h[j] /\ h[j] \in Octet
      /\ \A j \in 1 .. n : (h \o b)[16 + j] = b[j] /\ b[j] \in Octet
  <2>1. /\ \A j \in 1 .. Len(h) : (h \o b)[j] = h[j]
        /\ \A j \in 1 .. Len(b) : (h \o b)[Len(h) + j] = b[j]
    <3>1. h \in Seq(Octet) /\ b \in Seq(Octet)
      BY <1>1
    <3> QED
      BY <3>1, Joined
  <2>2. (\A j \in 1 .. Len(h) : h[j] \in Octet) /\ (\A j \in 1 .. Len(b) : b[j] \in Octet)
    BY <1>1, ElementOfSeq
  <2> QED
    BY <1>1, <1>2, <2>1, <2>2
<1>4. FileData(f, i) = (h \o b)[i + 1]
  BY <1>1 DEF FileData
<1>5. CASE i < 16
  <2>1. i + 1 \in 1 .. 16 /\ ~(i >= 16)
    BY <1>5
  <2> QED
    BY <1>3, <1>4, <2>1
<1>6. CASE ~(i < 16)
  <2>1. i - 15 \in 1 .. n /\ 16 + (i - 15) = i + 1
    BY <1>2, <1>6
  <2> QED
    BY <1>1, <1>3, <1>4, <2>1
<1> QED
  BY <1>5, <1>6

LEMMA FunSeq ==
  ASSUME NEW S, NEW n \in Nat, NEW r \in [1 .. n -> S]
  PROVE  r \in Seq(S) /\ Len(r) = n
OBVIOUS

IsBlock(f, from) ==
  /\ Block(f, from) \in Seq(Octet) /\ Len(Block(f, from)) = BLOCK
  /\ \A k \in 1 .. BLOCK : Block(f, from)[k] = f.body[from - 16 + k]
LEMMA BlockData ==
  ASSUME NEW f \in Roms, RomAccepted(f), NEW from \in Nat, 16 <= from,
         from + BLOCK <= 16 + Prg(f) + Chr(f)
  PROVE  IsBlock(f, from)
<1>1. PICK b, l : b = BLOCK /\ b \in Nat \ {0} /\ l = Prg(f) + Chr(f) /\ l \in Nat /\ from + b <= 16 + l
  <2>1. Prg(f) \in Nat /\ Chr(f) \in Nat
    BY BankSizes
  <2> QED
    BY <2>1, BlockSize
<1>2. \A k \in 1 .. b : /\ FileData(f, from + k - 1) \in Octet
                        /\ FileData(f, from + k - 1) = f.body[from - 16 + k]
  <2> SUFFICES ASSUME NEW k \in 1 .. b
               PROVE  /\ FileData(f, from + k - 1) \in Octet
                      /\ FileData(f, from + k - 1) = f.body[from - 16 + k]
    OBVIOUS
  <2>1. PICK i \in Nat : i = from + k - 1 /\ i >= 16 /\ i < 16 + l /\ i - 15 = from - 16 + k
    BY <1>1
  <2>2. i < 16 + Prg(f) + Chr(f)
    <3>1. Prg(f) \in Nat /\ Chr(f) \in Nat
      BY BankSizes
    <3> QED
      BY <1>1, <2>1, <3>1
  <2>3. FileData(f, i) \in Octet /\ (i >= 16 => FileData(f, i) = f.body[i - 15])
    BY <2>2, FileBytes
  <2> QED
    BY <2>1, <2>3
<1>3. Block(f, from) = [k \in 1 .. b |-> FileData(f, from + k - 1)]
  BY <1>1 DEF Block
<1>4. Block(f, from) \in Seq(Octet) /\ Len(Block(f, from)) = b
  <2>1. \A k \in 1 .. b : FileData(f, from + k - 1) \in Octet
    BY <1>2
  <2>2. Block(f, from) \in [1 .. b -> Octet]
    BY <1>3, <2>1
  <2> QED
    BY <1>1, <2>2, FunSeq
<1> QED
  <2>1. \A k \in 1 .. b : Block(f, from)[k] = f.body[from - 16 + k]
    <3> SUFFICES ASSUME NEW k \in 1 .. b PROVE Block(f, from)[k] = f.body[from - 16 + k]
      OBVIOUS
    <3>1. Block(f, from)[k] = FileData(f, from + k - 1)
      BY <1>3
    <3> QED
      BY <1>2, <3>1
  <2> QED
    BY <1>1, <1>4, <2>1 DEF IsBlock

LEMMA InCommands ==
  ASSUME NEW o \in DOMAIN Op \ {"QueryErrCode"}, NEW a \in Word, NEW d \in Seq(Octet),
         IsCommand(Cmd(o, a, d, 0))
  PROVE  Cmd(o, a, d, 0) \in Commands
BY DEF Commands

LEMMA WriteCommand ==
  ASSUME NEW o \in {"CpuMemWr", "PpuMemWr"}, NEW a \in Word, NEW d \in Seq(Octet), Len(d) \in Word
  PROVE  IsCommand(Cmd(o, a, d, 0)) /\ Cmd(o, a, d, 0) \in Commands
<1>1. PICK c : c = Cmd(o, a, d, 0)
  OBVIOUS
<1>2. c.op = o /\ c.addr = a /\ c.data = d /\ c.n = 0
  BY <1>1 DEF Cmd
<1>3. o \in DOMAIN Op \ {"QueryErrCode"} /\ 0 \in Word
  BY OpCodes, Zeros
<1>4. c = Cmd(c.op, c.addr, c.data, c.n)
  BY <1>1, <1>2
<1>5. IsCommand(c)
  BY <1>2, <1>3, <1>4 DEF IsCommand
<1> QED
  BY <1>1, <1>3, <1>5 DEF Commands

LEMMA OtherCommands ==
  /\ \A o \in {"DbgHlt", "DbgRun", "QueryHlt", "PpuDisable"} :
       IsCommand(Simple(o)) /\ Simple(o) \in Commands
  /\ \A r \in 0 .. 6, b \in Octet :
       IsCommand(Cmd("CpuRegWr", r, <<b>>, 0)) /\ Cmd("CpuRegWr", r, <<b>>, 0) \in Commands
  /\ \A d \in Seq(Octet) : Len(d) = 5 =>
       IsCommand(Cmd("CartSetCfg", 0, d, 0)) /\ Cmd("CartSetCfg", 0, d, 0) \in Commands
<1>1. 0 \in Word /\ 1 \in Word /\ 5 \in Word /\ <<>> \in Seq(Octet) /\ Len(<<>>) = 0
      /\ \A r \in 0 .. 6 : r \in Word
  BY WordIs, SMT
<1>2. ASSUME NEW o \in {"DbgHlt", "DbgRun", "QueryHlt", "PpuDisable"}
      PROVE  IsCommand(Simple(o)) /\ Simple(o) \in Commands
  <2>1. PICK c : c = Cmd(o, 0, <<>>, 0)
    OBVIOUS
  <2>2. c.op = o /\ c.addr = 0 /\ c.data = <<>> /\ c.n = 0 /\ c = Cmd(c.op, c.addr, c.data, c.n)
    BY <2>1 DEF Cmd
  <2>3. o \in DOMAIN Op \ {"QueryErrCode"} /\ o \notin {"CpuRegRd", "CpuRegWr", "CartSetCfg"}
    BY OpCodes
  <2>4. IsCommand(c)
    BY <1>1, <2>2, <2>3 DEF IsCommand
  <2> QED
    <3>1. c \in Commands
      <4>1. 0 \in Word /\ <<>> \in Seq(Octet) /\ IsCommand(Cmd(o, 0, <<>>, 0))
        BY <1>1, <2>1, <2>4
      <4> QED
        BY <2>1, <2>3, <4>1, InCommands
    <3>2. Simple(o) = c
      BY <2>1 DEF Simple
    <3> QED
      BY <2>4, <3>1, <3>2
<1>3. ASSUME NEW r \in 0 .. 6, NEW b \in Octet
      PROVE  IsCommand(Cmd("CpuRegWr", r, <<b>>, 0)) /\ Cmd("CpuRegWr", r, <<b>>, 0) \in Commands
  <2>1. PICK c, o : o = "CpuRegWr" /\ c = Cmd(o, r, <<b>>, 0)
    OBVIOUS
  <2>2. c.op = o /\ c.addr = r /\ c.data = <<b>> /\ c.n = 0 /\ c = Cmd(c.op, c.addr, c.data, c.n)
    BY <2>1 DEF Cmd
  <2>3. o \in DOMAIN Op \ {"QueryErrCode"} /\ <<b>> \in Seq(Octet) /\ Len(<<b>>) = 1
    BY <2>1, OpCodes, ShortTuple
  <2>4. IsCommand(c)
    BY <1>1, <2>1, <2>2, <2>3 DEF IsCommand
  <2> QED
    BY <1>1, <2>1, <2>3, <2>4, SMTT(20) DEF Commands
<1>4. ASSUME NEW d \in Seq(Octet), Len(d) = 5
      PROVE  IsCommand(Cmd("CartSetCfg", 0, d, 0)) /\ Cmd("CartSetCfg", 0, d, 0) \in Commands
  <2>1. PICK c, o : o = "CartSetCfg" /\ c = Cmd(o, 0, d, 0)
    OBVIOUS
  <2>2. c.op = o /\ c.addr = 0 /\ c.data = d /\ c.n = 0 /\ c = Cmd(c.op, c.addr, c.data, c.n)
    BY <2>1 DEF Cmd
  <2>3. o \in DOMAIN Op \ {"QueryErrCode"}
    BY <2>1, OpCodes
  <2>4. IsCommand(c)
    BY <1>1, <1>4, <2>1, <2>2, <2>3 DEF IsCommand
  <2> QED
    BY <1>1, <2>1, <2>3, <2>4 DEF Commands
<1> QED
  BY <1>2, <1>3, <1>4

LEMMA BlocksAre ==
  ASSUME NEW f \in Roms, RomAccepted(f), NEW o \in {"CpuMemWr", "PpuMemWr"}, NEW base \in Nat,
         NEW from \in Nat, NEW size, NEW n \in Nat, n = size \div BLOCK, base + BLOCK * n <= 65536,
         16 <= from, from + BLOCK * n <= 16 + Prg(f) + Chr(f),
         NEW s, s = Blocks(f, o, base, from, size)
  PROVE  /\ s \in Seq(Commands) /\ Len(s) = n
         /\ \A i \in 1 .. n : s[i] = BlockCmd(f, o, base + BLOCK * (i - 1), from + BLOCK * (i - 1))
<1>1. ASSUME NEW i \in 1 .. n
      PROVE  BlockCmd(f, o, base + BLOCK * (i - 1), from + BLOCK * (i - 1)) \in Commands
  <2>1. PICK b, q : /\ b = BLOCK /\ q = BLOCK * (i - 1) /\ b \in Nat \ {0} /\ q \in Nat
                    /\ q + b <= BLOCK * n /\ BLOCK * n \in Nat
    <3>1. i - 1 \in Nat /\ i - 1 < n /\ BLOCK \in Nat \ {0}
      BY BlockSize
    <3>2. BLOCK * (i - 1) \in Nat /\ BLOCK * n \in Nat /\ BLOCK * (i - 1) + BLOCK <= BLOCK * n
      BY <3>1, Multiples
    <3> QED
      BY <3>1, <3>2
  <2>2. PICK a, w : a = base + q /\ w = from + q /\ a \in Nat /\ w \in Nat /\ a < 65536 /\ 16 <= w
                    /\ w + BLOCK <= from + BLOCK * n
    BY <2>1
  <2>3. w + BLOCK <= 16 + Prg(f) + Chr(f)
    <3>1. Prg(f) \in Nat /\ Chr(f) \in Nat
      BY BankSizes
    <3> QED
      BY <2>1, <2>2, <3>1
  <2>4. Block(f, w) \in Seq(Octet) /\ Len(Block(f, w)) \in Word
    BY <2>2, <2>3, BlockData, BlockSize DEF IsBlock
  <2>5. a \in Word
    BY <2>2, WordIs, SMT
  <2>6. PICK d : d = Block(f, w) /\ d \in Seq(Octet) /\ Len(d) \in Word
    BY <2>4
  <2>7. BlockCmd(f, o, a, w) \in Commands
    <3>1. Cmd(o, a, d, 0) \in Commands
      BY <2>5, <2>6, WriteCommand
    <3> QED
      BY <2>6, <3>1 DEF BlockCmd
  <2>8. a = base + BLOCK * (i - 1) /\ w = from + BLOCK * (i - 1)
    BY <2>1, <2>2
  <2> QED
    BY <2>7, <2>8
<1>2. s = [i \in 1 .. n |-> BlockCmd(f, o, base + BLOCK * (i - 1), from + BLOCK * (i - 1))]
  BY DEF Blocks, BlockCmd, Block
<1> QED
  BY <1>1, <1>2

IsJoin(r, s, t) ==
  /\ Len(r) = Len(s) + Len(t) /\ Len(s) \in Nat /\ Len(t) \in Nat
  /\ \A i \in 1 .. Len(s) : r[i] = s[i]
  /\ \A i \in 1 .. Len(t) : r[Len(s) + i] = t[i]
LEMMA JoinIs ==
  ASSUME NEW S, NEW s \in Seq(S), NEW t \in Seq(S)
  PROVE  s \o t \in Seq(S) /\ IsJoin(s \o t, s, t)
BY DEF IsJoin

IsFour(r, S, h, a, b, t, p, c) ==
  /\ r \in Seq(S) /\ p \in Nat /\ c \in Nat /\ Len(r) = 6 + p + c
  /\ \A i \in 1 .. 3 : r[i] = h[i]
  /\ \A i \in 1 .. p : r[3 + i] = a[i]
  /\ \A i \in 1 .. c : r[3 + p + i] = b[i]
  /\ \A i \in 1 .. 3 : r[3 + p + c + i] = t[i]
LEMMA FourParts ==
  ASSUME NEW S, NEW h \in Seq(S), NEW a \in Seq(S), NEW b \in Seq(S), NEW t \in Seq(S),
         3 = Len(h), 3 = Len(t)
  PROVE  IsFour(((h \o a) \o b) \o t, S, h, a, b, t, Len(a), Len(b))
<1> DEFINE p == Len(a)
<1> DEFINE c == Len(b)
<1> DEFINE r == ((h \o a) \o b) \o t
<1>0. p = Len(a) /\ c = Len(b) /\ r = ((h \o a) \o b) \o t
  OBVIOUS
<1> HIDE DEF p, c, r
<1>1. PICK x \in Seq(S) : x = h \o a /\ IsJoin(x, h, a)
  BY JoinIs
<1>2. /\ Len(x) = 3 + p /\ p \in Nat /\ \A i \in 1 .. 3 : x[i] = h[i]
      /\ \A i \in 1 .. p : x[3 + i] = a[i]
  <2>1. IsJoin(x, h, a)
    BY <1>1
  <2> QED
    BY <1>0, <2>1 DEF IsJoin
<1>3. PICK y \in Seq(S) : y = x \o b /\ IsJoin(y, x, b)
  BY JoinIs
<1>4. /\ Len(y) = 3 + p + c /\ c \in Nat /\ \A i \in 1 .. 3 + p : y[i] = x[i]
      /\ \A i \in 1 .. c : y[3 + p + i] = b[i]
  <2>1. IsJoin(y, x, b)
    BY <1>3
  <2> QED
    BY <1>0, <1>2, <2>1 DEF IsJoin
<1>5. r \in Seq(S) /\ IsJoin(r, y, t)
  <2>1. y \o t \in Seq(S) /\ IsJoin(y \o t, y, t)
    BY JoinIs
  <2>2. r = y \o t
    BY <1>0, <1>1, <1>3
  <2> QED
    BY <2>1, <2>2
<1>6. /\ r \in Seq(S) /\ Len(r) = 3 + p + c + 3 /\ \A i \in 1 .. 3 + p + c : r[i] = y[i]
      /\ \A i \in 1 .. 3 : r[3 + p + c + i] = t[i]
  <2>1. IsJoin(r, y, t)
    BY <1>5
  <2>2. Len(y) = 3 + p + c
    BY <1>4
  <2> QED
    BY <1>5, <2>1, <2>2 DEF IsJoin
<1>7. /\ \A i \in 1 .. 3 : i \in 1 .. 3 + p /\ i \in 1 .. 3 + p + c
      /\ \A i \in 1 .. p : 3 + i \in 1 .. 3 + p /\ 3 + i \in 1 .. 3 + p + c
      /\ \A i \in 1 .. c : 3 + p + i \in 1 .. 3 + p + c
      /\ 3 + p + c + 3 = 6 + p + c
  BY <1>2, <1>4
<1>8. \A i \in 1 .. 3 : r[i] = h[i]
  BY <1>2, <1>4, <1>6, <1>7, Zenon
<1>9. \A i \in 1 .. p : r[3 + i] = a[i]
  BY <1>2, <1>4, <1>6, <1>7, Zenon
<1>10. \A i \in 1 .. c : r[3 + p + i] = b[i]
  BY <1>4, <1>6, <1>7, Zenon
<1>11. IsFour(r, S, h, a, b, t, p, c)
  BY <1>2, <1>4, <1>6, <1>7, <1>8, <1>9, <1>10, Zenon DEF IsFour
<1> QED
  BY <1>0, <1>11, Zenon

(* The packets LoadRom sends.                                              *)
LEMMA RomIs ==
  ASSUME NEW f \in Roms, RomAccepted(f), NEW r, r = RomPackets(f),
         NEW p, p = PrgBlocks(f), NEW c, c = ChrBlocks(f)
  PROVE  /\ r \in Seq(Commands) /\ p \in Nat /\ c \in Nat /\ Len(r) = 6 + p + c
         /\ r[1] = Simple("DbgHlt") /\ r[2] = Simple("PpuDisable")
         /\ r[3] = Cmd("CartSetCfg", 0, SubSeq(f.hdr, 5, 9), 0)
         /\ \A i \in 1 .. p :
              r[3 + i] = BlockCmd(f, "CpuMemWr", PrgBase + BLOCK * (i - 1), 16 + BLOCK * (i - 1))
         /\ \A i \in 1 .. c :
              r[3 + p + i] = BlockCmd(f, "PpuMemWr", 0 + BLOCK * (i - 1), 16 + Prg(f) + BLOCK * (i - 1))
         /\ r[3 + p + c + 1] = RegCmd(f, 0, 16 + Prg(f) - 4)
         /\ r[3 + p + c + 2] = RegCmd(f, 1, 16 + Prg(f) - 3)
         /\ r[3 + p + c + 3] = Simple("DbgRun")
<1>1. PICK g : g = SubSeq(f.hdr, 5, 9) /\ g \in Seq(Octet) /\ Len(g) = 5
  <2>1. f.hdr \in Seq(Octet) /\ Len(f.hdr) = 16
    BY BankSizes
  <2>2. SubSeq(f.hdr, 5, 9) \in Seq(Octet) /\ Len(SubSeq(f.hdr, 5, 9)) = 5
    BY <2>1
  <2> QED
    BY <2>2
<1>2. PICK k \in Nat, q \in Nat : k = Prg(f) /\ q = Chr(f)
  BY BankSizes
<1>3. k <= 32768 /\ q <= 65536 /\ BLOCK * p = k /\ BLOCK * c = q /\ p \in Nat /\ c \in Nat
  BY <1>2, BankSizes
<1>4. PICK h : /\ h = <<Simple("DbgHlt"), Simple("PpuDisable"), Cmd("CartSetCfg", 0, g, 0)>>
               /\ h \in Seq(Commands) /\ Len(h) = 3
  <2>1. PICK x \in Commands, y \in Commands, z \in Commands :
          x = Simple("DbgHlt") /\ y = Simple("PpuDisable") /\ z = Cmd("CartSetCfg", 0, g, 0)
    BY <1>1, OtherCommands
  <2>2. <<x, y, z>> \in Seq(Commands) /\ Len(<<x, y, z>>) = 3
    OBVIOUS
  <2> QED
    BY <2>1, <2>2
<1>5. PICK t : /\ t = <<RegCmd(f, 0, 16 + k - 4), RegCmd(f, 1, 16 + k - 3), Simple("DbgRun")>>
               /\ t \in Seq(Commands) /\ Len(t) = 3
  <2>1. PICK i \in Nat, j \in Nat : i = 16 + k - 4 /\ j = 16 + k - 3 /\ i < 16 + k + q /\ j < 16 + k + q
    BY <1>2
  <2>2. FileData(f, i) \in Octet /\ FileData(f, j) \in Octet
    BY <1>2, <2>1, FileBytes
  <2>3. PICK x \in Commands, y \in Commands, z \in Commands :
          x = RegCmd(f, 0, i) /\ y = RegCmd(f, 1, j) /\ z = Simple("DbgRun")
    BY <2>2, OtherCommands DEF RegCmd
  <2>4. <<x, y, z>> \in Seq(Commands) /\ Len(<<x, y, z>>) = 3
    OBVIOUS
  <2> QED
    BY <2>1, <2>3, <2>4
<1>6. PICK a : /\ a = Blocks(f, "CpuMemWr", PrgBase, 16, k) /\ a \in Seq(Commands) /\ Len(a) = p
               /\ \A i \in 1 .. p :
                    a[i] = BlockCmd(f, "CpuMemWr", PrgBase + BLOCK * (i - 1), 16 + BLOCK * (i - 1))
  <2>1. p = k \div BLOCK /\ PrgBase + BLOCK * p <= 65536 /\ 16 + BLOCK * p <= 16 + Prg(f) + Chr(f)
    BY <1>2, <1>3, SMT DEF PrgBlocks, PrgBase
  <2>2. PrgBase \in Nat /\ 16 \in Nat /\ 16 <= 16 /\ "CpuMemWr" \in {"CpuMemWr", "PpuMemWr"}
    BY SMT DEF PrgBase
  <2> QED
    BY <1>3, <2>1, <2>2, BlocksAre
<1>7. PICK b : /\ b = Blocks(f, "PpuMemWr", 0, 16 + k, q) /\ b \in Seq(Commands) /\ Len(b) = c
               /\ \A i \in 1 .. c :
                    b[i] = BlockCmd(f, "PpuMemWr", 0 + BLOCK * (i - 1), 16 + k + BLOCK * (i - 1))
  <2>1. c = q \div BLOCK /\ 0 + BLOCK * c <= 65536 /\ 16 + k + BLOCK * c <= 16 + Prg(f) + Chr(f)
    BY <1>2, <1>3 DEF ChrBlocks
  <2>2. 0 \in Nat /\ 16 + k \in Nat /\ 16 <= 16 + k /\ "PpuMemWr" \in {"CpuMemWr", "PpuMemWr"}
    OBVIOUS
  <2> QED
    BY <1>3, <2>1, <2>2, BlocksAre
<1>8. r = ((h \o a) \o b) \o t
  <2> DEFINE u == f.hdr[5] * PRGBANK
  <2> DEFINE v == f.hdr[6] * CHRBANK
  <2> DEFINE A == Blocks(f, "CpuMemWr", 32768, 16, u)
  <2>1. u = k /\ v = q
    BY <1>2 DEF Prg, Chr
  <2>2. CpuReg["Pcl"] = 0 /\ CpuReg["Pch"] = 1
    BY DEF CpuReg
  <2>3. RomPackets(f) =
          ((<<Simple("DbgHlt"), Simple("PpuDisable"), Cmd("CartSetCfg", 0, SubSeq(f.hdr, 5, 9), 0)>>
            \o A) \o Blocks(f, "PpuMemWr", 0, 16 + u, v))
          \o <<Cmd("CpuRegWr", CpuReg["Pcl"], <<FileData(f, 16 + u - 4)>>, 0),
               Cmd("CpuRegWr", CpuReg["Pch"], <<FileData(f, 16 + u - 3)>>, 0), Simple("DbgRun")>>
    BY SMTT(20) DEF RomPackets
  <2>4. A = Blocks(f, "CpuMemWr", PrgBase, 16, u)
    BY SMT DEF PrgBase
  <2> HIDE DEF u, v, A
  <2>5. h = <<Simple("DbgHlt"), Simple("PpuDisable"), Cmd("CartSetCfg", 0, SubSeq(f.hdr, 5, 9), 0)>>
    BY <1>1, <1>4, Zenon
  <2>6. a = A /\ b = Blocks(f, "PpuMemWr", 0, 16 + u, v)
    BY <1>6, <1>7, <2>1, <2>4, Zenon
  <2>7. t = <<Cmd("CpuRegWr", CpuReg["Pcl"], <<FileData(f, 16 + u - 4)>>, 0),
              Cmd("CpuRegWr", CpuReg["Pch"], <<FileData(f, 16 + u - 3)>>, 0), Simple("DbgRun")>>
    BY <1>5, <2>1, <2>2, Zenon DEF RegCmd
  <2> QED
    BY <2>3, <2>5, <2>6, <2>7, Zenon
<1>9. /\ r \in Seq(Commands) /\ Len(r) = 6 + p + c
      /\ \A i \in 1 .. 3 : r[i] = h[i]
      /\ \A i \in 1 .. p : r[3 + i] = a[i]
      /\ \A i \in 1 .. c : r[3 + p + i] = b[i]
      /\ \A i \in 1 .. 3 : r[3 + p + c + i] = t[i]
  <2>1. h \in Seq(Commands) /\ a \in Seq(Commands) /\ b \in Seq(Commands) /\ t \in Seq(Commands)
        /\ 3 = Len(h) /\ 3 = Len(t) /\ p = Len(a) /\ c = Len(b)
    BY <1>4, <1>5, <1>6, <1>7, Zenon
  <2>2. IsFour(r, Commands, h, a, b, t, p, c)
    <3>1. IsFour(((h \o a) \o b) \o t, Commands, h, a, b, t, Len(a), Len(b))
      BY <2>1, FourParts
    <3> QED
      BY <1>8, <2>1, <3>1, Zenon
  <2> QED
    BY <2>2, Zenon DEF IsFour
<1>10. 1 \in 1 .. 3 /\ 2 \in 1 .. 3 /\ 3 \in 1 .. 3
  OBVIOUS
<1>11. r[1] = h[1] /\ r[2] = h[2] /\ r[3] = h[3] /\ r[3 + p + c + 1] = t[1]
       /\ r[3 + p + c + 2] = t[2] /\ r[3 + p + c + 3] = t[3]
  BY <1>9, <1>10
<1>12. /\ h[1] = Simple("DbgHlt") /\ h[2] = Simple("PpuDisable") /\ h[3] = Cmd("CartSetCfg", 0, g, 0)
       /\ t[1] = RegCmd(f, 0, 16 + k - 4) /\ t[2] = RegCmd(f, 1, 16 + k - 3) /\ t[3] = Simple("DbgRun")
  BY <1>4, <1>5
<1>13. \A i \in 1 .. p :
         r[3 + i] = BlockCmd(f, "CpuMemWr", PrgBase + BLOCK * (i - 1), 16 + BLOCK * (i - 1))
  BY <1>6, <1>9, Zenon
<1>14. \A i \in 1 .. c :
         r[3 + p + i] = BlockCmd(f, "PpuMemWr", 0 + BLOCK * (i - 1), 16 + Prg(f) + BLOCK * (i - 1))
  BY <1>2, <1>7, <1>9, Zenon
<1>15. /\ r[3 + p + c + 1] = RegCmd(f, 0, 16 + Prg(f) - 4) /\ r[3 + p + c + 2] = RegCmd(f, 1, 16 + Prg(f) - 3)
       /\ r[3 + p + c + 3] = Simple("DbgRun")
  BY <1>2, <1>11, <1>12, Zenon
<1>16. r[1] = Simple("DbgHlt") /\ r[2] = Simple("PpuDisable")
       /\ r[3] = Cmd("CartSetCfg", 0, SubSeq(f.hdr, 5, 9), 0)
  BY <1>1, <1>11, <1>12, Zenon
<1>17. p \in Nat /\ c \in Nat
  BY <1>3
<1> QED
  BY <1>9, <1>13, <1>14, <1>15, <1>16, <1>17, Zenon

(* A block of a ROM leaves its bytes in its place, and those of the blocks *)
(* before it alone.                                                        *)
LEMMA InBlock ==
  ASSUME NEW i \in Nat
  PROVE  /\ i \div BLOCK \in Nat /\ i % BLOCK \in 0 .. BLOCK - 1
         /\ i = BLOCK * (i \div BLOCK) + (i % BLOCK) /\ BLOCK * (i \div BLOCK) \in Nat
<1>1. PICK b \in Nat \ {0} : b = BLOCK
  BY BlockSize
<1>2. i \div b \in Nat /\ i % b \in 0 .. b - 1 /\ i = b * (i \div b) + (i % b)
  BY Divided
<1>3. b * (i \div b) \in Nat
  BY <1>2
<1> QED
  BY <1>1, <1>2, <1>3

Took(x, y, base, d, i, k) ==
  /\ i \div BLOCK = k => i - BLOCK * k + 1 \in 1 .. BLOCK /\ Read(y, base + i) = d[i - BLOCK * k + 1]
  /\ i \div BLOCK # k => Read(y, base + i) = Read(x, base + i)
LEMMA BlockPlaced ==
  ASSUME NEW x, NEW base \in Nat, NEW k \in Nat, NEW s \in Nat, base + s <= 65536, BLOCK * k + BLOCK <= s,
         NEW d \in Seq(Octet), Len(d) = BLOCK, NEW i \in Nat, i < s, i \div BLOCK <= k,
         NEW a, a = base + BLOCK * k
  PROVE  Took(x, Put(x, a, d), base, d, i, k)
<1>0. PICK b \in Nat \ {0} : b = BLOCK
  BY BlockSize
<1> DEFINE q == i \div b
<1> DEFINE r == i % b
<1> DEFINE v == b * k
<1>1. /\ b = BLOCK /\ q = i \div BLOCK /\ q \in Nat /\ r \in 0 .. b - 1 /\ i = b * q + r
      /\ v = BLOCK * k /\ v \in Nat /\ b * q \in Nat
  <2>1. /\ i \div BLOCK \in Nat /\ i % BLOCK \in 0 .. BLOCK - 1
        /\ i = BLOCK * (i \div BLOCK) + (i % BLOCK) /\ BLOCK * (i \div BLOCK) \in Nat
    BY InBlock
  <2>2. b * k \in Nat
    OBVIOUS
  <2> QED
    BY <1>0, <2>1, <2>2
<1>9. v = b * k
  OBVIOUS
<1> HIDE DEF q, r, v
<1>2. a = base + v /\ v + b <= s /\ a < 65536 /\ a \in Nat
  BY <1>1
<1>3. a \in Word
  BY <1>2, WordIs, SMT
<1>4. Len(d) = b /\ Len(d) <= WORD
  BY <1>1, BlockSize
<1>5. \A j \in 1 .. b : Cell(a, j) = a + j - 1
  <2> SUFFICES ASSUME NEW j \in 1 .. b PROVE Cell(a, j) = a + j - 1
    OBVIOUS
  <2>1. j \in 1 .. WORD
    BY <1>4, WordInt
  <2>2. Cell(a, j) = IF a + j - 1 < 65536 THEN a + j - 1 ELSE a + j - 1 - 65536
    BY <1>3, <2>1, CellIs, SMT
  <2>3. a + j - 1 < 65536
    BY <1>1, <1>2
  <2> QED
    BY <2>2, <2>3, SMT
<1>6. /\ \A j \in 1 .. Len(d) : Read(Put(x, a, d), Cell(a, j)) = d[j]
      /\ \A y : (\A j \in 1 .. Len(d) : Cell(a, j) # y) => Read(Put(x, a, d), y) = Read(x, y)
  <2>1. Len(d) <= WORD
    BY <1>4
  <2> QED
    BY <1>3, <2>1, ReadAfterPut
<1>7. CASE q = k
  <2> DEFINE j == r + 1
  <2>1. j \in 1 .. b /\ j = i - v + 1 /\ a + j - 1 = base + i
    <3>1. i = v + r
      BY <1>1, <1>7, <1>9
    <3> QED
      BY <1>1, <1>2, <3>1
  <2> HIDE DEF j
  <2>2. Read(Put(x, a, d), base + i) = d[j]
    BY <1>4, <1>5, <1>6, <2>1
  <2> QED
    BY <1>1, <1>3, <1>7, <2>1, <2>2 DEF Took
<1>8. CASE q # k
  <2>1. q < k
    BY <1>1, <1>8
  <2>2. b * q + b <= v
    BY <1>1, <1>9, <2>1, Multiples
  <2>3. base + i < a
    BY <1>1, <1>2, <2>2
  <2>4. \A j \in 1 .. b : Cell(a, j) # base + i
    <3> SUFFICES ASSUME NEW j \in 1 .. b PROVE Cell(a, j) # base + i
      OBVIOUS
    <3>1. Cell(a, j) = a + j - 1
      BY <1>5
    <3>2. a + j - 1 # base + i
      BY <1>2, <2>3
    <3> QED
      BY <3>1, <3>2
  <2>5. Read(Put(x, a, d), base + i) = Read(x, base + i)
    BY <1>4, <1>6, <2>4
  <2> QED
    BY <1>1, <1>3, <1>8, <2>5 DEF Took
<1> QED
  BY <1>7, <1>8

LEMMA LoadedFew ==
  ASSUME NEW f \in Roms, RomAccepted(f), NEW m, NEW e \in Int, e <= 3, e >= 1 => m.halted,
         e >= 2 => ~m.ppu, e >= 3 => m.cfg = SubSeq(f.hdr, 5, 9)
  PROVE  Loaded(m, f, e)
<1>1. PrgBlocks(f) \in Nat /\ ChrBlocks(f) \in Nat
  BY BankSizes
<1>2. ~(e >= 4 + PrgBlocks(f) + ChrBlocks(f)) /\ ~(e >= 5 + PrgBlocks(f) + ChrBlocks(f))
  BY <1>1
<1>3. \A i \in Nat : ~(e > 3 + (i \div BLOCK)) /\ ~(e > 3 + PrgBlocks(f) + (i \div BLOCK))
  <2> SUFFICES ASSUME NEW i \in Nat
               PROVE  ~(e > 3 + (i \div BLOCK)) /\ ~(e > 3 + PrgBlocks(f) + (i \div BLOCK))
    OBVIOUS
  <2>1. PICK q \in Nat : q = i \div BLOCK
    BY BlockSize, Divided
  <2> QED
    BY <1>1, <2>1
<1>4. \A i \in 0 .. Prg(f) - 1 : i \in Nat
  BY BankSizes
<1>5. \A i \in 0 .. Chr(f) - 1 : i \in Nat
  BY BankSizes
<1> QED
  BY <1>2, <1>3, <1>4, <1>5 DEF Loaded

(* The first k blocks of a ROM are in their place.                         *)
Filled(x, base, off, s, f, k) ==
  \A i \in 0 .. s - 1 : k > i \div BLOCK => Read(x, base + i) = f.body[off + i + 1]
LoadedRegs(m, f, e) ==
  /\ e >= 4 + PrgBlocks(f) + ChrBlocks(f) => m.regs[0] = FileData(f, 16 + Prg(f) - 4)
  /\ e >= 5 + PrgBlocks(f) + ChrBlocks(f) => m.regs[1] = FileData(f, 16 + Prg(f) - 3)

LEMMA LoadedParts ==
  ASSUME NEW f \in Roms, RomAccepted(f), NEW m, NEW e \in Int
  PROVE  Loaded(m, f, e) <=>
           /\ e >= 1 => m.halted
           /\ e >= 2 => ~m.ppu
           /\ e >= 3 => m.cfg = SubSeq(f.hdr, 5, 9)
           /\ Filled(m.mem, PrgBase, 0, Prg(f), f, e - 3)
           /\ Filled(m.vram, 0, Prg(f), Chr(f), f, e - 3 - PrgBlocks(f))
           /\ LoadedRegs(m, f, e)
<1>1. PICK k \in Nat, l \in Nat, p \in Nat : k = Prg(f) /\ l = Chr(f) /\ p = PrgBlocks(f)
  BY BankSizes
<1>2. Filled(m.mem, PrgBase, 0, k, f, e - 3) <=>
        \A i \in 0 .. k - 1 : e > 3 + i \div BLOCK => Read(m.mem, PrgBase + i) = f.body[i + 1]
  <2>1. \A i \in 0 .. k - 1 : (e > 3 + i \div BLOCK <=> e - 3 > i \div BLOCK) /\ 0 + i + 1 = i + 1
    <3> SUFFICES ASSUME NEW i \in 0 .. k - 1
                 PROVE  (e > 3 + i \div BLOCK <=> e - 3 > i \div BLOCK) /\ 0 + i + 1 = i + 1
      OBVIOUS
    <3>1. PICK q \in Nat : q = i \div BLOCK
      BY InBlock
    <3> QED
      BY <3>1
  <2> QED
    BY <2>1, Zenon DEF Filled
<1>3. Filled(m.vram, 0, k, l, f, e - 3 - p) <=>
        \A i \in 0 .. l - 1 : e > 3 + p + i \div BLOCK => Read(m.vram, i) = f.body[k + i + 1]
  <2>1. \A i \in 0 .. l - 1 : (e > 3 + p + i \div BLOCK <=> e - 3 - p > i \div BLOCK) /\ 0 + i = i
    <3> SUFFICES ASSUME NEW i \in 0 .. l - 1
                 PROVE  (e > 3 + p + i \div BLOCK <=> e - 3 - p > i \div BLOCK) /\ 0 + i = i
      OBVIOUS
    <3>1. PICK q \in Nat : q = i \div BLOCK
      BY InBlock
    <3> QED
      BY <3>1
  <2> QED
    BY <2>1, Zenon DEF Filled
<1> QED
  BY <1>1, <1>2, <1>3, Zenon DEF Loaded, LoadedRegs

LEMMA LoadedHas ==
  ASSUME NEW f \in Roms, RomAccepted(f), NEW m, NEW e \in Int, Loaded(m, f, e)
  PROVE  /\ e >= 1 => m.halted
         /\ e >= 2 => ~m.ppu
         /\ e >= 3 => m.cfg = SubSeq(f.hdr, 5, 9)
         /\ Filled(m.mem, PrgBase, 0, Prg(f), f, e - 3)
         /\ Filled(m.vram, 0, Prg(f), Chr(f), f, e - 3 - PrgBlocks(f))
         /\ LoadedRegs(m, f, e)
BY LoadedParts, Zenon

LEMMA FilledNone ==
  ASSUME NEW x, NEW base, NEW off, NEW s \in Nat, NEW f, NEW k \in Int, k <= 0
  PROVE  Filled(x, base, off, s, f, k)
<1>1. \A i \in 0 .. s - 1 : ~(k > i \div BLOCK)
  <2> SUFFICES ASSUME NEW i \in 0 .. s - 1 PROVE ~(k > i \div BLOCK)
    OBVIOUS
  <2>1. PICK q \in Nat : q = i \div BLOCK
    BY InBlock
  <2> QED
    BY <2>1
<1> QED
  BY <1>1 DEF Filled

LEMMA FilledMore ==
  ASSUME NEW x, NEW base, NEW off, NEW s, NEW f, NEW n \in Nat, s = BLOCK * n,
         NEW k \in Int, k >= n, NEW j \in Int, Filled(x, base, off, s, f, k)
  PROVE  Filled(x, base, off, s, f, j)
<1>1. \A i \in 0 .. s - 1 : k > i \div BLOCK
  <2> SUFFICES ASSUME NEW i \in 0 .. s - 1 PROVE k > i \div BLOCK
    OBVIOUS
  <2>1. PICK b \in Nat \ {0} : b = BLOCK
    BY BlockSize
  <2>2. i \in 0 .. b * n - 1
    BY <2>1
  <2>3. i \div b \in 0 .. n - 1
    BY <2>2, BlockOf
  <2>4. PICK q : q = i \div b /\ q \in 0 .. n - 1
    BY <2>3
  <2>5. k > q
    BY <2>4
  <2> QED
    BY <2>1, <2>4, <2>5
<1> QED
  BY <1>1 DEF Filled

LEMMA FilledNext ==
  ASSUME NEW f \in Roms, RomAccepted(f), NEW x, NEW base \in Nat, NEW off \in Nat, NEW s \in Nat,
         NEW n \in Nat, s = BLOCK * n, base + s <= WORD, off + s <= Prg(f) + Chr(f),
         NEW k \in 0 .. n - 1, Filled(x, base, off, s, f, k),
         NEW a, a = base + BLOCK * k, NEW w, w = 16 + off + BLOCK * k
  PROVE  /\ a \in Word /\ Block(f, w) \in Seq(Octet) /\ Len(Block(f, w)) = BLOCK
         /\ Filled(Put(x, a, Block(f, w)), base, off, s, f, k + 1)
<1>0. base + s <= 65536
  BY WordSize, SMT
<1>1. PICK b, v, l : /\ b = BLOCK /\ b \in Nat \ {0} /\ v = BLOCK * k /\ v \in Nat /\ v + b <= s
                     /\ l = Prg(f) + Chr(f) /\ l \in Nat
  <2>1. BLOCK \in Nat \ {0} /\ k \in Nat /\ k < n
    BY BlockSize
  <2>2. BLOCK * k \in Nat /\ BLOCK * k + BLOCK <= BLOCK * n
    BY <2>1, Multiples
  <2>3. Prg(f) + Chr(f) \in Nat
    BY BankSizes, SMTT(20)
  <2> QED
    BY <2>1, <2>2, <2>3
<1>2. w \in Nat /\ 16 <= w /\ w + BLOCK <= 16 + l /\ w - 16 = off + v /\ a = base + v
  BY <1>1
<1>3. w + BLOCK <= 16 + Prg(f) + Chr(f)
  <2>1. Prg(f) \in Nat /\ Chr(f) \in Nat
    BY BankSizes
  <2> QED
    BY <1>1, <1>2, <2>1
<1> DEFINE d == Block(f, w)
<1>4. d \in Seq(Octet) /\ Len(d) = BLOCK /\ \A j \in 1 .. BLOCK : d[j] = f.body[w - 16 + j]
  <2>1. w \in Nat
    BY <1>2
  <2>2. 16 <= w
    BY <1>2
  <2> QED
    <3>1. IsBlock(f, w)
      BY <1>3, <2>1, <2>2, BlockData
    <3> QED
      BY <3>1 DEF IsBlock
<1> HIDE DEF d
<1>5. a \in Word
  BY <1>0, <1>1, <1>2, WordIs, SMT
<1>6. ASSUME NEW i \in 0 .. s - 1, k + 1 > i \div BLOCK
      PROVE  Read(Put(x, a, d), base + i) = f.body[off + i + 1]
  <2>1. PICK q \in Nat : q = i \div BLOCK /\ q <= k
    <3>1. PICK q \in Nat : q = i \div BLOCK
      BY InBlock
    <3> QED
      BY <1>6, <3>1
  <2>2. i \in Nat /\ i < s /\ k \in Nat /\ BLOCK * k + BLOCK <= s
    BY <1>1
  <2>3. Took(x, Put(x, a, d), base, d, i, k)
    <3>1. i \div BLOCK <= k
      BY <2>1
    <3>2. d \in Seq(Octet)
      BY <1>4
    <3>3. Len(d) = BLOCK
      BY <1>4
    <3>4. i \in Nat
      BY <2>2
    <3>5. k \in Nat
      BY <2>2
    <3>6. i < s
      BY <2>2
    <3>7. BLOCK * k + BLOCK <= s
      BY <2>2
    <3> QED
      BY <3>1, <3>2, <3>3, <3>4, <3>5, <3>6, <3>7, <1>0, BlockPlaced, SMT
  <2>4. CASE q = k
    <3>1. PICK j \in 1 .. BLOCK : j = i - v + 1 /\ Read(Put(x, a, d), base + i) = d[j]
      BY <1>1, <2>1, <2>3, <2>4 DEF Took
    <3>2. w - 16 + j = off + i + 1
      BY <1>1, <1>2, <3>1
    <3> QED
      <4>1. d[j] = f.body[w - 16 + j]
        BY <1>4, <3>1
      <4> QED
        BY <3>1, <3>2, <4>1
  <2>5. CASE q # k
    <3>1. k > i \div BLOCK
      BY <2>1, <2>5
    <3>2. Read(x, base + i) = f.body[off + i + 1]
      BY <3>1 DEF Filled
    <3> QED
      BY <2>1, <2>3, <2>5, <3>2 DEF Took
  <2> QED
    BY <2>4, <2>5
<1>7. Filled(Put(x, a, d), base, off, s, f, k + 1)
  BY <1>6 DEF Filled
<1> QED
  BY <1>4, <1>5, <1>7 DEF d

(* What stays of a loaded part when the machine changes elsewhere.         *)
LEMMA LoadedKeeps ==
  ASSUME NEW f \in Roms, RomAccepted(f), NEW m, NEW n, NEW e \in Int, e >= 3, Loaded(m, f, e),
         n.halted = m.halted, n.ppu = m.ppu, n.cfg = m.cfg
  PROVE  Loaded(n, f, e + 1) <=>
           /\ Filled(n.mem, PrgBase, 0, Prg(f), f, e + 1 - 3)
           /\ Filled(n.vram, 0, Prg(f), Chr(f), f, e + 1 - 3 - PrgBlocks(f))
           /\ LoadedRegs(n, f, e + 1)
<1>1. e >= 1 /\ e >= 2 /\ e >= 3 /\ e + 1 >= 1 /\ e + 1 >= 2 /\ e + 1 >= 3 /\ e + 1 \in Int
  OBVIOUS
<1>2. m.halted /\ ~m.ppu /\ m.cfg = SubSeq(f.hdr, 5, 9)
  <2>1. (e >= 1 => m.halted) /\ (e >= 2 => ~m.ppu) /\ (e >= 3 => m.cfg = SubSeq(f.hdr, 5, 9))
    BY LoadedHas, Zenon
  <2> QED
    BY <1>1, <2>1, Zenon
<1>3. Loaded(n, f, e + 1) <=>
           /\ e + 1 >= 1 => n.halted
           /\ e + 1 >= 2 => ~n.ppu
           /\ e + 1 >= 3 => n.cfg = SubSeq(f.hdr, 5, 9)
           /\ Filled(n.mem, PrgBase, 0, Prg(f), f, e + 1 - 3)
           /\ Filled(n.vram, 0, Prg(f), Chr(f), f, e + 1 - 3 - PrgBlocks(f))
           /\ LoadedRegs(n, f, e + 1)
  <2>1. PICK g \in Int : g = e + 1
    BY <1>1
  <2>2. Loaded(n, f, g) <=>
           /\ g >= 1 => n.halted
           /\ g >= 2 => ~n.ppu
           /\ g >= 3 => n.cfg = SubSeq(f.hdr, 5, 9)
           /\ Filled(n.mem, PrgBase, 0, Prg(f), f, g - 3)
           /\ Filled(n.vram, 0, Prg(f), Chr(f), f, g - 3 - PrgBlocks(f))
           /\ LoadedRegs(n, f, g)
    BY LoadedParts, Zenon
  <2> QED
    <3>1. PrgBlocks(f) \in Nat
      BY BankSizes
    <3>2. g - 3 = e + 1 - 3 /\ g - 3 - PrgBlocks(f) = e + 1 - 3 - PrgBlocks(f)
      BY <2>1, <3>1
    <3> QED
      BY <2>1, <2>2, <3>2, Zenon
<1> QED
  BY <1>1, <1>2, <1>3, Zenon

LEMMA PrgBlockLoads ==
  ASSUME NEW f \in Roms, RomAccepted(f), NEW m, IsMachine(m), NEW e \in Int, e >= 3,
         e < 3 + PrgBlocks(f), Loaded(m, f, e), NEW c, c = RomPackets(f)[e + 1]
  PROVE  Loaded(Effect(c, m), f, e + 1)
<1>1. PICK p \in Nat, k, s \in Nat : /\ p = PrgBlocks(f) /\ k = e - 3 /\ k \in 0 .. p - 1 /\ k \in Nat /\ k \in Int
                           /\ s = Prg(f) /\ s = BLOCK * p /\ s <= 32768 /\ s <= s + Chr(f)
  <2>1. PrgBlocks(f) \in Nat /\ Prg(f) \in Nat /\ Chr(f) \in Nat /\ BLOCK * PrgBlocks(f) = Prg(f) /\ Prg(f) <= 32768
    BY BankSizes
  <2>2. e - 3 \in 0 .. PrgBlocks(f) - 1 /\ e - 3 \in Nat /\ e - 3 \in Int
    BY <2>1
  <2>3. Prg(f) <= Prg(f) + Chr(f)
    BY <2>1
  <2> QED
    BY <2>1, <2>2, <2>3, SMT
<1>2. PICK a, w : a = PrgBase + BLOCK * k /\ w = 16 + 0 + BLOCK * k
  OBVIOUS
<1>3. c = BlockCmd(f, "CpuMemWr", a, w)
  <2>1. PICK i \in 1 .. p : i = k + 1 /\ i - 1 = k /\ 3 + i = e + 1
    BY <1>1
  <2>2. c = BlockCmd(f, "CpuMemWr", PrgBase + BLOCK * (i - 1), 16 + BLOCK * (i - 1))
    BY <1>1, <2>1, RomIs
  <2>3. 16 + BLOCK * k = 16 + 0 + BLOCK * k
    BY <1>1, BlockSize
  <2> QED
    BY <1>2, <2>1, <2>2, <2>3
<1>4. Filled(m.mem, PrgBase, 0, s, f, k)
  <2>1. Filled(m.mem, PrgBase, 0, Prg(f), f, e - 3)
    BY LoadedHas, Zenon
  <2>2. s = Prg(f) /\ k = e - 3
    BY <1>1
  <2> HIDE <1>1
  <2> QED
    BY <2>1, <2>2
<1>5. /\ a \in Word /\ Block(f, w) \in Seq(Octet) /\ Len(Block(f, w)) = BLOCK
      /\ Filled(Put(m.mem, a, Block(f, w)), PrgBase, 0, s, f, k + 1)
  <2>1. PICK g \in Nat, z \in Nat : g = PrgBase /\ z = 0
    BY SMT DEF PrgBase
  <2>2. g + s <= WORD
    BY <1>1, <2>1, WordSize, SMT DEF PrgBase
  <2>3. z + s <= Prg(f) + Chr(f)
    BY <1>1, <2>1
  <2>4. s = BLOCK * p
    BY <1>1
  <2>5. k \in 0 .. p - 1
    BY <1>1
  <2>6. a = g + BLOCK * k
    BY <1>2, <2>1
  <2>7. w = 16 + z + BLOCK * k
    BY <1>2, <2>1
  <2>8. Filled(m.mem, g, z, s, f, k)
    BY <1>4, <2>1
  <2> HIDE <1>1, <1>2, <2>1
  <2>9. /\ a \in Word /\ Block(f, w) \in Seq(Octet) /\ Len(Block(f, w)) = BLOCK
        /\ Filled(Put(m.mem, a, Block(f, w)), g, z, s, f, k + 1)
    BY <2>2, <2>3, <2>4, <2>5, <2>6, <2>7, <2>8, FilledNext, SMTT(20)
  <2> QED
    BY <2>1, <2>9, Zenon
<1> DEFINE x == Put(m.mem, a, Block(f, w))
<1> DEFINE n == [m EXCEPT !.mem = x]
<1>6. m.halted /\ IsMemory(m.mem)
  <2>1. e >= 1
    OBVIOUS
  <2> QED
    BY <2>1, LoadedParts, MachOf
<1>7. Effect(c, m) = n
  <2>1. c.op = "CpuMemWr" /\ c.addr = a /\ c.data = Block(f, w)
    BY <1>3 DEF BlockCmd, Cmd
  <2> QED
    BY <1>6, <2>1, EffectHalted
<1>8. IsMemory(x)
  <2>1. Len(Block(f, w)) <= WORD
    BY <1>5, BlockSize
  <2> QED
    BY <1>5, <1>6, <2>1, PutMemory
<1>9. n = Mach(m.halted, x, m.vram, m.cfg, m.ppu, m.regs)
  BY <1>8, WithMem
<1> HIDE DEF n, x
<1>10. n.halted = m.halted /\ n.mem = x /\ n.vram = m.vram /\ n.cfg = m.cfg /\ n.ppu = m.ppu
  BY <1>9, MachFields
<1>11. Filled(n.mem, PrgBase, 0, Prg(f), f, e + 1 - 3)
  <2>1. e + 1 - 3 = k + 1
    BY <1>1
  <2>2. Filled(x, PrgBase, 0, s, f, k + 1)
    BY <1>5 DEF x
  <2> QED
    BY <1>1, <1>10, <2>1, <2>2
<1>12. Filled(n.vram, 0, Prg(f), Chr(f), f, e + 1 - 3 - PrgBlocks(f))
  <2>1. e + 1 - 3 - PrgBlocks(f) \in Int /\ e + 1 - 3 - PrgBlocks(f) <= 0
    BY <1>1
  <2>2. Chr(f) \in Nat
    BY BankSizes
  <2> QED
    BY <2>1, <2>2, FilledNone
<1>13. LoadedRegs(n, f, e + 1)
  <2>1. ChrBlocks(f) \in Nat
    BY BankSizes
  <2>2. ~(e + 1 >= 4 + PrgBlocks(f) + ChrBlocks(f)) /\ ~(e + 1 >= 5 + PrgBlocks(f) + ChrBlocks(f))
    BY <1>1, <2>1
  <2> QED
    BY <2>2 DEF LoadedRegs
<1>14. Loaded(n, f, e + 1)
  BY <1>10, <1>11, <1>12, <1>13, LoadedKeeps
<1> QED
  BY <1>7, <1>14

LEMMA ChrBlockLoads ==
  ASSUME NEW f \in Roms, RomAccepted(f), NEW m, IsMachine(m), NEW e \in Int,
         e >= 3 + PrgBlocks(f), e < 3 + PrgBlocks(f) + ChrBlocks(f),
         Loaded(m, f, e), NEW c, c = RomPackets(f)[e + 1]
  PROVE  Loaded(Effect(c, m), f, e + 1)
<1>1. PICK p \in Nat, q \in Nat : p = PrgBlocks(f) /\ q = ChrBlocks(f)
  BY BankSizes
<1>2. PICK k : k = e - 3 - p /\ k \in 0 .. q - 1 /\ k \in Nat /\ e >= 3 /\ e >= 1
  <2>1. e - 3 - p \in 0 .. q - 1 /\ e - 3 - p \in Nat /\ e >= 3 /\ e >= 1
    BY <1>1
  <2> QED
    BY <2>1
<1>3. PICK s \in Nat, b \in Nat : /\ s = Chr(f) /\ s = BLOCK * q /\ s <= 65536 /\ b = Prg(f) /\ b = BLOCK * p
  BY <1>1, BankSizes, SMT
<1>4. PICK a, w : a = 0 + BLOCK * k /\ w = 16 + b + BLOCK * k
  OBVIOUS
<1>5. c = BlockCmd(f, "PpuMemWr", a, w)
  <2>1. PICK i \in 1 .. q : i - 1 = k /\ 3 + p + i = e + 1
    <3>1. k + 1 \in 1 .. q /\ (k + 1) - 1 = k /\ 3 + p + (k + 1) = e + 1
      BY <1>2
    <3> QED
      BY <3>1
  <2>2. c = BlockCmd(f, "PpuMemWr", 0 + BLOCK * (i - 1), 16 + Prg(f) + BLOCK * (i - 1))
    <3>1. \A j \in 1 .. ChrBlocks(f) :
            RomPackets(f)[3 + PrgBlocks(f) + j]
              = BlockCmd(f, "PpuMemWr", 0 + BLOCK * (j - 1), 16 + Prg(f) + BLOCK * (j - 1))
      BY RomIs
    <3>2. RomPackets(f)[3 + PrgBlocks(f) + i] = c
      BY <1>1, <2>1
    <3>3. i \in 1 .. ChrBlocks(f)
      BY <1>1
    <3> QED
      BY <3>1, <3>2, <3>3, Zenon
  <2>3. b = Prg(f)
    BY <1>3
  <2> HIDE <1>3
  <2> QED
    BY <1>4, <2>1, <2>2, <2>3
<1>6. Filled(m.vram, 0, b, s, f, k) /\ Filled(m.mem, PrgBase, 0, b, f, e - 3)
  <2>1. b = Prg(f) /\ s = Chr(f)
    BY <1>3
  <2>2. Filled(m.vram, 0, Prg(f), Chr(f), f, e - 3 - PrgBlocks(f)) /\ Filled(m.mem, PrgBase, 0, Prg(f), f, e - 3)
    BY LoadedParts
  <2> HIDE <1>3
  <2> QED
    BY <1>1, <1>2, <2>1, <2>2
<1>7. /\ a \in Word /\ Block(f, w) \in Seq(Octet) /\ Len(Block(f, w)) = BLOCK
      /\ Filled(Put(m.vram, a, Block(f, w)), 0, b, s, f, k + 1)
  <2>1. 0 \in Nat
    OBVIOUS
  <2>2. 0 + s <= WORD
    BY <1>3, WordSize, SMT
  <2>3. b + s <= Prg(f) + Chr(f)
    BY <1>3
  <2>4. s = BLOCK * q /\ k \in 0 .. q - 1
    BY <1>2, <1>3
  <2>5. Filled(m.vram, 0, b, s, f, k)
    BY <1>6
  <2> HIDE <1>3
  <2> QED
    BY <1>4, <2>1, <2>2, <2>3, <2>4, <2>5, FilledNext
<1> DEFINE x == Put(m.vram, a, Block(f, w))
<1> DEFINE n == [m EXCEPT !.vram = x]
<1>8. m.halted /\ IsMemory(m.vram)
  BY <1>2, LoadedParts, MachOf
<1>9. Effect(c, m) = n
  <2>1. c.op = "PpuMemWr" /\ c.addr = a /\ c.data = Block(f, w)
    BY <1>5 DEF BlockCmd, Cmd
  <2> QED
    BY <1>8, <2>1, EffectHalted
<1>10. IsMemory(x)
  <2>1. Len(Block(f, w)) <= WORD
    BY <1>7, BlockSize
  <2> QED
    BY <1>7, <1>8, <2>1, PutMemory
<1>11. n = Mach(m.halted, m.mem, x, m.cfg, m.ppu, m.regs)
  BY <1>10, WithVram
<1> HIDE DEF n, x
<1>12. n.halted = m.halted /\ n.mem = m.mem /\ n.vram = x /\ n.cfg = m.cfg /\ n.ppu = m.ppu
  BY <1>11, MachFields
<1>13. Filled(n.mem, PrgBase, 0, Prg(f), f, e + 1 - 3)
  <2>1. e - 3 \in Int /\ e - 3 >= p /\ e + 1 - 3 \in Int
    BY <1>1
  <2>2. b = BLOCK * p /\ b = Prg(f)
    BY <1>3
  <2>3. Filled(m.mem, PrgBase, 0, b, f, e + 1 - 3)
    BY <1>6, <2>1, <2>2, FilledMore
  <2> QED
    BY <1>12, <2>2, <2>3
<1>14. Filled(n.vram, 0, Prg(f), Chr(f), f, e + 1 - 3 - PrgBlocks(f))
  <2>1. e + 1 - 3 - PrgBlocks(f) = k + 1
    BY <1>1, <1>2
  <2>2. Filled(x, 0, b, s, f, k + 1)
    BY <1>7 DEF x
  <2>3. b = Prg(f) /\ s = Chr(f)
    BY <1>3
  <2> HIDE <1>3
  <2> QED
    BY <1>12, <2>1, <2>2, <2>3
<1>15. LoadedRegs(n, f, e + 1)
  <2>1. ~(e + 1 >= 4 + p + q) /\ ~(e + 1 >= 5 + p + q)
    BY <1>1
  <2> QED
    BY <1>1, <2>1 DEF LoadedRegs
<1>16. Loaded(n, f, e + 1)
  BY <1>2, <1>12, <1>13, <1>14, <1>15, LoadedKeeps
<1> QED
  BY <1>9, <1>16

LEMMA RegLoads ==
  ASSUME NEW f \in Roms, RomAccepted(f), NEW m, IsMachine(m), NEW e \in Int,
         NEW t \in {0, 1}, e = 3 + PrgBlocks(f) + ChrBlocks(f) + t,
         Loaded(m, f, e), NEW c, c = RomPackets(f)[e + 1]
  PROVE  Loaded(Effect(c, m), f, e + 1)
<1>1. PICK p \in Nat, q \in Nat : p = PrgBlocks(f) /\ q = ChrBlocks(f)
  BY BankSizes
<1>2. e = 3 + p + q + t /\ e >= 3 /\ e >= 1 /\ e - 3 \in Int /\ e - 3 >= p /\ e - 3 - p \in Int
      /\ e - 3 - p >= q /\ e + 1 - 3 \in Int /\ e + 1 - 3 - p \in Int
  BY <1>1
<1>3. Prg(f) = BLOCK * p /\ Chr(f) = BLOCK * q /\ Prg(f) \in Nat /\ Chr(f) \in Nat
  BY <1>1, BankSizes
<1>4. PICK i \in Nat : i = 16 + Prg(f) - 4 + t /\ i < 16 + Prg(f) + Chr(f)
                       /\ (t = 0 => i = 16 + Prg(f) - 4) /\ (t = 1 => i = 16 + Prg(f) - 3)
  <2>1. 16 + Prg(f) - 4 + t \in Nat /\ 16 + Prg(f) - 4 + t < 16 + Prg(f) + Chr(f)
        /\ (t = 1 => 16 + Prg(f) - 4 + t = 16 + Prg(f) - 3) /\ (t = 0 => 16 + Prg(f) - 4 + t = 16 + Prg(f) - 4)
    BY <1>3
  <2> QED
    BY <2>1
<1>5. c = RegCmd(f, t, i)
  <2>1. /\ RomPackets(f)[3 + PrgBlocks(f) + ChrBlocks(f) + 1] = RegCmd(f, 0, 16 + Prg(f) - 4)
        /\ RomPackets(f)[3 + PrgBlocks(f) + ChrBlocks(f) + 2] = RegCmd(f, 1, 16 + Prg(f) - 3)
    BY RomIs
  <2>2. CASE t = 0
    <3>1. e + 1 = 3 + PrgBlocks(f) + ChrBlocks(f) + 1
      BY <1>1, <1>2, <2>2
    <3> QED
      BY <1>4, <2>1, <2>2, <3>1
  <2>3. CASE t = 1
    <3>1. e + 1 = 3 + PrgBlocks(f) + ChrBlocks(f) + 2
      BY <1>1, <1>2, <2>3
    <3> QED
      BY <1>4, <2>1, <2>3, <3>1
  <2> QED
    BY <2>2, <2>3
<1>6. PICK b \in Octet : b = FileData(f, i)
  BY <1>4, FileBytes
<1>7. c.op = "CpuRegWr" /\ c.addr = t /\ c.data[1] = b
  <2>1. c = Cmd("CpuRegWr", t, <<b>>, 0)
    BY <1>5, <1>6 DEF RegCmd
  <2> QED
    BY <2>1 DEF Cmd
<1> DEFINE n == [m EXCEPT !.regs[t] = b]
<1>8. m.halted
  BY <1>2, LoadedHas
<1>9. Effect(c, m) = n
  BY <1>7, <1>8, EffectHalted
<1>10. n = Mach(m.halted, m.mem, m.vram, m.cfg, m.ppu, [m.regs EXCEPT ![t] = b])
  <2>1. t \in 0 .. 6
    OBVIOUS
  <2> QED
    BY <2>1, WithReg
<1> HIDE DEF n
<1>11. n.halted = m.halted /\ n.mem = m.mem /\ n.vram = m.vram /\ n.cfg = m.cfg /\ n.ppu = m.ppu
       /\ n.regs = [m.regs EXCEPT ![t] = b]
  BY <1>10, MachFields
<1>12. Filled(n.mem, PrgBase, 0, Prg(f), f, e + 1 - 3)
  <2>1. Filled(m.mem, PrgBase, 0, Prg(f), f, e - 3)
    BY LoadedHas
  <2>2. Filled(m.mem, PrgBase, 0, Prg(f), f, e + 1 - 3)
    BY <1>2, <1>3, <2>1, FilledMore
  <2> QED
    BY <1>11, <2>2
<1>13. Filled(n.vram, 0, Prg(f), Chr(f), f, e + 1 - 3 - PrgBlocks(f))
  <2>1. Filled(m.vram, 0, Prg(f), Chr(f), f, e - 3 - p)
    BY <1>1, LoadedHas
  <2>2. Filled(m.vram, 0, Prg(f), Chr(f), f, e + 1 - 3 - p)
    BY <1>2, <1>3, <2>1, FilledMore
  <2> QED
    BY <1>1, <1>11, <2>2
<1>14. m.regs \in [0 .. 6 -> Octet]
  BY MachOf
<1>15. n.regs[t] = b /\ (t = 1 => n.regs[0] = m.regs[0])
  <2>1. t \in 0 .. 6 /\ 0 \in 0 .. 6 /\ (t = 1 => t # 0)
    OBVIOUS
  <2> QED
    BY <1>11, <1>14, <2>1
<1>16. LoadedRegs(m, f, e)
  BY LoadedHas
<1>17. LoadedRegs(n, f, e + 1)
  <2>1. CASE t = 0
    <3>1. ~(e + 1 >= 5 + p + q)
      BY <1>2, <2>1
    <3> QED
      BY <1>1, <1>4, <1>6, <1>15, <2>1, <3>1 DEF LoadedRegs
  <2>2. CASE t = 1
    <3>1. e >= 4 + p + q
      BY <1>2, <2>2
    <3>2. m.regs[0] = FileData(f, 16 + Prg(f) - 4)
      BY <1>1, <1>16, <3>1 DEF LoadedRegs
    <3> QED
      BY <1>1, <1>4, <1>6, <1>15, <2>2, <3>2 DEF LoadedRegs
  <2> QED
    BY <2>1, <2>2
<1>18. Loaded(n, f, e + 1)
  BY <1>2, <1>11, <1>12, <1>13, <1>17, LoadedKeeps
<1> QED
  BY <1>9, <1>18

(* Each packet of LoadRom but the last brings the machine one step on.     *)
LEMMA LoadedStep ==
  ASSUME NEW f \in Roms, RomAccepted(f), NEW m, IsMachine(m), NEW e \in Int, 0 <= e,
         e + 1 < Len(RomPackets(f)), Loaded(m, f, e), NEW c, c = RomPackets(f)[e + 1]
  PROVE  Loaded(Effect(c, m), f, e + 1)
<1>1. PICK p \in Nat, q \in Nat : p = PrgBlocks(f) /\ q = ChrBlocks(f)
  BY BankSizes
<1>2. e + 1 < 6 + p + q
  BY <1>1, RomIs
<1>3. CASE e = 0
  <2>1. c = Simple("DbgHlt")
    BY <1>3, RomIs
  <2>2. c.op = "DbgHlt"
    BY <2>1 DEF Simple, Cmd
  <2>3. Effect(c, m) = [m EXCEPT !.halted = TRUE]
    BY <2>2, EffectHalt
  <2>4. [m EXCEPT !.halted = TRUE].halted
    BY WithHalted
  <2>5. e + 1 \in Int /\ e + 1 <= 3 /\ ~(e + 1 >= 2) /\ ~(e + 1 >= 3)
    BY <1>3
  <2> QED
    BY <2>3, <2>4, <2>5, LoadedFew
<1>4. CASE e = 1
  <2>1. c = Simple("PpuDisable")
    BY <1>4, RomIs
  <2>2. c.op = "PpuDisable"
    BY <2>1 DEF Simple, Cmd
  <2>3. m.halted
    BY <1>4, LoadedHas
  <2> DEFINE n == [m EXCEPT !.ppu = FALSE]
  <2>3a. c.op = "PpuDisable" => Effect(c, m) = n
    BY <2>3, EffectHalted, Zenon
  <2>4. Effect(c, m) = n
    BY <2>2, <2>3a, Zenon
  <2>5. n = Mach(m.halted, m.mem, m.vram, m.cfg, FALSE, m.regs)
    BY WithPpu
  <2> HIDE DEF n
  <2>6. n.halted = m.halted /\ n.ppu = FALSE
    <3>1. PICK z \in BOOLEAN : z = FALSE
      OBVIOUS
    <3>2. n = Mach(m.halted, m.mem, m.vram, m.cfg, z, m.regs)
      BY <2>5, <3>1
    <3>3. n.halted = m.halted /\ n.ppu = z
      BY <3>2, MachFields
    <3> QED
      BY <3>1, <3>3
  <2>7. e + 1 \in Int /\ e + 1 <= 3 /\ ~(e + 1 >= 3)
    BY <1>4
  <2>8. Loaded(n, f, e + 1)
    BY <2>3, <2>6, <2>7, LoadedFew
  <2> QED
    BY <2>4, <2>8
<1>5. CASE e = 2
  <2>1. PICK g : g = SubSeq(f.hdr, 5, 9) /\ g \in Seq(Octet) /\ Len(g) = 5
    <3>1. f.hdr \in Seq(Octet) /\ Len(f.hdr) = 16
      BY BankSizes
    <3>2. SubSeq(f.hdr, 5, 9) \in Seq(Octet) /\ Len(SubSeq(f.hdr, 5, 9)) = 5
      BY <3>1
    <3> QED
      BY <3>2
  <2>2. c = Cmd("CartSetCfg", 0, g, 0)
    BY <1>5, <2>1, RomIs
  <2>3. c.op = "CartSetCfg" /\ c.data = g
    BY <2>2 DEF Cmd
  <2>4. m.halted /\ ~m.ppu
    BY <1>5, LoadedHas
  <2> DEFINE n == [m EXCEPT !.cfg = g]
  <2>5. Effect(c, m) = n
    BY <2>3, <2>4, EffectHalted
  <2>6. n = Mach(m.halted, m.mem, m.vram, g, m.ppu, m.regs)
    BY <2>1, WithCfg
  <2> HIDE DEF n
  <2>7. n.halted = m.halted /\ n.ppu = m.ppu /\ n.cfg = g
    BY <2>6, MachFields
  <2>8. e + 1 \in Int /\ e + 1 <= 3
    BY <1>5
  <2>9. Loaded(n, f, e + 1)
    BY <2>1, <2>4, <2>7, <2>8, LoadedFew
  <2> QED
    BY <2>5, <2>9
<1>6. CASE e >= 3 /\ e < 3 + p
  BY <1>1, <1>6, PrgBlockLoads
<1>7. CASE e >= 3 + p /\ e < 3 + p + q
  BY <1>1, <1>7, ChrBlockLoads
<1>8. CASE e >= 3 + p + q
  <2>1. PICK t \in {0, 1} : e = 3 + p + q + t
    <3>1. CASE e = 3 + p + q
      <4>1. e = 3 + p + q + 0
        BY <3>1
      <4> QED
        BY <4>1
    <3>2. CASE e # 3 + p + q
      <4>1. e = 3 + p + q + 1
        BY <1>2, <1>8, <3>2
      <4> QED
        BY <4>1
    <3> QED
      BY <3>1, <3>2
  <2> QED
    BY <1>1, <2>1, RegLoads
<1>9. e = 0 \/ e = 1 \/ e = 2 \/ (e >= 3 /\ e < 3 + p) \/ (e >= 3 + p /\ e < 3 + p + q) \/ e >= 3 + p + q
  OBVIOUS
<1> QED
  BY <1>3, <1>4, <1>5, <1>6, <1>7, <1>8, <1>9

LEMMA RomJob ==
  ASSUME JobOK, job.then = "rom"
  PROVE  job.of[1] \in Roms /\ RomAccepted(job.of[1]) /\ Issued \in 0 .. Len(RomPackets(job.of[1]))
BY DEF JobOK

LEMMA FarLoads ==
  ASSUME NEW f \in Roms, RomAccepted(f), NEW m, NEW e \in Int, e <= 0
  PROVE  Loaded(m, f, e)
BY LoadedFew

LEMMA RomTaken ==
  ASSUME LinkInv, JobOK, IsMachine(Held), sent # <<>>, sent' = Tail(sent), job' = job,
         Held' = Effect(sent[1], Held)
  PROVE  RomOK'
<1> SUFFICES ASSUME job.then = "rom"
             PROVE  /\ \A i \in 1 .. Len(sent') : Executed' + i >= 1 =>
                         sent'[i] = RomPackets(job.of[1])[Executed' + i]
                    /\ Executed' < Len(RomPackets(job.of[1])) => Loaded(Held', job.of[1], Executed')
  BY DEF RomOK
<1>1. PICK f : f = job.of[1] /\ f \in Roms /\ RomAccepted(f) /\ Issued \in 0 .. Len(RomPackets(f))
  BY RomJob
<1>2. RomOK /\ IsQueue(sent)
  BY DEF LinkInv, StreamOK
<1>3. /\ \A i \in 1 .. Len(sent) : Executed + i >= 1 => sent[i] = RomPackets(f)[Executed + i]
      /\ Executed < Len(RomPackets(f)) => Loaded(Held, f, Executed)
  BY <1>1, <1>2 DEF RomOK
<1>4. Len(sent) \in {1, 2} /\ Len(sent') = Len(sent) - 1 /\ (Len(sent) = 2 => sent'[1] = sent[2])
  BY <1>2, TailOf
<1>5. PICK e \in Int, l \in Nat : e = Executed /\ l = Len(RomPackets(f)) /\ Executed' = e + 1
  <2>1. Issued' = Issued
    BY DEF Issued
  <2>2. Executed = Issued - Len(sent) /\ Executed' = Issued' - Len(sent')
    BY DEF Executed
  <2>3. Len(RomPackets(f)) \in Nat
    BY <1>1, RomIs
  <2>4. Issued \in Int
    BY <1>1, <2>3
  <2>5. Executed \in Int /\ Executed' = Executed + 1
    BY <1>4, <2>1, <2>2, <2>4
  <2> QED
    BY <2>3, <2>5
<1>6. \A i \in 1 .. Len(sent') : Executed' + i >= 1 => sent'[i] = RomPackets(f)[Executed' + i]
  <2> SUFFICES ASSUME NEW i \in 1 .. Len(sent'), Executed' + i >= 1
               PROVE  sent'[i] = RomPackets(f)[Executed' + i]
    OBVIOUS
  <2>1. i = 1 /\ Len(sent) = 2 /\ 2 \in 1 .. Len(sent)
    BY <1>4
  <2>2. Executed' + i = e + 2 /\ e + 2 >= 1
    BY <1>5, <2>1
  <2>3. sent[2] = RomPackets(f)[e + 2]
    BY <1>3, <1>5, <2>1, <2>2
  <2> QED
    BY <1>4, <2>1, <2>2, <2>3
<1>7. Executed' < Len(RomPackets(f)) => Loaded(Held', f, Executed')
  <2> SUFFICES ASSUME e + 1 < l PROVE Loaded(Held', f, e + 1)
    BY <1>5
  <2>1. CASE e < 0
    <3>1. e + 1 \in Int /\ e + 1 <= 0
      BY <2>1
    <3> QED
      BY <1>1, <3>1, FarLoads
  <2>2. CASE e >= 0
    <3>1. sent[1] = RomPackets(f)[e + 1]
      <4>1. 1 \in 1 .. Len(sent) /\ Executed + 1 >= 1
        BY <1>4, <1>5, <2>2
      <4> QED
        BY <1>3, <1>5, <4>1
    <3>2. Loaded(Held, f, e)
      BY <1>3, <1>5
    <3>3. Loaded(Effect(sent[1], Held), f, e + 1)
      BY <1>1, <1>5, <2>2, <3>1, <3>2, LoadedStep
    <3> QED
      BY <3>3
  <2> QED
    BY <2>1, <2>2
<1> QED
  BY <1>1, <1>6, <1>7

LEMMA RomAtOnce ==
  ASSUME LinkTypes, LinkInv, JobOK, AtOnce \/ Begins, job' = job
  PROVE  RomOK'
<1>1. cur = NoCmd /\ sent # <<>> /\ sent' = Tail(sent)
  BY DEF AtOnce, Begins
<1>2. Held = nes /\ IsMachine(nes)
  BY <1>1, EffectNone DEF Held, LinkTypes, HwTypes
<1>3. Held' = Effect(sent[1], nes)
  <2>1. CASE AtOnce
    <3>1. cur' = NoCmd /\ nes' = Effect(sent[1], nes)
      BY <2>1 DEF AtOnce
    <3>2. Held' = Effect(NoCmd, nes')
      BY <3>1 DEF Held
    <3> QED
      BY <3>1, <3>2, EffectNone
  <2>2. CASE Begins
    BY <2>2 DEF Begins, Held
  <2> QED
    BY <2>1, <2>2
<1> QED
  BY <1>1, <1>2, <1>3, RomTaken

LEMMA RomGoesOn ==
  ASSUME LinkTypes, LinkInv, GoesOn \/ Finishes, job' = job
  PROVE  RomOK'
<1>1. sent' = sent
  BY DEF GoesOn, Finishes
<1>2. Held' = Held
  <2>1. CASE GoesOn
    BY <2>1 DEF GoesOn, Held
  <2>2. CASE Finishes
    <3>1. cur' = NoCmd /\ nes' = Effect(cur, nes)
      BY <2>2 DEF Finishes
    <3>2. Held' = Effect(NoCmd, nes')
      BY <3>1 DEF Held
    <3> QED
      BY <3>1, <3>2, EffectNone DEF Held
  <2> QED
    BY <2>1, <2>2
<1>3. RomOK
  BY DEF LinkInv
<1>4. Executed' = Executed
  BY <1>1 DEF Executed, Issued
<1> QED
  BY <1>1, <1>2, <1>3, <1>4 DEF RomOK

(* A step of the interface keeps the link.                                 *)
LEMMA InterfaceKeeps ==
  ASSUME LinkTypes, LinkInv, JobOK, ~broken, HciAction
  PROVE  LinkInv' /\ LinkTypes'
<1>1. StreamOK' /\ WorkOK' /\ (AtOnce \/ Begins \/ GoesOn \/ Finishes)
  BY InterfaceStep
<1>2. out' = out /\ back' = back /\ job' = job /\ buf' = buf /\ held' = held /\ broken' = broken
  BY History
<1>3. HwTypes'
  <2>1. HwTypes /\ HciStep
    BY DEF LinkTypes, HciAction
  <2> QED
    BY <2>1, HciTypes
<1>4. LinkTypes'
  BY <1>2, <1>3 DEF LinkTypes
<1>5. IsMachine(nes')
  BY <1>3 DEF HwTypes
<1>6. AnswerOK'
  BY <1>1, <1>2, AnswerAtOnce, AnswerBegins, AnswerGoesOn
<1>7. HaltOK'
  BY <1>1, <1>2, <1>5, HaltAtOnce, HaltBegins, HaltGoesOn
<1>8. RomOK'
  BY <1>1, <1>2, RomAtOnce, RomGoesOn
<1> QED
  BY <1>1, <1>4, <1>6, <1>7, <1>8 DEF LinkInv

(* What the invariant of the link looks at.                                *)
LEMMA LinkSame ==
  ASSUME LinkInv, rx' = rx, tx' = tx, hci' = hci, nes' = nes, out' = out, back' = back,
         sent' = sent, cur' = cur, job' = job, held' = held, buf' = buf
  PROVE  LinkInv'
<1>1. StreamOK' = StreamOK
  BY DEF StreamOK, Rest, Consumed
<1>2. WorkOK' = WorkOK
  BY DEF WorkOK
<1>3. AnswerOK' = AnswerOK
  BY DEF AnswerOK, Produced
<1>4. HaltOK' = HaltOK
  BY DEF HaltOK, Settled
<1>5. RomOK' = RomOK
  BY DEF RomOK, Executed, Issued, Held
<1> QED
  BY <1>1, <1>2, <1>3, <1>4, <1>5 DEF LinkInv

LEMMA StreamWorkSame ==
  ASSUME LinkInv, hci' = hci, nes' = nes, cur' = cur
  PROVE  WorkOK' /\ Rest' = Rest /\ Produced' = Produced /\ Held' = Held
BY DEF LinkInv, WorkOK, Rest, Consumed, Produced, Held

(* A byte arrives.                                                         *)
LEMMA ArriveKeeps ==
  ASSUME LinkTypes, LinkInv, Arrive, ~broken'
  PROVE  LinkInv' /\ LinkTypes'
<1>1. /\ Waits /\ out # <<>> /\ Len(tx) <= SKEW /\ out' = Tail(out) /\ rx' = Push(rx, Head(out))
      /\ sent' = sent /\ cur' = cur /\ broken' = broken
      /\ tx' = tx /\ hci' = hci /\ nes' = nes /\ back' = back
      /\ job' = job /\ held' = held /\ buf' = buf
  BY DEF Arrive, hostVars
<1>2. HwTypes /\ out \in Seq(Octet) /\ back \in Seq(Octet) /\ tx \in Seq(Octet)
  BY DEF LinkTypes, HwTypes
<1>3. rx = <<>> /\ Len(tx) < FIFO
  BY <1>1, <1>2, ArrivesEmpty
<1>4. PICK o \in Octet, s \in Seq(Octet) : o = Head(out) /\ s = Tail(out) /\ out = <<o>> \o s
  <2>1. Head(out) \in Octet /\ Tail(out) \in Seq(Octet) /\ out = <<Head(out)>> \o Tail(out)
    BY <1>1, <1>2
  <2> QED
    BY <2>1, Zenon
<1>5. rx' = <<o>> /\ rx' \in Seq(Octet) /\ Len(rx') <= 1
  <2>1. rx' = <<o>>
    BY <1>1, <1>3, <1>4, PushFirst
  <2>2. <<o>> \in Seq(Octet) /\ Len(<<o>>) <= 1
    OBVIOUS
  <2> QED
    BY <2>1, <2>2
<1>6. rx' \o out' = rx \o out
  <2>1. rx \o out = out
    BY <1>2, <1>3
  <2> QED
    BY <1>1, <1>4, <1>5, <2>1
<1>7. WorkOK' /\ Rest' = Rest /\ Produced' = Produced /\ Held' = Held
  BY <1>1, StreamWorkSame
<1>8. StreamOK'
  BY <1>1, <1>3, <1>6, <1>7 DEF LinkInv, StreamOK
<1>9. AnswerOK'
  BY <1>1, <1>7 DEF LinkInv, AnswerOK
<1>10. HaltOK'
  BY <1>1 DEF LinkInv, HaltOK, Settled
<1>11. RomOK'
  BY <1>1, <1>7 DEF LinkInv, RomOK, Executed, Issued
<1>12. LinkTypes'
  <2>1. HwTypes'
    BY <1>1, <1>2, <1>5 DEF HwTypes
  <2> QED
    BY <1>1, <1>4, <2>1 DEF LinkTypes
<1> QED
  BY <1>7, <1>8, <1>9, <1>10, <1>11, <1>12 DEF LinkInv

(* A byte goes back.                                                       *)
LEMMA LeaveTypes ==
  ASSUME LinkTypes, Leave
  PROVE  LinkTypes' /\ back' \o tx' = back \o tx /\ Len(tx') \in Nat /\ Len(tx') < FIFO
<1>1. /\ tx # <<>> /\ tx' = Tail(tx) /\ back' = Append(back, Head(tx))
      /\ rx' = rx /\ hci' = hci /\ nes' = nes /\ out' = out /\ sent' = sent /\ cur' = cur /\ broken' = broken
  BY DEF Leave
<1>2. tx \in Seq(Octet) /\ Len(tx) <= FIFO /\ back \in Seq(Octet) /\ FIFO \in Int
  BY FifoAssumption DEF LinkTypes, HwTypes
<1>3. PICK o \in Octet, s \in Seq(Octet) : /\ o = Head(tx) /\ s = Tail(tx) /\ tx = <<o>> \o s
                                           /\ Len(s) \in Nat /\ Len(s) < FIFO /\ Len(s) <= FIFO
  <2>1. Head(tx) \in Octet /\ Tail(tx) \in Seq(Octet) /\ tx = <<Head(tx)>> \o Tail(tx)
        /\ Len(Tail(tx)) = Len(tx) - 1 /\ Len(Tail(tx)) \in Nat /\ Len(tx) \in Nat
    BY <1>1, <1>2
  <2>2. Len(Tail(tx)) < FIFO /\ Len(Tail(tx)) <= FIFO
    BY <1>2, <2>1
  <2> QED
    BY <2>1, <2>2, Zenon
<1>4. back' \o tx' = back \o tx
  <2>1. <<o>> \in Seq(Octet)
    OBVIOUS
  <2>2. (back \o <<o>>) \o s = back \o (<<o>> \o s)
    BY <1>2, <2>1, Joins
  <2>3. back' = back \o <<o>>
    BY <1>1, <1>2, <1>3, AppendIsConcat
  <2> QED
    BY <1>1, <1>3, <2>2, <2>3
<1>5. back' \in Seq(Octet)
  BY <1>1, <1>2, <1>3
<1>6. HwTypes'
  BY <1>1, <1>3 DEF LinkTypes, HwTypes
<1>7. LinkTypes'
  BY <1>1, <1>5, <1>6 DEF LinkTypes
<1> QED
  BY <1>1, <1>3, <1>4, <1>7

LEMMA LeaveKeeps ==
  ASSUME LinkTypes, LinkInv, Leave
  PROVE  LinkInv'
<1>1. /\ tx # <<>> /\ rx' = rx /\ hci' = hci /\ nes' = nes /\ out' = out /\ sent' = sent /\ cur' = cur
      /\ job' = job /\ held' = held /\ buf' = buf
  BY DEF Leave, hostVars
<1>2. back' \o tx' = back \o tx /\ Len(tx') < FIFO
  BY LeaveTypes
<1>3. WorkOK' /\ Rest' = Rest /\ Produced' = Produced /\ Held' = Held
  BY <1>1, StreamWorkSame
<1>4. StreamOK'
  BY <1>1, <1>2, <1>3 DEF LinkInv, StreamOK
<1>5. AnswerOK'
  <2>1. ~(sent # <<>> \/ job.wait = 0)
    BY <1>1 DEF LinkInv, AnswerOK
  <2> QED
    BY <1>1, <1>2, <1>3, <2>1 DEF LinkInv, AnswerOK
<1>6. HaltOK'
  <2>1. job.wait # 0
    BY <1>1 DEF LinkInv, AnswerOK
  <2> QED
    BY <1>1, <1>2, <2>1 DEF LinkInv, HaltOK, Settled
<1>7. RomOK'
  BY <1>1, <1>3 DEF LinkInv, RomOK, Executed, Issued
<1> QED
  BY <1>3, <1>4, <1>5, <1>6, <1>7 DEF LinkInv

(* The program runs, or stops by itself.                                   *)
LEMMA RomNotBegun ==
  ASSUME LinkTypes, LinkInv, JobOK, hci.st = "off", job.then = "rom",
         Executed < Len(RomPackets(job.of[1]))
  PROVE  Executed \in Int /\ Executed <= 0
<1>1. cur = NoCmd /\ ~nes.halted /\ IsMachine(nes)
  BY DEF LinkTypes, HwTypes, LinkInv, WorkOK
<1>2. Held = nes
  BY <1>1, EffectNone DEF Held
<1>3. PICK f : f = job.of[1] /\ f \in Roms /\ RomAccepted(f) /\ Issued \in 0 .. Len(RomPackets(f))
  BY RomJob
<1>4. Executed \in Int
  <2>1. Len(RomPackets(f)) \in Nat
    BY <1>3, RomIs
  <2>2. Issued \in Int
    BY <1>3, <2>1
  <2>3. Len(sent) \in Int
    <3>1. IsQueue(sent)
      BY DEF LinkInv, StreamOK
    <3>2. Len(sent) \in 0 .. 2
      BY <3>1, WireBytes
    <3> QED
      BY <3>2
  <2> QED
    BY <2>2, <2>3 DEF Executed
<1>5. Loaded(nes, f, Executed)
  BY <1>2, <1>3 DEF LinkInv, RomOK
<1>6. ~(Executed >= 1)
  BY <1>1, <1>3, <1>4, <1>5, LoadedHas
<1> QED
  BY <1>4, <1>6

LEMMA RomOff ==
  ASSUME LinkTypes, LinkInv, JobOK, hci.st = "off", job' = job, sent' = sent
  PROVE  RomOK'
<1> SUFFICES ASSUME job.then = "rom"
             PROVE  /\ \A i \in 1 .. Len(sent') : Executed' + i >= 1 =>
                         sent'[i] = RomPackets(job.of[1])[Executed' + i]
                    /\ Executed' < Len(RomPackets(job.of[1])) => Loaded(Held', job.of[1], Executed')
  BY DEF RomOK
<1>1. Executed' = Executed
  BY DEF Executed, Issued
<1>2. RomOK
  BY DEF LinkInv
<1>3. job.of[1] \in Roms /\ RomAccepted(job.of[1])
  BY RomJob
<1>4. Executed < Len(RomPackets(job.of[1])) => Loaded(Held', job.of[1], Executed)
  BY <1>3, RomNotBegun, FarLoads
<1> QED
  BY <1>1, <1>2, <1>4 DEF RomOK

LEMMA ProcessorKeeps ==
  ASSUME LinkTypes, LinkInv, JobOK, Runs \/ Halts
  PROVE  LinkInv' /\ LinkTypes'
<1>1. /\ out' = out /\ back' = back /\ sent' = sent /\ cur' = cur /\ broken' = broken
      /\ job' = job /\ held' = held /\ buf' = buf
  BY DEF Runs, Halts, hostVars
<1>2. /\ HwTypes' /\ rx' = rx /\ tx' = tx /\ hci.st = "off" /\ ~nes.halted
      /\ \/ hci' = hci /\ nes'.halted = FALSE /\ nes.halted = FALSE
         \/ hci'.st = "decode" /\ nes'.halted = TRUE
  BY CpuTypes, BrkTypes DEF Runs, Halts, LinkTypes
<1>3. hci'.st \in {"off", "decode"}
  BY <1>2
<1>4. LinkTypes'
  BY <1>1, <1>2 DEF LinkTypes
<1>5. cur = NoCmd
  BY <1>2 DEF LinkInv, WorkOK
<1>6. WorkOK'
  BY <1>1, <1>3, <1>5 DEF WorkOK
<1>7. StreamOK'
  <2>1. Rest = <<>> /\ Rest' = <<>>
    BY <1>1, <1>5 DEF Rest, RestOf
  <2> QED
    BY <1>1, <1>2, <1>3, <2>1 DEF LinkInv, StreamOK
<1>8. AnswerOK'
  BY <1>1, <1>2, <1>5 DEF LinkInv, AnswerOK
<1>9. HaltOK'
  <2>1. HaltOK
    BY DEF LinkInv
  <2>2. CASE nes'.halted = nes.halted
    BY <1>1, <1>2, <2>1, <2>2 DEF HaltOK, Settled
  <2>3. CASE nes'.halted = TRUE
    <3>1. Settled => Settled'
      BY <1>1, <1>2, <2>3 DEF Settled, Settles
    <3>2. Settles(sent[1], nes.halted) => Settles(sent[1], nes'.halted)
      BY <1>2, <2>3 DEF Settles
    <3> QED
      BY <1>1, <1>2, <2>1, <2>3, <3>1, <3>2 DEF HaltOK
  <2> QED
    BY <1>2, <2>2, <2>3
<1>10. RomOK'
  BY <1>1, <1>2, RomOff
<1> QED
  BY <1>4, <1>6, <1>7, <1>8, <1>9, <1>10 DEF LinkInv

(* What the types of the link and of the handler look at.                  *)
LEMMA TypesSame ==
  ASSUME LinkTypes, UNCHANGED <<hciVars, out, back, sent, cur, broken>>
  PROVE  LinkTypes'
BY DEF LinkTypes, HwTypes, hciVars

LEMMA JobSame ==
  ASSUME JobOK, job' = job, held' = held, app' = app
  PROVE  JobOK'
BY DEF JobOK, Issued

LEMMA CmdOp ==
  ASSUME NEW o, NEW a, NEW d, NEW n
  PROVE  Cmd(o, a, d, n).op = o
BY DEF Cmd

(* The packets of LoadRom: a break first, the run last, none of them asks. *)
LEMMA RomOps ==
  ASSUME NEW f \in Roms, RomAccepted(f), NEW i \in 1 .. Len(RomPackets(f))
  PROVE  /\ IsCommand(RomPackets(f)[i])
         /\ i = 1 => RomPackets(f)[i].op = "DbgHlt"
         /\ i < Len(RomPackets(f)) => RomPackets(f)[i].op # "DbgRun"
<1>1. PICK r, p, c : r = RomPackets(f) /\ p = PrgBlocks(f) /\ c = ChrBlocks(f)
  OBVIOUS
<1>2. r \in Seq(Commands) /\ p \in Nat /\ c \in Nat /\ Len(r) = 6 + p + c
  BY <1>1, RomIs
<1>3. /\ r[1].op = "DbgHlt" /\ r[2].op = "PpuDisable" /\ r[3].op = "CartSetCfg"
      /\ r[3 + p + c + 1].op = "CpuRegWr" /\ r[3 + p + c + 2].op = "CpuRegWr"
  <2>1. r[1].op = "DbgHlt" /\ r[2].op = "PpuDisable"
    <3>1. r[1] = Simple("DbgHlt") /\ r[2] = Simple("PpuDisable")
      BY <1>1, RomIs
    <3> QED
      BY <3>1 DEF Simple, Cmd
  <2>2. r[3].op = "CartSetCfg"
    <3>1. r[3] = Cmd("CartSetCfg", 0, SubSeq(f.hdr, 5, 9), 0)
      BY <1>1, RomIs
    <3> QED
      BY <3>1, CmdOp
  <2>3. r[3 + p + c + 1].op = "CpuRegWr"
    <3>1. r[3 + p + c + 1] = RegCmd(f, 0, 16 + Prg(f) - 4)
      BY <1>1, RomIs
    <3>2. PICK a : a = 16 + Prg(f) - 4
      OBVIOUS
    <3>3. r[3 + p + c + 1] = RegCmd(f, 0, a)
      BY <3>1, <3>2
    <3> QED
      BY <3>3 DEF RegCmd, Cmd
  <2>4. r[3 + p + c + 2].op = "CpuRegWr"
    <3>1. r[3 + p + c + 2] = RegCmd(f, 1, 16 + Prg(f) - 3)
      BY <1>1, RomIs
    <3>2. PICK a : a = 16 + Prg(f) - 3
      OBVIOUS
    <3>3. r[3 + p + c + 2] = RegCmd(f, 1, a)
      BY <3>1, <3>2
    <3> QED
      BY <3>3 DEF RegCmd, Cmd
  <2> QED
    BY <2>1, <2>2, <2>3, <2>4
<1>4. \A j \in 1 .. p : r[3 + j].op = "CpuMemWr"
  <2> SUFFICES ASSUME NEW j \in 1 .. p PROVE r[3 + j].op = "CpuMemWr"
    OBVIOUS
  <2>1. r[3 + j] = BlockCmd(f, "CpuMemWr", PrgBase + BLOCK * (j - 1), 16 + BLOCK * (j - 1))
    BY <1>1, RomIs, SMTT(20)
  <2>2. PICK a, b : a = PrgBase + BLOCK * (j - 1) /\ b = 16 + BLOCK * (j - 1)
    OBVIOUS
  <2>3. r[3 + j] = BlockCmd(f, "CpuMemWr", a, b)
    BY <2>1, <2>2
  <2> QED
    BY <2>3 DEF BlockCmd, Cmd
<1>5. \A j \in 1 .. c : r[3 + p + j].op = "PpuMemWr"
  <2> SUFFICES ASSUME NEW j \in 1 .. c PROVE r[3 + p + j].op = "PpuMemWr"
    OBVIOUS
  <2>1. r[3 + p + j] = BlockCmd(f, "PpuMemWr", 0 + BLOCK * (j - 1), 16 + Prg(f) + BLOCK * (j - 1))
    BY <1>1, RomIs, SMTT(20)
  <2>2. PICK a, b : a = 0 + BLOCK * (j - 1) /\ b = 16 + Prg(f) + BLOCK * (j - 1)
    OBVIOUS
  <2>3. r[3 + p + j] = BlockCmd(f, "PpuMemWr", a, b)
    BY <2>1, <2>2
  <2> QED
    BY <2>3 DEF BlockCmd, Cmd
<1>6. p \in Nat /\ c \in Nat /\ Len(r) = 6 + p + c /\ i \in 1 .. 6 + p + c
  BY <1>1, <1>2
<1>7. i < Len(r) => r[i].op # "DbgRun"
  <2> HIDE <1>1, <1>2
  <2> SUFFICES ASSUME i < 6 + p + c PROVE r[i].op # "DbgRun"
    BY <1>6
  <2>1. \/ i \in {1, 2, 3}
        \/ i - 3 \in 1 .. p /\ i = 3 + (i - 3)
        \/ i - (3 + p) \in 1 .. c /\ i = 3 + p + (i - (3 + p))
        \/ i = 3 + p + c + 1 \/ i = 3 + p + c + 2
    BY <1>6
  <2>2. CASE i \in {1, 2, 3}
    BY <2>2, <1>3
  <2>3. CASE i - 3 \in 1 .. p /\ i = 3 + (i - 3)
    BY <2>3, <1>4
  <2>4. CASE i - (3 + p) \in 1 .. c /\ i = 3 + p + (i - (3 + p))
    BY <2>4, <1>5
  <2>5. CASE i = 3 + p + c + 1 \/ i = 3 + p + c + 2
    BY <2>5, <1>3
  <2> QED
    BY <2>1, <2>2, <2>3, <2>4, <2>5
<1>8. IsCommand(r[i])
  <2>1. r[i] \in Commands
    BY <1>2, <1>6
  <2> QED
    BY <2>1 DEF Commands
<1> QED
  BY <1>1, <1>3, <1>7, <1>8

(* The next packet of a handler.                                           *)
LEMMA RomNext ==
  ASSUME JobOK, job.cmds # <<>>, job.then = "rom"
  PROVE  /\ Issued \in Nat /\ Issued < Len(RomPackets(job.of[1])) /\ Len(RomPackets(job.of[1])) \in Nat
         /\ Head(job.cmds) = RomPackets(job.of[1])[Issued + 1]
         /\ Tail(job.cmds) = SubSeq(RomPackets(job.of[1]), Issued + 2, Len(RomPackets(job.of[1])))
         /\ Len(RomPackets(job.of[1])) - Len(Tail(job.cmds)) = Issued + 1
         /\ IsCommand(Head(job.cmds))
         /\ Issued = 0 => Head(job.cmds).op = "DbgHlt"
         /\ Issued + 1 < Len(RomPackets(job.of[1])) => Head(job.cmds).op # "DbgRun"
<1>1. PICK f : f = job.of[1]
  OBVIOUS
<1>2. f \in Roms /\ RomAccepted(f) /\ Issued \in 0 .. Len(RomPackets(f))
  BY <1>1, RomJob
<1>3. PICK r : r = RomPackets(f)
  OBVIOUS
<1>4. r \in Seq(Commands) /\ Len(r) \in Nat
  BY <1>2, <1>3, RomIs
<1>5. PICK k : k = Issued
  OBVIOUS
<1>6. k \in 0 .. Len(r) /\ job.cmds = SubSeq(r, k + 1, Len(r))
  BY <1>1, <1>2, <1>3, <1>5 DEF JobOK
<1>7. /\ k < Len(r) /\ k \in Nat /\ Head(job.cmds) = r[k + 1]
      /\ Tail(job.cmds) = SubSeq(r, k + 2, Len(r)) /\ Len(r) - Len(Tail(job.cmds)) = k + 1
  <2> DEFINE q == SubSeq(r, k + 1, Len(r))
  <2>1. k < Len(r)
    BY <1>4, <1>6
  <2>2. q \in Seq(Commands) /\ Len(q) = Len(r) - k /\ q[1] = r[k + 1] /\ q # <<>>
        /\ \A i \in 1 .. Len(r) - k : q[i] = r[k + i]
    BY <1>4, <1>6, <2>1
  <2>3. Head(q) = r[k + 1]
    BY <2>2
  <2>4. Tail(q) = SubSeq(r, k + 2, Len(r))
    <3> DEFINE u == Tail(q)
               v == SubSeq(r, k + 2, Len(r))
    <3> HIDE DEF q
    <3>1. u \in Seq(Commands) /\ Len(u) = Len(r) - k - 1 /\ \A i \in 1 .. Len(u) : u[i] = q[i + 1]
      <4>1. q \in Seq(Commands) /\ q # <<>>
        BY <2>2
      <4>2. u \in Seq(Commands) /\ Len(u) = Len(q) - 1 /\ \A i \in 1 .. Len(u) : u[i] = q[i + 1]
        BY <4>1, HeadTailProperties
      <4>3. Len(q) = Len(r) - k
        BY <2>2
      <4> QED
        BY <1>4, <1>6, <4>2, <4>3
    <3>2. v \in Seq(Commands) /\ Len(v) = Len(r) - k - 1 /\ \A i \in 1 .. Len(v) : v[i] = r[k + 1 + i]
      BY <1>4, <1>6, <2>1
    <3> HIDE DEF u, v
    <3>3. ASSUME NEW i \in 1 .. Len(u) PROVE u[i] = v[i]
      <4>1. Len(q) = Len(r) - k /\ Len(u) = Len(r) - k - 1 /\ k \in Nat /\ Len(r) \in Nat
        BY <1>4, <1>6, <2>2, <3>1
      <4>2. PICK j : j = i + 1 /\ j \in 1 .. Len(r) - k /\ k + j = k + 1 + i
        BY <4>1
      <4>3. u[i] = q[j]
        BY <3>1, <4>2
      <4>4. v[i] = r[k + j]
        <5>1. i \in 1 .. Len(v)
          BY <3>1, <3>2
        <5> QED
          BY <3>2, <4>2, <5>1
      <4>5. q[j] = r[k + j]
        BY <2>2, <4>2
      <4> QED
        BY <4>3, <4>4, <4>5
    <3> QED
      BY <3>1, <3>2, <3>3, SeqEqual DEF u, v
  <2>5. Len(Tail(q)) = Len(r) - k - 1
    BY <2>2
  <2> HIDE DEF q
  <2>6. Len(r) - Len(Tail(q)) = k + 1
    BY <1>4, <1>6, <2>5
  <2>7. k \in Nat
    BY <1>6
  <2> QED
    BY <1>6, <2>1, <2>3, <2>4, <2>6, <2>7 DEF q
<1>8. k + 1 \in 1 .. Len(r)
  BY <1>4, <1>7
<1>9. /\ IsCommand(r[k + 1]) /\ (k + 1 = 1 => r[k + 1].op = "DbgHlt")
      /\ (k + 1 < Len(r) => r[k + 1].op # "DbgRun")
  BY <1>2, <1>3, <1>8, RomOps
<1>10. k = 0 => k + 1 = 1
  OBVIOUS
<1> QED
  BY <1>1, <1>3, <1>4, <1>5, <1>7, <1>9, <1>10

(* What is left of the packet at work is bytes.                            *)
LEMMA RestSeq ==
  ASSUME LinkTypes, LinkInv
  PROVE  Rest \in Seq(Octet)
<1>1. CASE cur = NoCmd
  <2>1. <<>> \in Seq(Octet)
    OBVIOUS
  <2> QED
    BY <1>1, <2>1, IdleRest
<1>2. CASE cur # NoCmd
  <2>1. IsCommand(cur)
    BY <1>2 DEF LinkInv, WorkOK
  <2>2. P(cur) \in Seq(Octet) /\ Len(P(cur)) \in Nat
    BY <2>1, PacketShape
  <2>3. Consumed \in Nat
    <3>1. CASE hci.st = "args"
      <4>1. hci.args \in Seq(Octet)
        BY DEF LinkTypes, HwTypes, IsHci
      <4> QED
        BY <3>1, <4>1 DEF Consumed
    <3>2. CASE hci.st = "echo"
      <4>1. cur.op = "Echo" /\ hci.n \in 1 .. Len(cur.data)
        BY <3>2 DEF LinkInv, WorkOK
      <4>2. Len(P(cur)) = 3 + Len(cur.data) /\ Len(cur.data) \in Nat
        BY <2>1, <4>1, EchoShape, CommandParts
      <4> QED
        BY <3>2, <4>1, <4>2 DEF Consumed
    <3>3. CASE hci.st = "write"
      <4>1. cur.op \in {"CpuMemWr", "PpuMemWr"} /\ hci.n \in 1 .. Len(cur.data)
        BY <3>3 DEF LinkInv, WorkOK
      <4>2. Len(P(cur)) = 5 + Len(cur.data) /\ Len(cur.data) \in Nat
        BY <2>1, <4>1, MemWrShape, CommandParts
      <4> QED
        BY <3>3, <4>1, <4>2 DEF Consumed
    <3>4. CASE hci.st \notin {"args", "echo", "write"}
      BY <2>2, <3>4 DEF Consumed
    <3> QED
      BY <3>1, <3>2, <3>3, <3>4
  <2>4. Rest = SubSeq(P(cur), Consumed + 1, Len(P(cur)))
    BY <1>2 DEF Rest, RestOf
  <2> QED
    BY <2>2, <2>3, <2>4
<1> QED
  BY <1>1, <1>2

(* The handler sends its next packet.                                      *)
LEMMA NextIs ==
  ASSUME JobOK, job.cmds # <<>>
  PROVE  /\ IsCommand(Head(job.cmds))
         /\ held \/ Head(job.cmds).op \in Breaks
         /\ job.then # "rom" => Tail(job.cmds) = <<>>
         /\ job.then = "wait" => Head(job.cmds) = Simple("QueryHlt")
         /\ job.then = "init" => Head(job.cmds).op = "Echo"
<1>1. CASE job.then = "rom"
  <2>1. PICK k, l : k = Issued /\ l = Len(RomPackets(job.of[1]))
    OBVIOUS
  <2>2. k \in Nat /\ l \in Nat /\ k < l /\ (k = 0 => Head(job.cmds).op = "DbgHlt")
    BY <1>1, <2>1, RomNext
  <2>3. 0 < k /\ k < l => held
    BY <1>1, <2>1 DEF JobOK
  <2>4. held \/ k = 0
    BY <2>2, <2>3
  <2>5. IsCommand(Head(job.cmds))
    BY <1>1, RomNext
  <2> QED
    BY <1>1, <2>2, <2>4, <2>5 DEF Breaks
<1>2. CASE job.then # "rom"
  <2>1. PICK c : job.cmds = <<c>> /\ IsCommand(c) /\ (held \/ c.op \in Breaks)
                 /\ (job.then = "wait" => c = Simple("QueryHlt"))
                 /\ (job.then = "init" => c.op = "Echo")
    BY <1>2 DEF JobOK
  <2>2. Head(<<c>>) = c /\ Tail(<<c>>) = <<>>
    OBVIOUS
  <2> QED
    BY <1>2, <2>1, <2>2
<1> QED
  BY <1>1, <1>2

LEMMA Sending ==
  ASSUME JobOK, SendData, NEW c, c = Head(job.cmds)
  PROVE  /\ job.cmds # <<>> /\ job.wait = 0 /\ out = <<>> /\ out' = P(c) /\ out' \in Seq(Octet)
         /\ sent' = IF broken THEN sent ELSE Append(sent, c)
         /\ job'.cmds = Tail(job.cmds) /\ job'.wait = Expect(c) /\ job'.then = job.then
         /\ job'.of = job.of
         /\ job' = [cmds |-> job'.cmds, wait |-> job'.wait, then |-> job'.then, of |-> job'.of]
         /\ held' = IF c.op = "DbgHlt" THEN TRUE ELSE IF c.op = "DbgRun" THEN FALSE ELSE held
         /\ rx' = rx /\ tx' = tx /\ hci' = hci /\ nes' = nes /\ back' = back /\ buf' = buf
         /\ cur' = cur /\ broken' = broken /\ app' = app
<1>1. job.cmds # <<>> /\ job.wait = 0 /\ out = <<>>
  BY DEF SendData
<1>2. IsCommand(c)
  BY <1>1, NextIs
<1>3. P(c) \in Seq(Octet)
  BY <1>2, PacketShape
<1>4. out' = P(c)
  <2>1. out' = out \o P(c)
    BY DEF SendData, P
  <2>2. <<>> \o P(c) = P(c)
    BY <1>3
  <2> QED
    BY <1>1, <2>1, <2>2
<1>5. job' = [job EXCEPT !.cmds = Tail(@), !.wait = Expect(c)]
  BY DEF SendData, Expect
<1>6. job = [cmds |-> job.cmds, wait |-> job.wait, then |-> job.then, of |-> job.of]
  BY DEF JobOK
<1>7. /\ job'.cmds = Tail(job.cmds) /\ job'.wait = Expect(c) /\ job'.then = job.then
      /\ job'.of = job.of
      /\ job' = [cmds |-> job'.cmds, wait |-> job'.wait, then |-> job'.then, of |-> job'.of]
  BY <1>5, <1>6
<1>8. /\ sent' = IF broken THEN sent ELSE Append(sent, c)
      /\ held' = IF c.op = "DbgHlt" THEN TRUE ELSE IF c.op = "DbgRun" THEN FALSE ELSE held
      /\ rx' = rx /\ tx' = tx /\ hci' = hci /\ nes' = nes /\ back' = back /\ buf' = buf
      /\ cur' = cur /\ broken' = broken /\ app' = app
  BY DEF SendData, hciVars
<1> QED
  BY <1>1, <1>3, <1>4, <1>7, <1>8

LEMMA SendJob ==
  ASSUME JobOK, SendData
  PROVE  JobOK'
<1>1. PICK c : c = Head(job.cmds)
  OBVIOUS
<1>2. /\ job.cmds # <<>> /\ job'.cmds = Tail(job.cmds) /\ job'.wait = Expect(c) /\ job'.then = job.then
      /\ job'.of = job.of
      /\ job' = [cmds |-> job'.cmds, wait |-> job'.wait, then |-> job'.then, of |-> job'.of]
      /\ held' = IF c.op = "DbgHlt" THEN TRUE ELSE IF c.op = "DbgRun" THEN FALSE ELSE held
  BY <1>1, Sending
<1>10. app' = "start" => held' /\ job'.then \in {"none", "init"}
  <2> SUFFICES ASSUME app' = "start" PROVE held' /\ job'.then \in {"none", "init"}
    OBVIOUS
  <2>1. app = "start"
    BY <1>1, Sending
  <2>2. held /\ job.then \in {"none", "init"} /\ (job.then = "none" => job.cmds = <<>>)
    BY <2>1 DEF JobOK, NoJob
  <2>3. job.then = "init"
    BY <1>2, <2>2
  <2>4. c.op = "Echo"
    BY <1>1, <1>2, <2>3, NextIs
  <2> QED
    BY <1>2, <2>2, <2>3, <2>4
<1>3. IsCommand(c) /\ (job.then # "rom" => Tail(job.cmds) = <<>>)
  BY <1>1, <1>2, NextIs
<1>4. job'.wait \in Word
  BY <1>2, <1>3, PacketShape
<1>5. held' \in BOOLEAN
  BY <1>2 DEF JobOK
<1>6. job'.then \in {"none", "init", "lua", "wait", "raw", "rom"}
  BY <1>2 DEF JobOK
<1>7. job'.then # "none"
  <2>1. NoJob.cmds = <<>>
    BY DEF NoJob
  <2> QED
    BY <1>2, <2>1 DEF JobOK
<1>8. job'.then # "rom" => job'.cmds = <<>>
  BY <1>2, <1>3
<1>9. ASSUME job'.then = "rom"
      PROVE  /\ job'.of[1] \in Roms /\ RomAccepted(job'.of[1])
             /\ Issued' \in 0 .. Len(RomPackets(job'.of[1]))
             /\ job'.cmds = SubSeq(RomPackets(job'.of[1]), Issued' + 1, Len(RomPackets(job'.of[1])))
             /\ 0 < Issued' /\ Issued' < Len(RomPackets(job'.of[1])) => held'
  <2>1. job.then = "rom" /\ job'.of = job.of
    BY <1>2, <1>9
  <2>2. PICK r, f, k : r = RomPackets(job.of[1]) /\ f = job.of[1] /\ k = Issued
    OBVIOUS
  <2>3. /\ k \in Nat /\ k < Len(r) /\ Len(r) \in Nat
        /\ Tail(job.cmds) = SubSeq(r, k + 2, Len(r)) /\ Len(r) - Len(Tail(job.cmds)) = k + 1
        /\ k = 0 => c.op = "DbgHlt"
        /\ k + 1 < Len(r) => c.op # "DbgRun"
    BY <1>1, <1>2, <2>1, <2>2, RomNext
  <2>4. Issued' = k + 1
    BY <1>2, <2>1, <2>2, <2>3 DEF Issued
  <2>5. 0 < k /\ k < Len(r) => held
    BY <2>1, <2>2 DEF JobOK
  <2>6. k + 1 < Len(r) => held'
    <3> SUFFICES ASSUME k + 1 < Len(r) PROVE held'
      OBVIOUS
    <3>1. CASE k = 0
      BY <1>2, <2>3, <3>1
    <3>2. CASE 0 < k
      BY <1>2, <2>3, <2>5, <3>2
    <3> QED
      BY <2>3, <3>1, <3>2
  <2>7. k + 1 \in 0 .. Len(r) /\ (k + 1) + 1 = k + 2
    BY <2>3
  <2>8. f \in Roms /\ RomAccepted(f)
    BY <2>1, <2>2, RomJob
  <2> QED
    BY <1>2, <2>1, <2>2, <2>3, <2>4, <2>6, <2>7, <2>8
<1> QED
  BY <1>2, <1>4, <1>5, <1>6, <1>7, <1>8, <1>9, <1>10 DEF JobOK

LEMMA SendTypes ==
  ASSUME LinkTypes, JobOK, SendData
  PROVE  LinkTypes'
<1>1. PICK c : c = Head(job.cmds)
  OBVIOUS
<1>2. /\ out' \in Seq(Octet) /\ sent' = IF broken THEN sent ELSE Append(sent, c)
      /\ rx' = rx /\ tx' = tx /\ hci' = hci /\ nes' = nes /\ back' = back
      /\ cur' = cur /\ broken' = broken
  BY <1>1, Sending
<1>3. HwTypes'
  BY <1>2 DEF LinkTypes, HwTypes
<1> QED
  BY <1>2, <1>3 DEF LinkTypes

LEMMA SendKeeps ==
  ASSUME LinkTypes, JobOK, LinkInv, ~broken, SendData
  PROVE  LinkInv'
<1>1. PICK c : c = Head(job.cmds)
  OBVIOUS
<1>2. /\ job.cmds # <<>> /\ job.wait = 0 /\ out = <<>> /\ out' = P(c) /\ out' \in Seq(Octet)
      /\ sent' = Append(sent, c)
      /\ job'.cmds = Tail(job.cmds) /\ job'.wait = Expect(c) /\ job'.then = job.then
      /\ job'.of = job.of
      /\ held' = IF c.op = "DbgHlt" THEN TRUE ELSE IF c.op = "DbgRun" THEN FALSE ELSE held
      /\ rx' = rx /\ tx' = tx /\ hci' = hci /\ nes' = nes /\ back' = back /\ buf' = buf
      /\ cur' = cur
  BY <1>1, Sending
<1>3. IsCommand(c) /\ (held \/ c.op \in Breaks) /\ (job.then = "wait" => c = Simple("QueryHlt"))
  BY <1>1, <1>2, NextIs
<1>4. WorkOK' /\ Rest' = Rest /\ Produced' = Produced /\ Held' = Held
  BY <1>2, StreamWorkSame
<1>5. IsQueue(sent) /\ WireOf(sent) \in Seq(Octet) /\ rx \in Seq(Octet) /\ Len(rx) <= 1
  BY WireBytes DEF LinkInv, StreamOK, LinkTypes, HwTypes
<1>6. Rest \in Seq(Octet)
  BY RestSeq
<1>7. rx = Rest \o WireOf(sent)
  <2>1. rx \o out = rx
    BY <1>2, <1>5
  <2> QED
    BY <2>1 DEF LinkInv, StreamOK
<1>8. Len(sent) < 2 /\ Len(sent) \in Nat
  <2>1. Len(rx) = Len(Rest) + Len(WireOf(sent)) /\ Len(Rest) \in Nat /\ Len(WireOf(sent)) \in Nat
    BY <1>5, <1>6, <1>7
  <2>2. Len(sent) \in 0 .. 2 /\ (Len(sent) = 2 => Len(WireOf(sent)) >= 2)
    BY <1>5, WireBytes
  <2>3. Len(WireOf(sent)) < 2
    <3>1. Len(rx) \in Nat /\ Len(rx) <= 1
      BY <1>5
    <3> QED
      BY <2>1, <3>1
  <2>4. Len(sent) # 2
    <3>1. ~(Len(WireOf(sent)) >= 2)
      BY <2>1, <2>3
    <3> QED
      BY <2>2, <3>1
  <2> QED
    BY <2>2, <2>4
<1>9. /\ IsQueue(sent') /\ Len(sent') = Len(sent) + 1 /\ sent'[Len(sent) + 1] = c
      /\ Len(sent) = 1 => sent'[1] = sent[1]
      /\ WireOf(sent') = WireOf(sent) \o P(c) /\ sent' # <<>>
  BY <1>2, <1>3, <1>5, <1>8, QueueAppend
<1>14. \A i \in 1 .. Len(sent') : i = Len(sent) + 1 \/ (i = 1 /\ Len(sent) = 1)
  <2>1. PICK n \in Nat : n = Len(sent) /\ n < 2 /\ Len(sent') = n + 1
    BY <1>8, <1>9
  <2>2. \A i \in 1 .. n + 1 : i = n + 1 \/ (i = 1 /\ n = 1)
    BY <2>1
  <2> QED
    BY <2>1, <2>2
<1>10. StreamOK'
  <2>1. P(c) \in Seq(Octet)
    BY <1>3, PacketShape
  <2>2. (Rest \o WireOf(sent)) \o P(c) = Rest \o (WireOf(sent) \o P(c))
    BY <1>5, <1>6, <2>1, Joins
  <2>3. rx' \o out' = Rest' \o WireOf(sent')
    BY <1>2, <1>4, <1>7, <1>9, <2>2
  <2>4. rx' # <<>> /\ hci'.st = "echo" => Len(tx') < FIFO
    BY <1>2 DEF LinkInv, StreamOK
  <2> QED
    BY <1>9, <2>3, <2>4 DEF StreamOK
<1>11. AnswerOK'
  <2>1. back' = <<>> /\ tx' = <<>>
    BY <1>2 DEF LinkInv, AnswerOK
  <2>2. cur # NoCmd => Expect(cur) = 0
    BY <1>2 DEF LinkInv, AnswerOK
  <2>3. \A i \in 1 .. Len(sent') : i < Len(sent') \/ job'.wait = 0 => Expect(sent'[i]) = 0
    <3> SUFFICES ASSUME NEW i \in 1 .. Len(sent'), i < Len(sent') \/ job'.wait = 0
                 PROVE  Expect(sent'[i]) = 0
      OBVIOUS
    <3>1. i = Len(sent) + 1 \/ (i = 1 /\ Len(sent) = 1)
      BY <1>14
    <3>2. CASE i = Len(sent) + 1
      BY <1>2, <1>8, <1>9, <3>2
    <3>3. CASE i = 1 /\ Len(sent) = 1
      <4>1. Expect(sent[1]) = 0
        BY <1>2, <3>3 DEF LinkInv, AnswerOK
      <4> QED
        BY <1>9, <3>3, <4>1
    <3> QED
      BY <3>1, <3>2, <3>3
  <2>4. Expect(sent'[Len(sent')]) = job'.wait
    BY <1>2, <1>9
  <2> QED
    BY <1>2, <1>9, <2>1, <2>2, <2>3, <2>4 DEF AnswerOK
<1>12. HaltOK'
  <2>1. held => Settled
    BY DEF LinkInv, HaltOK
  <2>2. /\ Len(sent') = 1 => sent = <<>> /\ sent'[1] = c /\ Settled' = Settles(c, nes.halted)
                             /\ Settled = nes.halted
        /\ Len(sent') # 1 => /\ Len(sent') = 2 /\ Len(sent) = 1 /\ sent # <<>>
                             /\ sent'[1] = sent[1] /\ sent'[2] = c
                             /\ Settled' = Settles(c, Settles(sent[1], nes.halted))
                             /\ Settled = Settles(sent[1], nes.halted)
    <3>1. sent = <<>> <=> Len(sent) = 0
      BY <1>5, WireBytes
    <3>2. Len(sent') = 1 <=> Len(sent) = 0
      BY <1>8, <1>9
    <3>3. Len(sent') # 1 => Len(sent') = 2 /\ Len(sent) = 1
      <4>1. PICK n \in Nat : n = Len(sent) /\ n < 2 /\ Len(sent') = n + 1
        BY <1>8, <1>9
      <4>2. n + 1 # 1 => n + 1 = 2 /\ n = 1
        BY <4>1
      <4> QED
        BY <4>1, <4>2
    <3>4. Len(sent') = 1 => sent = <<>> /\ sent'[1] = c
      BY <1>9, <3>1, <3>2
    <3>5. Len(sent') # 1 => sent # <<>> /\ sent'[1] = sent[1] /\ sent'[2] = c
      BY <1>9, <3>1, <3>3
    <3> QED
      BY <1>2, <1>9, <3>3, <3>4, <3>5 DEF Settled
  <2>3. held' => Settled'
    <3>1. PICK h : h = Settled /\ Settled' = Settles(c, h)
      BY <2>2
    <3>2. held => h
      BY <2>1, <3>1
    <3>3. held' = IF c.op = "DbgHlt" THEN TRUE ELSE IF c.op = "DbgRun" THEN FALSE ELSE held
      BY <1>2
    <3>4. held' => Settles(c, h)
      BY <3>2, <3>3 DEF Settles
    <3> QED
      BY <3>1, <3>4
  <2>4. sent'[1].op \in Breaks \/ nes'.halted
    <3>1. CASE Len(sent') = 1
      BY <1>2, <1>3, <2>1, <2>2, <3>1
    <3>2. CASE Len(sent') # 1
      BY <1>2, <2>2, <3>2 DEF LinkInv, HaltOK
    <3> QED
      BY <3>1, <3>2
  <2>5. Len(sent') = 2 => sent'[2].op \in Breaks \/ Settles(sent'[1], nes'.halted)
    BY <1>2, <1>3, <2>1, <2>2
  <2>6. job'.then = "wait" /\ job'.cmds = <<>> =>
          job'.wait = 1 /\ sent'[Len(sent')] = Simple("QueryHlt")
    <3> SUFFICES ASSUME job'.then = "wait" PROVE job'.wait = 1 /\ c = Simple("QueryHlt")
      BY <1>9
    <3>1. c = Simple("QueryHlt")
      BY <1>2, <1>3
    <3>2. Expect(Simple("QueryHlt")) = 1
      BY DEF Expect, PacketData, CartPacket, QueryHltPacket, DbgPacket, Simple, Cmd
    <3> QED
      BY <1>2, <3>1, <3>2
  <2> QED
    BY <1>9, <2>3, <2>4, <2>5, <2>6 DEF HaltOK
<1>13. RomOK'
  <2> SUFFICES ASSUME job'.then = "rom"
               PROVE  /\ \A i \in 1 .. Len(sent') : Executed' + i >= 1 =>
                           sent'[i] = RomPackets(job'.of[1])[Executed' + i]
                      /\ Executed' < Len(RomPackets(job'.of[1])) => Loaded(Held', job'.of[1], Executed')
    BY DEF RomOK
  <2>1. PICK r, k : r = RomPackets(job.of[1]) /\ k = Issued
    OBVIOUS
  <2>2. /\ k \in Nat /\ Len(r) \in Nat /\ c = r[k + 1] /\ Len(r) - Len(Tail(job.cmds)) = k + 1
    BY <1>1, <1>2, <2>1, RomNext
  <2>3. Issued' = k + 1
    BY <1>2, <2>1, <2>2 DEF Issued
  <2>4. PICK e \in Int : e = Executed /\ Executed' = e /\ e = k - Len(sent)
    <3>1. PICK n \in Nat : n = Len(sent) /\ Len(sent') = n + 1
      BY <1>8, <1>9
    <3>2. Executed = k - n /\ Executed' = (k + 1) - (n + 1)
      BY <2>1, <2>3, <3>1 DEF Executed
    <3>3. k - n \in Int /\ (k + 1) - (n + 1) = k - n
      BY <2>2, <3>1
    <3> QED
      BY <3>1, <3>2, <3>3
  <2>5. /\ \A i \in 1 .. Len(sent) : e + i >= 1 => sent[i] = r[e + i]
        /\ e < Len(r) => Loaded(Held, job.of[1], e)
    BY <1>2, <2>1, <2>4 DEF LinkInv, RomOK
  <2>6. ASSUME NEW i \in 1 .. Len(sent'), e + i >= 1
        PROVE  sent'[i] = r[e + i]
    <3>1. i = Len(sent) + 1 \/ (i = 1 /\ Len(sent) = 1)
      BY <1>14
    <3>2. CASE i = Len(sent) + 1
      <4>1. e + i = k + 1
        BY <1>8, <2>2, <2>4, <3>2
      <4> QED
        BY <1>9, <2>2, <3>2, <4>1
    <3>3. CASE i = 1 /\ Len(sent) = 1
      <4>1. sent[1] = r[e + 1]
        BY <2>5, <2>6, <3>3
      <4> QED
        BY <1>9, <3>3, <4>1
    <3> QED
      BY <3>1, <3>2, <3>3
  <2> QED
    BY <1>2, <1>4, <2>1, <2>4, <2>5, <2>6
<1> QED
  BY <1>4, <1>10, <1>11, <1>12, <1>13 DEF LinkInv

(* A handler starts, polls again or ends while the line rests.             *)
LEMMA JobChanges ==
  ASSUME LinkInv, UNCHANGED <<hciVars, out, back, sent, cur>>, job.wait = 0, job'.wait = 0,
         held' => Settled, job'.then # "wait" \/ job'.cmds # <<>>, RomOK'
  PROVE  LinkInv'
<1>1. /\ rx' = rx /\ tx' = tx /\ hci' = hci /\ nes' = nes /\ out' = out /\ back' = back
      /\ sent' = sent /\ cur' = cur
  BY DEF hciVars
<1>2. WorkOK' /\ Rest' = Rest /\ Produced' = Produced /\ Held' = Held
  BY <1>1, StreamWorkSame
<1>3. StreamOK'
  BY <1>1, <1>2 DEF LinkInv, StreamOK
<1>4. AnswerOK'
  <2>1. AnswerOK
    BY DEF LinkInv
  <2>2. /\ \A i \in 1 .. Len(sent) : Expect(sent[i]) = 0
        /\ back = <<>> /\ tx = <<>> /\ (cur # NoCmd => Expect(cur) = 0)
    BY <2>1 DEF AnswerOK
  <2> QED
    BY <1>1, <2>2 DEF AnswerOK
<1>5. HaltOK'
  <2>1. Settled' = Settled
    BY <1>1 DEF Settled
  <2>2. HaltOK
    BY DEF LinkInv
  <2> QED
    BY <1>1, <2>1, <2>2 DEF HaltOK
<1> QED
  BY <1>2, <1>3, <1>4, <1>5 DEF LinkInv

LEMMA QueueLen ==
  ASSUME LinkInv
  PROVE  Len(sent) \in Nat
<1>1. IsQueue(sent)
  BY DEF LinkInv, StreamOK
<1>2. Len(sent) \in 0 .. 2
  BY <1>1, WireBytes
<1> QED
  BY <1>2

(* One packet.                                                             *)
LEMMA StartOne ==
  ASSUME LinkTypes, JobOK, ~broken => LinkInv, NEW c, NEW then, NEW of, Start(<<c>>, then, of), IsCommand(c),
         then \in {"init", "lua", "wait", "raw"}, held \/ c.op \in Breaks,
         then = "wait" => c = Simple("QueryHlt"), then = "init" => c.op = "Echo",
         app' = app, app = "start" => then = "init"
  PROVE  LinkTypes' /\ JobOK' /\ (~broken' => LinkInv')
<1>1. /\ UNCHANGED <<hciVars, out, back, sent, cur, broken>> /\ held' = held /\ job = NoJob
      /\ job' = [cmds |-> <<c>>, wait |-> 0, then |-> then, of |-> of]
  BY DEF Start
<1>2. LinkTypes'
  BY <1>1, TypesSame
<1>3. job'.cmds = <<c>> /\ job'.wait = 0 /\ job'.then = then /\ job'.of = of /\ job'.cmds # <<>>
      /\ job' = [cmds |-> job'.cmds, wait |-> job'.wait, then |-> job'.then, of |-> job'.of]
  BY <1>1
<1>4. JobOK'
  <2>1. job'.wait \in Word
    BY <1>3, Zeros
  <2>2. held' \in BOOLEAN /\ (app' = "start" => held' /\ job'.then \in {"none", "init"})
    BY <1>1, <1>3 DEF JobOK
  <2>3. <<c>>[1] = c
    OBVIOUS
  <2> QED
    BY <1>1, <1>3, <2>1, <2>2, <2>3 DEF JobOK
<1>5. ASSUME ~broken' PROVE LinkInv'
  <2>1. LinkInv /\ job.wait = 0
    BY <1>1, <1>5 DEF NoJob
  <2>2. held' => Settled
    BY <1>1, <2>1 DEF LinkInv, HaltOK
  <2>3. RomOK'
    BY <1>3 DEF RomOK
  <2> QED
    BY <1>1, <1>3, <2>1, <2>2, <2>3, JobChanges
<1> QED
  BY <1>2, <1>4, <1>5

(* The packets of a file.                                                  *)
LEMMA StartRom ==
  ASSUME LinkTypes, JobOK, ~broken => LinkInv, NEW f \in Roms, RomAccepted(f),
         Start(RomPackets(f), "rom", <<f>>), app = "main", app' = app
  PROVE  LinkTypes' /\ JobOK' /\ (~broken' => LinkInv')
<1>1. /\ UNCHANGED <<hciVars, out, back, sent, cur, broken>> /\ held' = held /\ job = NoJob
      /\ job' = [cmds |-> RomPackets(f), wait |-> 0, then |-> "rom", of |-> <<f>>]
  BY DEF Start
<1>2. LinkTypes'
  BY <1>1, TypesSame
<1>3. /\ job'.cmds = RomPackets(f) /\ job'.wait = 0 /\ job'.then = "rom" /\ job'.of = <<f>>
      /\ job' = [cmds |-> job'.cmds, wait |-> job'.wait, then |-> job'.then, of |-> job'.of]
  BY <1>1
<1>4. PICK r : r = RomPackets(f) /\ r \in Seq(Commands) /\ Len(r) \in Nat
  <2>1. RomPackets(f) \in Seq(Commands)
    BY RomIs
  <2>2. Len(RomPackets(f)) \in Nat
    BY <2>1
  <2> QED
    BY <2>1, <2>2
<1>5. job'.of[1] = f /\ Issued' = 0
  <2>1. job'.of[1] = f
    BY <1>3
  <2>2. Issued' = Len(r) - Len(r)
    BY <1>3, <1>4, <2>1 DEF Issued
  <2> QED
    BY <1>4, <2>1, <2>2
<1>6. JobOK'
  <2>1. job'.wait \in Word
    BY <1>3, Zeros
  <2>2. held' \in BOOLEAN /\ app' # "start"
    BY <1>1 DEF JobOK
  <2>3. r = SubSeq(r, 1, Len(r))
    BY <1>4
  <2>4. 0 \in 0 .. Len(r) /\ ~(0 < 0) /\ 0 + 1 = 1
    BY <1>4
  <2>5. Issued' \in 0 .. Len(RomPackets(f))
    BY <1>4, <1>5, <2>4
  <2>6. job'.cmds = SubSeq(RomPackets(f), Issued' + 1, Len(RomPackets(f)))
    BY <1>3, <1>4, <1>5, <2>3, <2>4
  <2> QED
    BY <1>3, <1>5, <2>1, <2>2, <2>4, <2>5, <2>6 DEF JobOK
<1>7. ASSUME ~broken' PROVE LinkInv'
  <2>1. LinkInv /\ job.wait = 0
    BY <1>1, <1>7 DEF NoJob
  <2>2. held' => Settled
    BY <1>1, <2>1 DEF LinkInv, HaltOK
  <2>3. RomOK'
    <3>1. PICK n \in Nat : n = Len(sent) /\ n = Len(sent')
      BY <1>1, <2>1, QueueLen
    <3>2. Executed' = 0 - n
      BY <1>5, <3>1 DEF Executed
    <3>3. 0 - n \in Int /\ 0 - n <= 0 /\ \A i \in 1 .. n : ~((0 - n) + i >= 1)
      BY <3>1
    <3>4. Loaded(Held', f, 0 - n)
      BY <3>3, FarLoads
    <3>5. \A i \in 1 .. Len(sent') : ~(Executed' + i >= 1)
      BY <3>1, <3>2, <3>3
    <3> QED
      BY <1>3, <1>5, <3>2, <3>4, <3>5 DEF RomOK
  <2>4. job'.then # "wait"
    BY <1>3
  <2> QED
    BY <1>1, <1>3, <2>1, <2>2, <2>3, <2>4, JobChanges
<1> QED
  BY <1>2, <1>6, <1>7

(* The handler returns.                                                    *)
LEMMA EndKeeps ==
  ASSUME LinkTypes, JobOK, ~broken => LinkInv, End, job.wait = 0, held' \in BOOLEAN,
         ~broken /\ held' => Settled, app' = "start" => held'
  PROVE  LinkTypes' /\ JobOK' /\ (~broken' => LinkInv')
<1>1. UNCHANGED <<hciVars, out, back, sent, cur, broken>> /\ job' = NoJob
  BY DEF End
<1>2. LinkTypes'
  BY <1>1, TypesSame
<1>3. /\ job'.cmds = <<>> /\ job'.wait = 0 /\ job'.then = "none"
      /\ job' = [cmds |-> job'.cmds, wait |-> job'.wait, then |-> job'.then, of |-> job'.of]
  BY <1>1 DEF NoJob
<1>4. JobOK'
  <2>1. job'.wait \in Word
    BY <1>3, Zeros
  <2> QED
    BY <1>1, <1>3, <2>1 DEF JobOK
<1>5. ASSUME ~broken' PROVE LinkInv'
  <2>1. RomOK'
    BY <1>3 DEF RomOK
  <2>2. job'.then # "wait"
    BY <1>3
  <2> QED
    BY <1>1, <1>3, <1>5, <2>1, <2>2, JobChanges
<1> QED
  BY <1>2, <1>4, <1>5

(* The actions of the program, one by one.                                 *)
Keeps == LinkTypes' /\ JobOK' /\ (~broken' => LinkInv')

LEMMA PollAgainKeeps ==
  ASSUME LinkTypes, JobOK, ~broken => LinkInv, PollAgain
  PROVE  Keeps
<1>1. /\ UNCHANGED <<hciVars, out, back, sent, cur, broken>> /\ held' = held /\ app' = app
      /\ job.wait = 0 /\ job.then = "wait"
      /\ job' = [job EXCEPT !.cmds = <<Simple("QueryHlt")>>]
  BY DEF PollAgain, Ended
<1>2. LinkTypes'
  BY <1>1, TypesSame
<1>3. PICK c : c = Simple("QueryHlt")
  OBVIOUS
<1>4. IsCommand(c) /\ c.op \in Breaks
  BY <1>3, Zeros, OpCodes DEF IsCommand, Simple, Cmd, Breaks
<1>5. /\ job'.cmds = <<c>> /\ job'.wait = 0 /\ job'.then = "wait" /\ job'.of = job.of
      /\ job' = [cmds |-> job'.cmds, wait |-> job'.wait, then |-> job'.then, of |-> job'.of]
  BY <1>1, <1>3 DEF JobOK
<1>6. JobOK'
  <2>1. job'.wait \in Word
    BY <1>5, Zeros
  <2>2. held' \in BOOLEAN /\ app' # "start"
    BY <1>1 DEF JobOK
  <2>3. <<c>>[1] = c
    OBVIOUS
  <2> QED
    BY <1>3, <1>4, <1>5, <2>1, <2>2, <2>3 DEF JobOK
<1>7. ASSUME ~broken' PROVE LinkInv'
  <2>1. LinkInv
    BY <1>1, <1>7
  <2>2. held' => Settled
    BY <1>1, <2>1 DEF LinkInv, HaltOK
  <2>3. RomOK'
    BY <1>5 DEF RomOK
  <2>4. job'.cmds # <<>>
    BY <1>5
  <2> QED
    BY <1>1, <1>5, <2>1, <2>2, <2>3, <2>4, JobChanges
<1> QED
  BY <1>2, <1>6, <1>7 DEF Keeps

LEMMA EndsKeep ==
  ASSUME LinkTypes, JobOK, ~broken => LinkInv, WinMain \/ Returns \/ RawShows
  PROVE  Keeps
<1>1. End /\ job.wait = 0 /\ held' = held /\ (app' = app \/ app' # "start")
  BY DEF WinMain, Returns, RawShows, Ended
<1>2. held' \in BOOLEAN /\ (app' = "start" => held')
  BY <1>1 DEF JobOK
<1>3. ~broken /\ held' => Settled
  BY <1>1 DEF LinkInv, HaltOK
<1> QED
  BY <1>1, <1>2, <1>3, EndKeeps DEF Keeps

LEMMA PollEndsKeeps ==
  ASSUME LinkTypes, JobOK, ~broken => LinkInv, PollEnds
  PROVE  Keeps
<1>1. End /\ job.wait = 0 /\ held' = TRUE /\ app' = app /\ job.then = "wait" /\ job.cmds = <<>> /\ buf[1] # 0
  BY DEF PollEnds, Ended
<1>2. ~broken /\ held' => Settled
  <2> SUFFICES ASSUME LinkInv PROVE Settled
    OBVIOUS
  <2>1. sent = <<>> /\ nes.halted
    BY <1>1 DEF LinkInv, HaltOK
  <2> QED
    BY <2>1 DEF Settled
<1>3. held' \in BOOLEAN /\ (app' = "start" => held')
  BY <1>1
<1> QED
  BY <1>1, <1>2, <1>3, EndKeeps DEF Keeps

LEMMA RestingKeeps ==
  ASSUME LinkTypes, JobOK, ~broken => LinkInv,
         UNCHANGED <<hciVars, job, out, back, held, sent, cur, broken>>, buf' = buf,
         app' = app \/ app' # "start"
  PROVE  Keeps
<1>1. LinkTypes'
  BY TypesSame
<1>2. JobOK'
  BY DEF JobOK, Issued
<1>3. ASSUME ~broken' PROVE LinkInv'
  BY <1>3, LinkSame DEF hciVars
<1> QED
  BY <1>1, <1>2, <1>3 DEF Keeps

LEMMA DialogsKeep ==
  ASSUME LinkTypes, JobOK, ~broken => LinkInv,
         WndProc \/ LaunchRawDbgDlg \/ RawClear \/ TestScriptDlgProc \/ ScriptEnds
  PROVE  Keeps
<1>1. UNCHANGED <<hciVars, job, out, back, held, sent, cur, broken>> /\ buf' = buf
  BY Zenon DEF WndProc, LaunchRawDbgDlg, Goes, RawClear, TestScriptDlgProc, TestScriptDlgRun, ScriptEnds
<1>2. app' = app \/ app' # "start"
  BY Zenon DEF WndProc, LaunchRawDbgDlg, Goes, RawClear, TestScriptDlgProc, TestScriptDlgRun, ScriptEnds
<1> QED
  BY <1>1, <1>2, RestingKeeps

(* The calls of a script.                                                  *)
LEMMA LuaKeeps ==
  ASSUME LinkTypes, JobOK, ~broken => LinkInv, NEW c, IsCommand(c), Lua(c)
  PROVE  Keeps
<1>1. PICK w : w = "lua"
  OBVIOUS
<1>2. PICK q : q = <<>>
  OBVIOUS
<1>3. app = "script" /\ app' = app /\ Start(<<c>>, w, q) /\ (held \/ Head(<<c>>).op \in Breaks)
  BY <1>1, <1>2 DEF Lua, Calls, Breaks
<1>4. Head(<<c>>) = c
  OBVIOUS
<1>5. w \in {"init", "lua", "wait", "raw"} /\ w # "wait" /\ w # "init"
  BY <1>1
<1> QED
  BY <1>3, <1>4, <1>5, StartOne DEF Keeps

LEMMA Texts3 ==
  /\ \A d \in Octet : <<d>> \in Seq(Octet) /\ <<d, d>> \in Seq(Octet) /\ <<d, d, d>> \in Seq(Octet)
                      /\ Len(<<d>>) = 1 /\ Len(<<d, d>>) = 2 /\ Len(<<d, d, d>>) = 3
  /\ <<>> \in Seq(Octet) /\ Len(<<>>) = 0
  /\ 0 \in Word /\ 1 \in Word /\ 2 \in Word /\ 3 \in Word /\ 4 \in Word
<1>1. 0 \in Word /\ 1 \in Word /\ 2 \in Word /\ 3 \in Word /\ 4 \in Word
  BY WordIs
<1> QED
  BY <1>1

(* A command is given by its parts.                                        *)
LEMMA Commanded ==
  ASSUME NEW o \in {"Echo", "CpuMemRd", "CpuMemWr", "DbgHlt", "DbgRun", "QueryHlt", "PpuMemRd",
                    "PpuMemWr", "PpuDisable"},
         NEW a \in Word, NEW d \in Seq(Octet), Len(d) \in Word, NEW n \in Word
  PROVE  IsCommand(Cmd(o, a, d, n))
BY OpCodes DEF IsCommand, Cmd

LEMMA CommandedReg ==
  ASSUME NEW a \in 0 .. 6, NEW d \in Octet
  PROVE  IsCommand(Cmd("CpuRegWr", a, <<d>>, 0)) /\ IsCommand(Cmd("CpuRegRd", a, <<>>, 0))
<1>1. a \in Word
  BY WordIs
<1> QED
  BY <1>1, OpCodes, Texts3 DEF IsCommand, Cmd

LEMMA LuaCallKeeps ==
  ASSUME LinkTypes, JobOK, ~broken => LinkInv, LuaCall
  PROVE  Keeps
<1>0. Bytes \subseteq Octet /\ Addrs \subseteq Word /\ FIFO + 2 \in Word
  BY DebuggerAssumption
<1>1. CASE LuaEcho
  <2>1. PICK d \in Bytes : Lua(Cmd("Echo", 0, <<d, d, d>>, 0))
    BY <1>1 DEF LuaEcho
  <2>2. <<d, d, d>> \in Seq(Octet) /\ Len(<<d, d, d>>) \in Word /\ 0 \in Word
    BY <1>0, Texts3
  <2>3. IsCommand(Cmd("Echo", 0, <<d, d, d>>, 0))
    BY <2>2, Commanded
  <2> QED
    BY <2>1, <2>3, LuaKeeps
<1>2. CASE LuaCpuMemRd
  <2>1. PICK a \in Addrs, n \in {0, FIFO + 2} : Lua(Cmd("CpuMemRd", a, <<>>, n))
    BY <1>2 DEF LuaCpuMemRd
  <2>2. a \in Word /\ n \in Word
    BY <1>0, Texts3
  <2>3. IsCommand(Cmd("CpuMemRd", a, <<>>, n))
    BY <2>2, Texts3, Commanded
  <2> QED
    BY <2>1, <2>3, LuaKeeps
<1>3. CASE LuaCpuMemWr
  <2>1. PICK a \in Addrs, d \in Bytes : Lua(Cmd("CpuMemWr", a, <<d, d>>, 0))
    BY <1>3 DEF LuaCpuMemWr
  <2>2. a \in Word /\ <<d, d>> \in Seq(Octet) /\ Len(<<d, d>>) \in Word
    BY <1>0, Texts3
  <2>3. IsCommand(Cmd("CpuMemWr", a, <<d, d>>, 0))
    BY <2>2, Texts3, Commanded
  <2> QED
    BY <2>1, <2>3, LuaKeeps
<1>4. CASE LuaDbgHlt
  <2>1. IsCommand(Simple("DbgHlt"))
    BY Texts3, Commanded DEF Simple
  <2> QED
    BY <1>4, <2>1, LuaKeeps DEF LuaDbgHlt
<1>5. CASE LuaDbgRun
  <2>1. IsCommand(Simple("DbgRun"))
    BY Texts3, Commanded DEF Simple
  <2> QED
    BY <1>5, <2>1, LuaKeeps DEF LuaDbgRun
<1>6. CASE LuaCpuRegRd
  <2>1. CpuReg.X \in 0 .. 6
    BY DEF CpuReg
  <2>2. 0 \in Octet
    BY Zeros
  <2>3. IsCommand(Cmd("CpuRegRd", CpuReg.X, <<>>, 0))
    BY <2>1, <2>2, CommandedReg
  <2> QED
    BY <1>6, <2>3, LuaKeeps DEF LuaCpuRegRd
<1>7. CASE LuaCpuRegWr
  <2>1. PICK d \in Bytes : Lua(Cmd("CpuRegWr", CpuReg.X, <<d>>, 0))
    BY <1>7 DEF LuaCpuRegWr
  <2>2. CpuReg.X \in 0 .. 6
    BY DEF CpuReg
  <2>3. IsCommand(Cmd("CpuRegWr", CpuReg.X, <<d>>, 0))
    BY <1>0, <2>2, CommandedReg
  <2> QED
    BY <2>1, <2>3, LuaKeeps
<1>8. CASE LuaPpuMemRd
  <2>1. PICK a \in Addrs : Lua(Cmd("PpuMemRd", a, <<>>, 2))
    BY <1>8 DEF LuaPpuMemRd
  <2>2. IsCommand(Cmd("PpuMemRd", a, <<>>, 2))
    BY <1>0, Texts3, Commanded
  <2> QED
    BY <2>1, <2>2, LuaKeeps
<1>9. CASE LuaPpuMemWr
  <2>1. PICK a \in Addrs, d \in Bytes : Lua(Cmd("PpuMemWr", a, <<d>>, 0))
    BY <1>9 DEF LuaPpuMemWr
  <2>2. a \in Word /\ <<d>> \in Seq(Octet) /\ Len(<<d>>) \in Word
    BY <1>0, Texts3
  <2>3. IsCommand(Cmd("PpuMemWr", a, <<d>>, 0))
    BY <2>2, Texts3, Commanded
  <2> QED
    BY <2>1, <2>3, LuaKeeps
<1>10. CASE LuaWaitForHlt
  <2>1. PICK c : c = Simple("QueryHlt")
    OBVIOUS
  <2>2. PICK w : w = "wait"
    OBVIOUS
  <2>3. PICK q : q = <<>>
    OBVIOUS
  <2>4. IsCommand(c) /\ c.op \in Breaks
    BY <2>1, Texts3, Commanded DEF Simple, Breaks, Cmd
  <2>5. app = "script" /\ app' = app /\ Start(<<c>>, w, q)
    BY <1>10, <2>1, <2>2, <2>3 DEF LuaWaitForHlt, Calls
  <2>6. w \in {"init", "lua", "wait", "raw"} /\ w # "init"
    BY <2>2
  <2> QED
    BY <2>1, <2>4, <2>5, <2>6, StartOne DEF Keeps
<1>11. CASE LuaLoadAsm
  <2>1. PICK f \in Prgs : Lua(Cmd("CpuMemWr", Num(f[1], f[2]), SubSeq(f, 3, Len(f)), 0))
    BY <1>11 DEF LuaLoadAsm
  <2>2. f \in Seq(Octet) /\ Len(f) \in 2 .. WORD
    BY InputAssumption
  <2>3. Num(f[1], f[2]) \in Word
    <3>1. f[1] \in Octet /\ f[2] \in Octet
      BY <2>2
    <3> QED
      BY <3>1, NumIs
  <2>4. SubSeq(f, 3, Len(f)) \in Seq(Octet) /\ Len(SubSeq(f, 3, Len(f))) \in Word
    <3>1. PICK n : n = Len(f)
      OBVIOUS
    <3>2. n \in Int /\ 2 <= n /\ n <= 65536
      <4>1. n \in 1 .. WORD /\ 2 <= n
        BY <2>2, <3>1, WordInt
      <4> QED
        BY <4>1, UpToWord, SMT
    <3>3. SubSeq(f, 3, n) \in Seq(Octet) /\ Len(SubSeq(f, 3, n)) = n - 2
      BY <2>2, <3>1, <3>2, SMT
    <3>4. n - 2 \in Word
      BY <3>2, WordIs, SMT
    <3> QED
      BY <3>1, <3>3, <3>4
  <2>5. IsCommand(Cmd("CpuMemWr", Num(f[1], f[2]), SubSeq(f, 3, Len(f)), 0))
    BY <2>3, <2>4, Texts3, Commanded
  <2> QED
    BY <2>1, <2>5, LuaKeeps
<1> QED
  BY <1>1, <1>2, <1>3, <1>4, <1>5, <1>6, <1>7, <1>8, <1>9, <1>10, <1>11 DEF LuaCall

(* The first echo, the raw dialog and the loader.                          *)
LEMMA InitKeeps ==
  ASSUME LinkTypes, JobOK, ~broken => LinkInv, SerialCommInit
  PROVE  Keeps
<1>1. PICK c : c = Cmd("Echo", 0, InitString, 0)
  OBVIOUS
<1>2. PICK w : w = "init"
  OBVIOUS
<1>3. PICK q : q = <<>>
  OBVIOUS
<1>4. app = "start" /\ app' = app /\ Start(<<c>>, w, q)
  BY <1>1, <1>2, <1>3 DEF SerialCommInit
<1>5. InitString \in Seq(Octet) /\ Len(InitString) = 4
  BY DEF InitString, Octet, BYTE
<1>6. IsCommand(c) /\ c.op = "Echo"
  <2>1. IsCommand(c)
    BY <1>1, <1>5, Texts3, Commanded
  <2> QED
    BY <1>1, <2>1 DEF Cmd
<1>7. held
  BY <1>4 DEF JobOK
<1>8. w \in {"init", "lua", "wait", "raw"} /\ w # "wait" /\ w = "init"
  BY <1>2
<1> QED
  BY <1>4, <1>6, <1>7, <1>8, StartOne DEF Keeps

LEMMA RawKeeps ==
  ASSUME LinkTypes, JobOK, ~broken => LinkInv, RawDbgDlgProc
  PROVE  Keeps
<1>1. PICK t \in Texts : /\ app = "raw" /\ CreateObjFromString(t) # NoCmd
                         /\ Calls(<<CreateObjFromString(t)>>, "raw", t)
  BY DEF RawDbgDlgProc
<1>2. PICK c : c = CreateObjFromString(t)
  OBVIOUS
<1>3. PICK w : w = "raw"
  OBVIOUS
<1>4. IsCommand(c)
  BY <1>1, <1>2, InputAssumption
<1>5. app' = app /\ Start(<<c>>, w, t) /\ (held \/ Head(<<c>>).op \in Breaks)
  BY <1>1, <1>2, <1>3 DEF Calls, Breaks
<1>6. Head(<<c>>) = c
  OBVIOUS
<1>7. w \in {"init", "lua", "wait", "raw"} /\ w # "wait" /\ w # "init" /\ app # "start"
  BY <1>1, <1>3
<1> QED
  BY <1>4, <1>5, <1>6, <1>7, StartOne DEF Keeps

LEMMA LoadRomKeeps ==
  ASSUME LinkTypes, JobOK, ~broken => LinkInv, LoadRom
  PROVE  Keeps
<1>1. PICK f \in Roms : app = "main" /\ RomAccepted(f) /\ Calls(RomPackets(f), "rom", <<f>>)
  BY DEF LoadRom
<1>2. Start(RomPackets(f), "rom", <<f>>) /\ app' = app
  BY <1>1 DEF Calls
<1> QED
  BY <1>1, <1>2, StartRom DEF Keeps

(* The interface waits for a byte only with a packet not all taken.        *)
LEMMA Starves ==
  ASSUME LinkTypes, LinkInv, Waits, tx = <<>>, out = <<>>
  PROVE  sent = <<>> /\ cur = NoCmd
<1>1. rx = <<>>
  <2>1. SKEW \in Nat
    BY FifoAssumption, DebuggerAssumption
  <2>2. Len(tx) <= SKEW
    BY <2>1
  <2> QED
    BY <2>2, ArrivesEmpty DEF LinkTypes
<1>2. IsQueue(sent) /\ WireOf(sent) \in Seq(Octet) /\ Rest \in Seq(Octet)
  BY WireBytes, RestSeq DEF LinkInv, StreamOK
<1>3. Rest \o WireOf(sent) = <<>>
  <2>1. rx \o out = <<>>
    BY <1>1
  <2> QED
    BY <2>1 DEF LinkInv, StreamOK
<1>4. Rest = <<>> /\ WireOf(sent) = <<>>
  <2>1. Len(Rest) + Len(WireOf(sent)) = 0 /\ Len(Rest) \in Nat /\ Len(WireOf(sent)) \in Nat
    BY <1>2, <1>3
  <2>2. Len(Rest) = 0 /\ Len(WireOf(sent)) = 0
    BY <2>1
  <2> QED
    BY <1>2, <2>2, EmptySeq
<1>5. sent = <<>>
  BY <1>2, <1>4, WireBytes
<1>6. cur = NoCmd
  <2> SUFFICES ASSUME cur # NoCmd PROVE FALSE
    OBVIOUS
  <2>1. IsCommand(cur)
    BY DEF LinkInv, WorkOK
  <2>2. P(cur) \in Seq(Octet) /\ Len(P(cur)) >= 1 + Args(Op[cur.op]) /\ Args(Op[cur.op]) \in 0 .. 5
    BY <2>1, PacketShape
  <2>3. hci.st \in {"args", "echo", "write"}
    <3>1. FIFO # 0 /\ Len(tx) = 0
      BY FifoAssumption
    <3>2. hci.st \notin {"off", "decode"}
      BY DEF LinkInv, WorkOK
    <3> QED
      BY <3>1, <3>2 DEF Waits
  <2>4. Consumed \in Nat /\ Consumed < Len(P(cur))
    <3>1. CASE hci.st = "args"
      <4>1. hci.op = Op[cur.op]
        BY <3>1 DEF LinkInv, WorkOK
      <4>2. hci.args \in Seq(Octet) /\ Len(hci.args) < Args(hci.op)
        BY <3>1 DEF LinkTypes, HwTypes, IsHci
      <4>3. Consumed = 1 + Len(hci.args)
        BY <3>1 DEF Consumed
      <4>4. PICK k \in Nat, n \in Nat, a \in Nat : k = Len(hci.args) /\ n = Len(P(cur)) /\ a = Args(Op[cur.op])
        BY <2>2, <4>2
      <4>5. k < a /\ n >= 1 + a
        BY <2>2, <4>1, <4>2, <4>4
      <4>6. 1 + k \in Nat /\ 1 + k < n
        BY <4>5
      <4> QED
        BY <4>3, <4>4, <4>6
    <3>2. CASE hci.st = "echo"
      <4>1. cur.op = "Echo" /\ hci.n \in 1 .. Len(cur.data)
        BY <3>2 DEF LinkInv, WorkOK
      <4>2. Len(P(cur)) = 3 + Len(cur.data) /\ Len(cur.data) \in Nat
        BY <2>1, <4>1, EchoShape, CommandParts
      <4> QED
        BY <3>2, <4>1, <4>2 DEF Consumed
    <3>3. CASE hci.st = "write"
      <4>1. cur.op \in {"CpuMemWr", "PpuMemWr"} /\ hci.n \in 1 .. Len(cur.data)
        BY <3>3 DEF LinkInv, WorkOK
      <4>2. Len(P(cur)) = 5 + Len(cur.data) /\ Len(cur.data) \in Nat
        BY <2>1, <4>1, MemWrShape, CommandParts
      <4> QED
        BY <3>3, <4>1, <4>2 DEF Consumed
    <3> QED
      BY <2>3, <3>1, <3>2, <3>3
  <2>5. Rest = SubSeq(P(cur), Consumed + 1, Len(P(cur)))
    BY DEF Rest, RestOf
  <2>6. Rest # <<>>
    BY <2>2, <2>4, <2>5, RestStep
  <2> QED
    BY <1>4, <2>6
<1> QED
  BY <1>5, <1>6

(* An answer is taken when it is complete.                                 *)
LEMMA AllBack ==
  ASSUME LinkTypes, LinkInv, job.wait \in Nat \ {0},
         Len(back) >= job.wait \/ Quiet
  PROVE  sent = <<>> /\ cur = NoCmd /\ tx = <<>> /\ Len(back) = job.wait
<1>1. PICK w \in Nat : w = job.wait /\ w > 0
  OBVIOUS
<1>2. back \in Seq(Octet) /\ tx \in Seq(Octet) /\ Len(back) \in Nat /\ Len(tx) \in Nat
  BY DEF LinkTypes, HwTypes
<1>3. /\ sent # <<>> => back = <<>>
      /\ sent = <<>> /\ cur # NoCmd => Expect(cur) = w /\ back \o tx = SubSeq(Answer(cur, nes), 1, Produced)
      /\ sent = <<>> /\ cur = NoCmd => Len(back \o tx) = w
  BY <1>1 DEF LinkInv, AnswerOK
<1>4. CASE Quiet
  <2>1. sent = <<>> /\ cur = NoCmd /\ tx = <<>>
    BY <1>4, Starves DEF Quiet
  <2>2. back \o tx = back
    BY <1>2, <2>1
  <2> QED
    BY <1>1, <1>3, <2>1, <2>2
<1>5. CASE Len(back) >= job.wait
  <2>1. Len(back) >= w
    BY <1>1, <1>5
  <2>2. sent = <<>>
    <3>1. back # <<>>
      BY <1>1, <1>2, <2>1
    <3> QED
      BY <1>3, <3>1
  <2>3. Len(back \o tx) = Len(back) + Len(tx)
    BY <1>2
  <2>4. cur = NoCmd
    <3> SUFFICES ASSUME cur # NoCmd PROVE FALSE
      OBVIOUS
    <3>1. IsCommand(cur) /\ nes.halted /\ IsMachine(nes)
      BY DEF LinkInv, WorkOK, LinkTypes, HwTypes
    <3>2. Answer(cur, nes) \in Seq(Octet) /\ Len(Answer(cur, nes)) = w
      BY <1>3, <2>2, <3>1, AnswerIs
    <3>3. Produced \in Nat /\ Produced < w
      BY <1>1, <1>3, <2>2, ProducedIs
    <3>4. Len(back \o tx) = Produced
      <4>1. PICK k \in Nat : k = Produced /\ k < w
        BY <3>3
      <4>2. PICK a \in Seq(Octet) : a = Answer(cur, nes) /\ Len(a) = w
        BY <3>2
      <4>3. Len(SubSeq(a, 1, k)) = k
        BY <4>1, <4>2
      <4> QED
        BY <1>3, <2>2, <4>1, <4>2, <4>3
    <3> QED
      BY <1>2, <2>1, <2>3, <3>3, <3>4
  <2>5. Len(back) + Len(tx) = w
    BY <1>3, <2>2, <2>3, <2>4
  <2>6. Len(back) = w /\ Len(tx) = 0
    BY <1>2, <2>1, <2>5
  <2>7. tx = <<>>
    BY <1>2, <2>6, EmptySeq
  <2> QED
    BY <1>1, <2>2, <2>4, <2>6, <2>7
<1> QED
  BY <1>4, <1>5

(* The first n of n bytes, and what is left of them.                       *)
LEMMA TakeAll ==
  ASSUME NEW s \in Seq(Octet)
  PROVE  SubSeq(s, 1, Len(s)) = s /\ SubSeq(s, Len(s) + 1, Len(s)) = <<>>
BY SubSeqFull, RestEnd

LEMMA Receiving ==
  ASSUME LinkTypes, JobOK, ReceiveData
  PROVE  /\ job.wait \in Nat \ {0} /\ (Len(back) >= job.wait \/ Quiet)
         /\ rx' = rx /\ tx' = tx /\ hci' = hci /\ nes' = nes /\ out' = out
         /\ sent' = sent /\ cur' = cur /\ broken' = broken /\ held' = held /\ app' = app
         /\ job'.cmds = job.cmds /\ job'.wait = 0 /\ job'.then = job.then /\ job'.of = job.of
         /\ job' = [cmds |-> job'.cmds, wait |-> job'.wait, then |-> job'.then, of |-> job'.of]
         /\ back' \in Seq(Octet)
         /\ Len(back) = job.wait => buf' = back /\ back' = <<>>
<1>1. job.wait \in Word /\ job.wait > 0
  BY DEF JobOK, ReceiveData
<1>2. job.wait \in Nat \ {0}
  BY <1>1, WordIs, SMT
<1>3. /\ rx' = rx /\ tx' = tx /\ hci' = hci /\ nes' = nes /\ out' = out
      /\ sent' = sent /\ cur' = cur /\ broken' = broken /\ held' = held /\ app' = app
      /\ job' = [job EXCEPT !.wait = 0]
  BY DEF ReceiveData, hciVars
<1>4. /\ job'.cmds = job.cmds /\ job'.wait = 0 /\ job'.then = job.then /\ job'.of = job.of
      /\ job' = [cmds |-> job'.cmds, wait |-> job'.wait, then |-> job'.then, of |-> job'.of]
  BY <1>3 DEF JobOK
<1>5. PICK w \in Nat : w = job.wait /\ w > 0
  BY <1>2
<1>6. back \in Seq(Octet) /\ Len(back) \in Nat
  BY DEF LinkTypes
<1>7. \/ Len(back) >= w /\ buf' = SubSeq(back, 1, w) /\ back' = SubSeq(back, w + 1, Len(back))
      \/ Quiet /\ Len(back) < w /\ back' = <<>>
  BY <1>5 DEF ReceiveData
<1>8. back' \in Seq(Octet)
  <2>1. CASE Len(back) >= w /\ back' = SubSeq(back, w + 1, Len(back))
    BY <1>5, <1>6, <2>1
  <2>2. CASE back' = <<>>
    BY <2>2, Texts3
  <2> QED
    BY <1>7, <2>1, <2>2
<1>9. Len(back) = w => buf' = back /\ back' = <<>>
  <2> SUFFICES ASSUME Len(back) = w PROVE buf' = back /\ back' = <<>>
    OBVIOUS
  <2>1. ~(Len(back) < w)
    BY <1>6
  <2>2. buf' = SubSeq(back, 1, Len(back)) /\ back' = SubSeq(back, Len(back) + 1, Len(back))
    BY <1>7, <2>1
  <2> QED
    BY <1>6, <2>2, TakeAll
<1>10. Len(back) >= w \/ Quiet
  BY <1>7
<1> QED
  BY <1>2, <1>3, <1>4, <1>5, <1>8, <1>9, <1>10

LEMMA ReceiveKeeps ==
  ASSUME LinkTypes, JobOK, ~broken => LinkInv, ReceiveData
  PROVE  Keeps
<1>1. /\ job.wait \in Nat \ {0} /\ (Len(back) >= job.wait \/ Quiet)
      /\ rx' = rx /\ tx' = tx /\ hci' = hci /\ nes' = nes /\ out' = out
      /\ sent' = sent /\ cur' = cur /\ broken' = broken /\ held' = held /\ app' = app
      /\ job'.cmds = job.cmds /\ job'.wait = 0 /\ job'.then = job.then /\ job'.of = job.of
      /\ job' = [cmds |-> job'.cmds, wait |-> job'.wait, then |-> job'.then, of |-> job'.of]
      /\ back' \in Seq(Octet)
      /\ Len(back) = job.wait => buf' = back /\ back' = <<>>
  BY Receiving
<1>2. LinkTypes'
  <2>1. HwTypes'
    BY <1>1 DEF LinkTypes, HwTypes
  <2> QED
    BY <1>1, <2>1 DEF LinkTypes
<1>3. JobOK'
  <2>1. job'.wait \in Word
    BY <1>1, Zeros
  <2>2. Issued' = Issued
    BY <1>1 DEF Issued
  <2>3. NoJob.wait = 0
    BY DEF NoJob
  <2>4. job'.then # "none"
    BY <1>1, <2>3 DEF JobOK
  <2>5. job'.then # "rom" => job'.cmds = <<>>
    BY <1>1 DEF JobOK
  <2> QED
    BY <1>1, <2>1, <2>2, <2>4, <2>5 DEF JobOK
<1>4. ASSUME ~broken' PROVE LinkInv'
  <2>1. LinkInv
    BY <1>1, <1>4
  <2>2. sent = <<>> /\ cur = NoCmd /\ tx = <<>> /\ Len(back) = job.wait
    BY <1>1, <2>1, AllBack
  <2>3. WorkOK' /\ Rest' = Rest /\ Produced' = Produced /\ Held' = Held
    BY <1>1, <2>1, StreamWorkSame
  <2>4. StreamOK'
    BY <1>1, <2>1, <2>3 DEF LinkInv, StreamOK
  <2>5. buf' = back /\ back' = <<>>
    BY <1>1, <2>2
  <2>6. AnswerOK'
    <3>1. \A i \in 1 .. Len(sent') : FALSE
      BY <1>1, <2>2
    <3> QED
      BY <1>1, <2>2, <2>5, <3>1 DEF AnswerOK
  <2>7. HaltOK'
    <3>1. Settled' = Settled
      BY <1>1 DEF Settled
    <3>2. held' => Settled'
      BY <1>1, <2>1, <3>1 DEF LinkInv, HaltOK
    <3>3. ASSUME job'.then = "wait", job'.cmds = <<>>
          PROVE  Len(buf') = 1 /\ (buf'[1] # 0 => nes'.halted)
      <4>1. job.wait = 1 /\ ((back \o tx)[1] # 0 => nes.halted)
        BY <1>1, <2>1, <2>2, <3>3 DEF LinkInv, HaltOK
      <4>2. back \o tx = back
        BY <2>2 DEF LinkTypes
      <4> QED
        BY <1>1, <2>2, <2>5, <4>1, <4>2
    <3>4. sent' = <<>> /\ Len(sent') # 2
      BY <1>1, <2>2
    <3> QED
      BY <1>1, <2>2, <3>2, <3>3, <3>4 DEF HaltOK
  <2>8. RomOK'
    <3>1. Executed' = Executed
      BY <1>1 DEF Executed, Issued
    <3> QED
      BY <1>1, <2>1, <2>3, <3>1 DEF LinkInv, RomOK
  <2> QED
    BY <2>3, <2>4, <2>6, <2>7, <2>8 DEF LinkInv
<1> QED
  BY <1>2, <1>3, <1>4 DEF Keeps

(* The line and the machine.                                               *)
LEMMA ArriveBroken ==
  ASSUME LinkTypes, Arrive
  PROVE  LinkTypes'
<1>1. /\ out # <<>> /\ out' = Tail(out) /\ tx' = tx /\ hci' = hci /\ nes' = nes /\ back' = back
      /\ Waits /\ Len(tx) <= SKEW
      /\ \/ /\ rx' = Push(rx, Head(out)) /\ UNCHANGED <<sent, cur, broken>>
         \/ /\ rx' \in {rx} \cup {Push(rx, b) : b \in Noise \ {Head(out)}}
            /\ broken' = TRUE /\ sent' = <<>> /\ cur' = NoCmd
  BY DEF Arrive, hostVars
<1>2. HwTypes /\ out \in Seq(Octet)
  BY DEF LinkTypes
<1>3. rx = <<>>
  BY <1>1, <1>2, ArrivesEmpty
<1>4. Head(out) \in Octet /\ Tail(out) \in Seq(Octet)
  BY <1>1, <1>2
<1>5. \A b \in Octet : Push(rx, b) \in Seq(Octet) /\ Len(Push(rx, b)) <= 1
  <2> SUFFICES ASSUME NEW b \in Octet PROVE Push(<<>>, b) \in Seq(Octet) /\ Len(Push(<<>>, b)) <= 1
    BY <1>3
  <2>1. <<b>> \in Seq(Octet) /\ Len(<<b>>) <= 1
    OBVIOUS
  <2> QED
    BY <2>1, PushFirst
<1>6. rx' \in Seq(Octet) /\ Len(rx') <= 1
  <2>1. Noise \subseteq Octet
    BY DebuggerAssumption
  <2>2. rx \in Seq(Octet) /\ Len(rx) <= 1
    BY <1>2 DEF HwTypes
  <2> QED
    BY <1>1, <1>4, <1>5, <2>1, <2>2
<1>7. HwTypes'
  BY <1>1, <1>2, <1>6 DEF HwTypes
<1>8. back' \in Seq(Octet) /\ broken' \in BOOLEAN /\ (broken' => sent' = <<>> /\ cur' = NoCmd)
  <2>1. back \in Seq(Octet) /\ broken \in BOOLEAN /\ (broken => sent = <<>> /\ cur = NoCmd)
    BY DEF LinkTypes
  <2>2. CASE UNCHANGED <<sent, cur, broken>>
    <3>1. sent' = sent /\ cur' = cur /\ broken' = broken /\ back' = back
      BY <1>1, <2>2
    <3> QED
      BY <2>1, <3>1
  <2>3. CASE broken' = TRUE /\ sent' = <<>> /\ cur' = NoCmd
    <3>1. back' = back
      BY <1>1
    <3> QED
      BY <2>1, <2>3, <3>1
  <2> QED
    BY <1>1, <2>2, <2>3
<1> QED
  BY <1>1, <1>4, <1>7, <1>8 DEF LinkTypes

LEMMA HciBroken ==
  ASSUME LinkTypes, broken, HciAction
  PROVE  LinkTypes'
<1>1. HwTypes'
  BY HciTypes DEF LinkTypes, HciAction
<1> QED
  BY <1>1 DEF LinkTypes, HciAction

LEMMA ProcessorBroken ==
  ASSUME LinkTypes, Runs \/ Halts
  PROVE  LinkTypes'
<1>1. HwTypes'
  BY CpuTypes, BrkTypes DEF LinkTypes, Runs, Halts
<1> QED
  BY <1>1 DEF LinkTypes, Runs, Halts

LEMMA HardwareKeeps ==
  ASSUME LinkTypes, JobOK, ~broken => LinkInv, Link \/ Runs \/ Halts
  PROVE  Keeps
<1>1. job' = job /\ held' = held /\ app' = app
  BY DEF Link, HciAction, Arrive, Leave, Runs, Halts, hostVars
<1>2. JobOK'
  BY <1>1, JobSame
<1>3. CASE HciAction
  <2>1. broken' = broken
    BY <1>3 DEF HciAction
  <2>2. CASE broken
    BY <1>2, <1>3, <2>1, <2>2, HciBroken DEF Keeps
  <2>3. CASE ~broken
    BY <1>2, <1>3, <2>3, InterfaceKeeps DEF Keeps
  <2> QED
    BY <2>2, <2>3
<1>4. CASE Arrive
  <2>1. LinkTypes'
    BY <1>4, ArriveBroken
  <2>2. ~broken' => ~broken
    BY <1>4 DEF Arrive
  <2>3. ~broken' => LinkInv'
    BY <1>4, <2>2, ArriveKeeps
  <2> QED
    BY <1>2, <2>1, <2>3 DEF Keeps
<1>5. CASE Leave
  <2>1. LinkTypes'
    BY <1>5, LeaveTypes
  <2>2. ~broken' => ~broken
    BY <1>5 DEF Leave
  <2>3. ~broken' => LinkInv'
    BY <1>5, <2>2, LeaveKeeps
  <2> QED
    BY <1>2, <2>1, <2>3 DEF Keeps
<1>6. CASE Runs \/ Halts
  <2>1. LinkTypes'
    BY <1>6, ProcessorBroken
  <2>2. ~broken' => ~broken
    BY <1>6 DEF Runs, Halts
  <2>3. ~broken' => LinkInv'
    BY <1>6, <2>2, ProcessorKeeps
  <2> QED
    BY <1>2, <2>1, <2>3 DEF Keeps
<1> QED
  BY <1>3, <1>4, <1>5, <1>6 DEF Link

LEMMA SendingKeeps ==
  ASSUME LinkTypes, JobOK, ~broken => LinkInv, SendData
  PROVE  Keeps
<1>1. broken' = broken
  BY DEF SendData
<1> QED
  BY <1>1, SendTypes, SendJob, SendKeeps DEF Keeps

LEMMA LinkStep ==
  ASSUME LinkTypes, JobOK, ~broken => LinkInv, DbgNext
  PROVE  Keeps
<1>1. CASE User
  BY <1>1, InitKeeps, DialogsKeep, LoadRomKeeps, RawKeeps, LuaCallKeeps DEF User
<1>2. CASE Handler
  BY <1>2, SendingKeeps, ReceiveKeeps, EndsKeep, PollAgainKeeps, PollEndsKeeps DEF Handler
<1>3. CASE Link \/ Runs \/ Halts
  BY <1>3, HardwareKeeps
<1> QED
  BY <1>1, <1>2, <1>3 DEF DbgNext

(* The counters of the test dialog.                                        *)
LEMMA ScriptsNat == SCRIPTS \in Nat
BY DebuggerAssumption

LEMMA TallyStill ==
  ASSUME TallyOK, tally' = tally, app' = app \/ app' \in {"main", "gone"}
  PROVE  TallyOK'
BY DEF TallyOK

(* The actions that leave the counters alone.                              *)
LEMMA TallyUntouched ==
  ASSUME DbgNext,
         ~(WndProc \/ LaunchRawDbgDlg \/ TestScriptDlgProc \/ ScriptEnds)
  PROVE  tally' = tally /\ (app' = app \/ app' \in {"main", "gone"})
<1>1. CASE User
  <2>1. SerialCommInit \/ LoadRom \/ RawDbgDlgProc \/ RawClear \/ LuaCall
    BY <1>1 DEF User
  <2>2. CASE SerialCommInit
    BY <2>2 DEF SerialCommInit
  <2>3. CASE LoadRom
    BY <2>3 DEF LoadRom, Calls
  <2>4. CASE RawDbgDlgProc
    BY <2>4 DEF RawDbgDlgProc, Calls
  <2>5. CASE RawClear
    BY <2>5 DEF RawClear
  <2>6. CASE LuaCall
    <3>1. (\E c : Lua(c)) \/ LuaWaitForHlt
      BY <2>6 DEF LuaCall, LuaEcho, LuaCpuMemRd, LuaCpuMemWr, LuaDbgHlt, LuaDbgRun,
           LuaCpuRegRd, LuaCpuRegWr, LuaLoadAsm, LuaPpuMemRd, LuaPpuMemWr
    <3> QED
      BY <3>1 DEF Lua, LuaWaitForHlt, Calls
  <2> QED
    BY <2>1, <2>2, <2>3, <2>4, <2>5, <2>6
<1>2. CASE Handler
  BY <1>2 DEF Handler, SendData, ReceiveData, WinMain, PollAgain, PollEnds, Returns, RawShows
<1>3. CASE Link \/ Runs \/ Halts
  BY <1>3 DEF Link, HciAction, Arrive, Leave, Runs, Halts, hostVars
<1> QED
  BY <1>1, <1>2, <1>3 DEF DbgNext

(* A dialog opens with empty counters.                                     *)
LEMMA Opens ==
  ASSUME WndProc \/ LaunchRawDbgDlg \/ Goes("main", "test") \/ Goes("test", "main")
  PROVE  /\ tally' = [NoTally EXCEPT !.top = tally.top]
         /\ app' \in {"gone", "raw", "main", "test"}
BY DEF WndProc, LaunchRawDbgDlg, Goes

Counted(t, o, x, r) ==
  TestScriptDlgSetProgress(TestScriptDlgSetResults([t EXCEPT !.top = x, !.really = Append(@, o)], r),
                           t.done + 1, t.cnt)

LEMMA OneCounted ==
  ASSUME NEW t, t = [done |-> t.done, cnt |-> t.cnt, pass |-> t.pass, fail |-> t.fail,
                     error |-> t.error, top |-> t.top, really |-> t.really],
         NEW o, NEW r, NEW x,
         NEW u, u = Counted(t, o, x, r)
  PROVE  /\ u = [done |-> u.done, cnt |-> u.cnt, pass |-> u.pass, fail |-> u.fail,
                 error |-> u.error, top |-> u.top, really |-> u.really]
         /\ u.done = t.done + 1 /\ u.cnt = t.cnt /\ u.really = Append(t.really, o)
         /\ u.pass = IF r = 0 THEN t.pass + 1 ELSE t.pass
         /\ u.fail = IF r = 1 THEN t.fail + 1 ELSE t.fail
         /\ u.error = IF r = 2 THEN t.error + 1 ELSE t.error
BY DEF Counted, TestScriptDlgSetProgress, TestScriptDlgSetResults

LEMMA ScriptCounted ==
  ASSUME TallyOK, ScriptEnds
  PROVE  /\ tally.done < tally.cnt
         /\ tally' = [done |-> tally'.done, cnt |-> tally'.cnt, pass |-> tally'.pass,
                      fail |-> tally'.fail, error |-> tally'.error, top |-> tally'.top,
                      really |-> tally'.really]
         /\ tally'.done = tally.done + 1 /\ tally'.cnt = tally.cnt
         /\ app' = IF tally'.done = tally.cnt THEN "test" ELSE "script"
         /\ \E o \in Outcomes : \E r :
              /\ r = ExecuteScript(o, tally.top) /\ tally'.really = Append(tally.really, o)
              /\ tally'.pass = IF r = 0 THEN tally.pass + 1 ELSE tally.pass
              /\ tally'.fail = IF r = 1 THEN tally.fail + 1 ELSE tally.fail
              /\ tally'.error = IF r = 2 THEN tally.error + 1 ELSE tally.error
<1>1. PICK o \in Outcomes : tally' =
         LET r == ExecuteScript(o, tally.top)
             t == [tally EXCEPT !.top = IF o = "lua" THEN 0 ELSE r, !.really = Append(@, o)]
         IN TestScriptDlgSetProgress(TestScriptDlgSetResults(t, r), tally.done + 1, tally.cnt)
  BY Zenon DEF ScriptEnds
<1>2. PICK r : r = ExecuteScript(o, tally.top)
  OBVIOUS
<1>3. PICK x : x = IF o = "lua" THEN 0 ELSE r
  OBVIOUS
<1>4. PICK u : u = tally'
  OBVIOUS
<1>5. u = Counted(tally, o, x, r)
  BY <1>1, <1>2, <1>3, <1>4 DEF Counted
<1>6. tally = [done |-> tally.done, cnt |-> tally.cnt, pass |-> tally.pass, fail |-> tally.fail,
               error |-> tally.error, top |-> tally.top, really |-> tally.really]
  BY DEF TallyOK
<1>7. /\ u = [done |-> u.done, cnt |-> u.cnt, pass |-> u.pass, fail |-> u.fail,
              error |-> u.error, top |-> u.top, really |-> u.really]
      /\ u.done = tally.done + 1 /\ u.cnt = tally.cnt /\ u.really = Append(tally.really, o)
      /\ u.pass = IF r = 0 THEN tally.pass + 1 ELSE tally.pass
      /\ u.fail = IF r = 1 THEN tally.fail + 1 ELSE tally.fail
      /\ u.error = IF r = 2 THEN tally.error + 1 ELSE tally.error
  BY <1>5, <1>6, OneCounted
<1>8. tally.done < tally.cnt /\ app' = IF tally'.done = tally.cnt THEN "test" ELSE "script"
  BY DEF ScriptEnds
<1> QED
  BY <1>2, <1>4, <1>7, <1>8

LEMMA TallyStep ==
  ASSUME TallyOK, DbgNext
  PROVE  TallyOK'
<1>1. CASE ~(WndProc \/ LaunchRawDbgDlg \/ TestScriptDlgProc \/ ScriptEnds)
  BY <1>1, TallyUntouched, TallyStill
<1>2. CASE WndProc \/ LaunchRawDbgDlg \/ Goes("main", "test") \/ Goes("test", "main")
  BY <1>2, Opens, ScriptsNat DEF TallyOK, NoTally
<1>3. CASE TestScriptDlgRun
  <2>1. PICK n \in 1 .. SCRIPTS :
          tally' = TestScriptDlgSetProgress([NoTally EXCEPT !.top = tally.top], 0, n)
    BY <1>3 DEF TestScriptDlgRun
  <2>2. app' = "script"
    BY <1>3 DEF TestScriptDlgRun
  <2>3. n \in 0 .. SCRIPTS /\ 0 \in 0 .. n
    BY ScriptsNat
  <2>4. PICK x : x = tally.top
    OBVIOUS
  <2>5. tally' = [done |-> 0, cnt |-> n, pass |-> 0, fail |-> 0, error |-> 0, top |-> x, really |-> <<>>]
    BY <2>1, <2>4 DEF NoTally, TestScriptDlgSetProgress
  <2> QED
    BY <2>2, <2>3, <2>5 DEF TallyOK
<1>4. CASE ScriptEnds
  <2>1. PICK d, n : d = tally.done /\ n = tally.cnt /\ n \in 0 .. SCRIPTS /\ d \in 0 .. n /\ d < n
    BY <1>4, ScriptCounted DEF TallyOK
  <2>2. d + 1 \in 0 .. n
    BY <2>1, ScriptsNat
  <2>3. {tally'.pass, tally'.fail, tally'.error} \subseteq Nat
    <3>1. tally.pass \in Nat /\ tally.fail \in Nat /\ tally.error \in Nat
      BY DEF TallyOK
    <3> QED
      BY <1>4, <3>1, ScriptCounted
  <2>4. /\ tally' = [done |-> tally'.done, cnt |-> tally'.cnt, pass |-> tally'.pass,
                      fail |-> tally'.fail, error |-> tally'.error, top |-> tally'.top,
                      really |-> tally'.really]
        /\ tally'.done = d + 1 /\ tally'.cnt = n
        /\ app' = IF tally'.done = n THEN "test" ELSE "script"
    BY <1>4, <2>1, ScriptCounted
  <2> QED
    BY <2>1, <2>2, <2>3, <2>4 DEF TallyOK
<1> QED
  BY <1>1, <1>2, <1>3, <1>4 DEF TestScriptDlgProc

LEMMA InitKept == DbgInit => DbgInv
<1> SUFFICES ASSUME DbgInit PROVE DbgInv
  OBVIOUS
<1>1. /\ rx = <<>> /\ tx = <<>> /\ nes = Reset
      /\ hci = [st |-> "decode", op |-> 0, args |-> <<>>, n |-> 0, addr |-> 0, err |-> FALSE]
      /\ app = "start" /\ job = NoJob /\ tally = NoTally /\ out = <<>> /\ back = <<>>
      /\ held = TRUE /\ sent = <<>> /\ cur = NoCmd /\ broken = FALSE
  BY DEF DbgInit, HciInit
<1>2. HwTypes
  <2>1. IsHci(hci)
    BY <1>1, Zeros DEF IsHci
  <2>2. rx \in Seq(Octet) /\ Len(rx) <= 1 /\ tx \in Seq(Octet) /\ Len(tx) <= FIFO
    <3>1. 0 <= FIFO
      BY FifoAssumption
    <3> QED
      BY <1>1, <3>1, Texts3
  <2> QED
    BY <1>1, <2>1, <2>2, ResetIs DEF HwTypes
<1>3. LinkTypes
  BY <1>1, <1>2, Texts3, Zenon DEF LinkTypes
<1>4. JobOK
  <2>1. job.wait \in Word
    BY <1>1, Zeros DEF NoJob
  <2> QED
    BY <1>1, <2>1 DEF JobOK, NoJob
<1>5. TallyOK
  BY <1>1, ScriptsNat DEF TallyOK, NoTally
<1>6. StreamOK
  <2>1. Rest = <<>>
    BY <1>1, IdleRest
  <2> QED
    BY <1>1, <2>1 DEF StreamOK, IsQueue, WireOf
<1>7. WorkOK
  BY <1>1 DEF WorkOK
<1>8. AnswerOK
  <2>1. job.wait = 0
    BY <1>1 DEF NoJob
  <2> QED
    BY <1>1, <2>1 DEF AnswerOK
<1>9. HaltOK
  <2>1. job.then = "none"
    BY <1>1 DEF NoJob
  <2> QED
    BY <1>1, <2>1, ResetIs DEF HaltOK, Settled
<1>10. RomOK
  <2>1. job.then = "none"
    BY <1>1 DEF NoJob
  <2> QED
    BY <2>1 DEF RomOK
<1> QED
  BY <1>3, <1>4, <1>5, <1>6, <1>7, <1>8, <1>9, <1>10 DEF DbgInv, LinkInv

LEMMA StepKept == DbgInv /\ [DbgNext]_dbgVars => DbgInv'
<1> SUFFICES ASSUME DbgInv, [DbgNext]_dbgVars PROVE DbgInv'
  OBVIOUS
<1>1. LinkTypes /\ JobOK /\ TallyOK /\ (~broken => LinkInv)
  BY DEF DbgInv
<1>2. CASE DbgNext
  BY <1>1, <1>2, LinkStep, TallyStep DEF Keeps, DbgInv
<1>3. CASE UNCHANGED dbgVars
  <2>1. /\ UNCHANGED <<hciVars, job, out, back, held, sent, cur, broken>> /\ buf' = buf
        /\ app' = app /\ tally' = tally
    BY <1>3 DEF dbgVars, hostVars
  <2>2. Keeps
    BY <1>1, <2>1, RestingKeeps
  <2>3. TallyOK'
    BY <1>1, <2>1, TallyStill
  <2> QED
    BY <2>2, <2>3 DEF Keeps, DbgInv
<1> QED
  BY <1>2, <1>3

(* What is on the line, what the interface has done and what it has        *)
(* answered agree with the packets sent.                                   *)
THEOREM LinkInvariant == DbgSpec => []DbgInv
<1>1. DbgInit => DbgInv
  BY InitKept
<1>2. DbgInv /\ [DbgNext]_dbgVars => DbgInv'
  BY StepKept
<1> QED
  BY <1>1, <1>2, PTL DEF DbgSpec

(* What the PC knows about the processor is true, and the interface takes  *)
(* commands exactly while it is halted.                                    *)
LEMMA HaltFollows == DbgInv => HaltIsKnown
<1> SUFFICES ASSUME DbgInv PROVE HaltIsKnown
  OBVIOUS
<1>1. LinkTypes /\ JobOK /\ TallyOK /\ (~broken => LinkInv)
  BY DEF DbgInv
<1>2. /\ app \in {"start", "main", "raw", "test", "script", "gone"}
      /\ tally.done \in 0 .. tally.cnt /\ tally.cnt \in 0 .. SCRIPTS
  BY <1>1 DEF TallyOK
<1>3. /\ Len(rx) <= 1 /\ Len(tx) <= FIFO
      /\ hci.st \in {"off", "decode", "args", "echo", "read", "write", "err", "ppu"}
      /\ nes.halted \in BOOLEAN /\ (nes.halted <=> hci.st # "off") /\ broken \in BOOLEAN
  BY <1>1 DEF LinkTypes, HwTypes, IsHci, IsMachine
<1>4. nes.halted = (hci.st # "off")
  BY <1>3
<1>5. job.wait \in Word /\ held \in BOOLEAN
  BY <1>1 DEF JobOK
<1>6. DbgTypeOK
  BY <1>2, <1>3, <1>4, <1>5 DEF DbgTypeOK, Word
<1>7. HeldIsHalted
  BY <1>1 DEF HeldIsHalted, LinkInv, HaltOK, Settled
<1> QED
  BY <1>6, <1>7 DEF HaltIsKnown

(* When no query is on its way, the byte the program holds as its last     *)
(* answer is true of the processor: HaltIsKnown of Debugger.               *)
THEOREM HaltKnown == DbgSpec => []HaltIsKnown
BY LinkInvariant, HaltFollows, PTL

LEMMA TwoOf ==
  ASSUME NEW s \in Seq(Octet), NEW a \in Nat, a >= 1, a + 1 <= Len(s)
  PROVE  SubSeq(s, a, a + 1) = <<s[a], s[a + 1]>>
<1> DEFINE q == SubSeq(s, a, a + 1)
<1> DEFINE t == <<s[a], s[a + 1]>>
<1>1. s[a] \in Octet /\ s[a + 1] \in Octet
  BY ElementOfSeq
<1>2. \A i \in a .. a + 1 : s[i] \in Octet
  BY ElementOfSeq
<1>3. /\ q \in Seq(Octet) /\ Len(q) = IF a <= a + 1 THEN a + 1 - a + 1 ELSE 0
      /\ \A i \in 1 .. a + 1 - a + 1 : q[i] = s[a + i - 1]
  BY <1>2, SubSeqProperties
<1>4. Len(q) = 2 /\ q[1] = s[a] /\ q[2] = s[a + 1]
  <2>1. a + 1 - 1 = a /\ a + 2 - 1 = a + 1 /\ a + 1 - a + 1 = 2 /\ a <= a + 1
    OBVIOUS
  <2> QED
    BY <1>3, <2>1
<1>5. t \in Seq(Octet) /\ Len(t) = 2 /\ t[1] = s[a] /\ t[2] = s[a + 1]
  BY <1>1
<1>6. \A i \in 1 .. Len(q) : q[i] = t[i]
  <2>1. \A i \in 1 .. 2 : i = 1 \/ i = 2
    OBVIOUS
  <2> QED
    BY <1>4, <1>5, <2>1
<1> HIDE DEF q, t
<1>7. q = t
  BY <1>3, <1>4, <1>5, <1>6, SeqEqual
<1> QED
  BY <1>7 DEF q, t

(* A machine in which all packets before the last have taken effect holds  *)
(* the file.                                                               *)
LEMMA AllLoaded ==
  ASSUME NEW f \in Roms, RomAccepted(f), NEW m,
         Loaded(m, f, 5 + PrgBlocks(f) + ChrBlocks(f))
  PROVE  /\ \A i \in 0 .. Prg(f) - 1 : Read(m.mem, PrgBase + i) = f.body[i + 1]
         /\ \A i \in 0 .. Chr(f) - 1 : Read(m.vram, i) = f.body[Prg(f) + i + 1]
         /\ m.cfg = SubSeq(f.hdr, 5, 9) /\ ~m.ppu /\ m.halted
         /\ Prg(f) > 0 => <<m.regs[0], m.regs[1]>> = SubSeq(f.body, Prg(f) - 3, Prg(f) - 2)
<1>1. PICK p \in Nat, c \in Nat : p = PrgBlocks(f) /\ c = ChrBlocks(f)
  BY BankSizes
<1>2. PICK b \in Nat \ {0} : b = BLOCK
  BY BlockSize
<1>3. PICK k \in Nat, l \in Nat : k = Prg(f) /\ l = Chr(f) /\ b * p = k /\ b * c = l /\ (k = 0 \/ k >= 4)
  <2>1. Prg(f) \in Nat /\ Chr(f) \in Nat /\ (Prg(f) = 0 \/ Prg(f) >= 4)
    BY BankSizes
  <2>2. BLOCK * PrgBlocks(f) = Prg(f) /\ BLOCK * ChrBlocks(f) = Chr(f)
    BY BankSizes
  <2>3. b * p = Prg(f) /\ b * c = Chr(f)
    BY <1>1, <1>2, <2>2, Zenon
  <2> QED
    BY <2>1, <2>3
<1>4. PICK e \in Int : e = 5 + p + c
  BY <1>1
<1>5. Loaded(m, f, e)
  BY <1>1, <1>4
<1>6. /\ e >= 1 => m.halted
      /\ e >= 2 => ~m.ppu
      /\ e >= 3 => m.cfg = SubSeq(f.hdr, 5, 9)
      /\ Filled(m.mem, PrgBase, 0, k, f, e - 3)
      /\ Filled(m.vram, 0, k, l, f, e - 3 - p)
      /\ LoadedRegs(m, f, e)
  BY <1>1, <1>3, <1>5, LoadedHas
<1>7. e >= 1 /\ e >= 2 /\ e >= 3 /\ e - 3 \in Int /\ e - 3 - p \in Int /\ e - 3 > p /\ e - 3 - p > c
  BY <1>4
<1>8. ASSUME NEW i \in 0 .. k - 1 PROVE Read(m.mem, PrgBase + i) = f.body[i + 1]
  <2>1. i \in 0 .. b * p - 1
    BY <1>3
  <2>2. i \div b \in 0 .. p - 1
    BY <2>1, BlockOf
  <2>3. PICK q \in Int : q = i \div b /\ q < p
    BY <2>2
  <2>4. e - 3 > q
    BY <1>7, <2>3
  <2>5. Read(m.mem, PrgBase + i) = f.body[0 + i + 1]
    BY <1>2, <1>6, <2>3, <2>4, Zenon DEF Filled
  <2>6. 0 + i + 1 = i + 1
    OBVIOUS
  <2> QED
    BY <2>5, <2>6
<1>9. ASSUME NEW i \in 0 .. l - 1 PROVE Read(m.vram, i) = f.body[k + i + 1]
  <2>1. i \in 0 .. b * c - 1
    BY <1>3
  <2>2. i \div b \in 0 .. c - 1
    BY <2>1, BlockOf
  <2>3. PICK q \in Int : q = i \div b /\ q < c
    BY <2>2
  <2>4. e - 3 - p > q
    BY <1>7, <2>3
  <2>5. Read(m.vram, 0 + i) = f.body[k + i + 1]
    BY <1>2, <1>6, <2>3, <2>4, Zenon DEF Filled
  <2>6. 0 + i = i
    OBVIOUS
  <2> QED
    BY <2>5, <2>6
<1>10. ASSUME k > 0 PROVE <<m.regs[0], m.regs[1]>> = SubSeq(f.body, k - 3, k - 2)
  <2>1. k >= 4 /\ 16 + k - 4 \in Nat /\ 16 + k - 3 \in Nat
    BY <1>3, <1>10
  <2>2. e >= 4 + p + c /\ e >= 5 + p + c
    BY <1>4
  <2>3. m.regs[0] = FileData(f, 16 + k - 4) /\ m.regs[1] = FileData(f, 16 + k - 3)
    BY <1>1, <1>3, <1>6, <2>2 DEF LoadedRegs
  <2>4. 16 + k - 4 < 16 + Prg(f) + Chr(f) /\ 16 + k - 3 < 16 + Prg(f) + Chr(f)
        /\ 16 + k - 4 >= 16 /\ 16 + k - 3 >= 16
    BY <1>3, <2>1
  <2>5. FileData(f, 16 + k - 4) = f.body[16 + k - 4 - 15] /\ FileData(f, 16 + k - 3) = f.body[16 + k - 3 - 15]
    BY <2>1, <2>4, FileBytes
  <2>6. 16 + k - 4 - 15 = k - 3 /\ 16 + k - 3 - 15 = k - 2
    OBVIOUS
  <2>7. PICK s \in Seq(Octet) : s = f.body /\ Len(s) \in Nat /\ Len(s) >= k
    <3>1. f.body \in Seq(Octet) /\ Len(f.body) \in Nat /\ Len(f.body) >= Prg(f) + Chr(f)
      BY BankSizes
    <3>2. Len(f.body) >= k
      BY <1>3, <3>1
    <3> QED
      BY <3>1, <3>2
  <2>8. SubSeq(s, k - 3, k - 2) = <<s[k - 3], s[k - 2]>>
    <3>1. PICK a \in Nat : a = k - 3 /\ a >= 1 /\ a + 1 = k - 2 /\ a + 1 <= Len(s)
      BY <2>1, <2>7
    <3>2. SubSeq(s, a, a + 1) = <<s[a], s[a + 1]>>
      BY <2>7, <3>1, TwoOf
    <3> QED
      BY <3>1, <3>2
  <2> QED
    BY <2>3, <2>5, <2>6, <2>7, <2>8
<1> QED
  BY <1>3, <1>6, <1>7, <1>8, <1>9, <1>10

(* When LoadRom is about to start the machine it holds the file.           *)
LEMMA LoadFollows == DbgInv => RomIsLoaded
<1> SUFFICES ASSUME DbgInv, job.then = "rom", job.cmds = <<>>, ~broken, cur = NoCmd,
                    sent = <<Simple("DbgRun")>>
             PROVE  LET f == job.of[1] IN
                    /\ \A i \in 0 .. Prg(f) - 1 : Read(nes.mem, PrgBase + i) = f.body[i + 1]
                    /\ \A i \in 0 .. Chr(f) - 1 : Read(nes.vram, i) = f.body[Prg(f) + i + 1]
                    /\ nes.cfg = SubSeq(f.hdr, 5, 9) /\ ~nes.ppu /\ nes.halted
                    /\ Prg(f) > 0 => <<nes.regs[0], nes.regs[1]>> = SubSeq(f.body, Prg(f) - 3, Prg(f) - 2)
  BY SMT DEF RomIsLoaded, PrgBase, Prg, Chr
<1>1. LinkInv /\ JobOK /\ LinkTypes
  BY DEF DbgInv
<1>2. PICK f : f = job.of[1] /\ f \in Roms /\ RomAccepted(f)
  BY <1>1, RomJob
<1>3. PICK p \in Nat, c \in Nat : p = PrgBlocks(f) /\ c = ChrBlocks(f)
  BY <1>2, BankSizes
<1>4. Len(RomPackets(f)) = 6 + p + c
  BY <1>2, <1>3, RomIs
<1>5. Executed = 5 + p + c
  <2>1. Issued = 6 + p + c
    BY <1>2, <1>3, <1>4 DEF Issued
  <2>2. Len(sent) = 1
    OBVIOUS
  <2> QED
    BY <1>3, <2>1, <2>2 DEF Executed
<1>6. Executed < Len(RomPackets(f))
  BY <1>3, <1>4, <1>5
<1>7. Held = nes
  BY EffectNone DEF Held
<1>8. Loaded(nes, f, 5 + p + c)
  BY <1>1, <1>2, <1>5, <1>6, <1>7 DEF LinkInv, RomOK
<1>9. /\ \A i \in 0 .. Prg(f) - 1 : Read(nes.mem, PrgBase + i) = f.body[i + 1]
      /\ \A i \in 0 .. Chr(f) - 1 : Read(nes.vram, i) = f.body[Prg(f) + i + 1]
      /\ nes.cfg = SubSeq(f.hdr, 5, 9) /\ ~nes.ppu /\ nes.halted
      /\ Prg(f) > 0 => <<nes.regs[0], nes.regs[1]>> = SubSeq(f.body, Prg(f) - 3, Prg(f) - 2)
  BY <1>2, <1>3, <1>8, AllLoaded
<1> QED
  BY <1>2, <1>9

(* A ROM started by LoadRom is in the machine, all of it and in its place: *)
(* RomIsLoaded of Debugger.                                                *)
THEOREM RomLoaded == DbgSpec => []RomIsLoaded
BY LinkInvariant, LoadFollows, PTL

(* Positions of a sequence that hold a member of a set.                    *)
Places(s, set) == {i \in DOMAIN s : s[i] \in set}

LEMMA PlacesFinite ==
  ASSUME NEW S, NEW s \in Seq(S), NEW set
  PROVE  IsFiniteSet(Places(s, set)) /\ Cardinality(Places(s, set)) \in Nat
<1>1. Len(s) \in Nat /\ DOMAIN s = 1 .. Len(s)
  OBVIOUS
<1>2. IsFiniteSet(1 .. Len(s))
  BY <1>1, FS_Interval
<1>3. Places(s, set) \subseteq 1 .. Len(s)
  BY <1>1 DEF Places
<1> QED
  BY <1>2, <1>3, FS_Subset, FS_CardinalityType

LEMMA PlacesAppend ==
  ASSUME NEW S, NEW s \in Seq(S), NEW o \in S, NEW set
  PROVE  Cardinality(Places(Append(s, o), set)) =
           IF o \in set THEN Cardinality(Places(s, set)) + 1 ELSE Cardinality(Places(s, set))
<1> DEFINE n == Len(s)
<1> DEFINE t == Append(s, o)
<1>1. n \in Nat /\ DOMAIN s = 1 .. n /\ DOMAIN t = 1 .. n + 1 /\ t[n + 1] = o
      /\ \A i \in 1 .. n : t[i] = s[i]
  OBVIOUS
<1> HIDE DEF n, t
<1>2. \A i : i \in 1 .. n + 1 <=> i \in 1 .. n \/ i = n + 1
  BY <1>1
<1>3. n + 1 \notin 1 .. n
  BY <1>1
<1>4. Places(t, set) = IF o \in set THEN Places(s, set) \cup {n + 1} ELSE Places(s, set)
  BY <1>1, <1>2, <1>3 DEF Places
<1>5. n + 1 \notin Places(s, set)
  BY <1>1, <1>3 DEF Places
<1>6. IsFiniteSet(Places(s, set))
  BY PlacesFinite
<1>7. Cardinality(Places(s, set) \cup {n + 1}) = Cardinality(Places(s, set)) + 1
  BY <1>5, <1>6, FS_AddElement
<1> QED
  BY <1>4, <1>7 DEF t

LEMMA PlacesNone ==
  ASSUME NEW set
  PROVE  Cardinality(Places(<<>>, set)) = 0
<1>1. Places(<<>>, set) = {}
  BY DEF Places
<1> QED
  BY <1>1, FS_EmptySet

(* The counters hold the numbers of the results.                           *)
TallyCounts ==
  /\ TallyOK /\ tally.really \in Seq(Outcomes)
  /\ tally.pass = Cardinality(Places(tally.really, {"pass"}))
  /\ tally.fail = Cardinality(Places(tally.really, {"fail"}))
  /\ tally.error = Cardinality(Places(tally.really, {"error", "lua", "mute"}))
  /\ tally.pass + tally.fail + tally.error = tally.done

LEMMA CountsStill ==
  ASSUME TallyCounts, TallyOK', tally' = tally
  PROVE  TallyCounts'
BY DEF TallyCounts

LEMMA CountsNone ==
  ASSUME TallyOK', tally'.pass = 0, tally'.fail = 0, tally'.error = 0, tally'.done = 0,
         tally'.really = <<>>
  PROVE  TallyCounts'
BY PlacesNone DEF TallyCounts

LEMMA CountsInit == DbgInit => TallyCounts
<1> SUFFICES ASSUME DbgInit PROVE TallyCounts
  OBVIOUS
<1>1. TallyOK
  BY InitKept DEF DbgInv
<1>2. /\ tally.pass = 0 /\ tally.fail = 0 /\ tally.error = 0 /\ tally.done = 0
      /\ tally.really = <<>>
  BY DEF DbgInit, NoTally
<1> QED
  BY <1>1, <1>2, PlacesNone DEF TallyCounts

(* A script that returns its result, or fails to load, is counted as such. *)
LEMMA ResultOf ==
  ASSUME NEW o, o \in {"pass", "fail", "error", "lua"}, NEW top
  PROVE  /\ ExecuteScript(o, top) = 0 <=> o \in {"pass"}
         /\ ExecuteScript(o, top) = 1 <=> o \in {"fail"}
         /\ ExecuteScript(o, top) = 2 <=> o \in {"error", "lua", "mute"}
BY DEF ExecuteScript, Code

LEMMA CountsStep ==
  ASSUME Outcomes \subseteq {"pass", "fail", "error", "lua"}, TallyCounts, DbgNext
  PROVE  TallyCounts'
<1>1. TallyOK /\ TallyOK'
  BY TallyStep DEF TallyCounts
<1>2. CASE ~(WndProc \/ LaunchRawDbgDlg \/ TestScriptDlgProc \/ ScriptEnds)
  BY <1>1, <1>2, TallyUntouched, CountsStill
<1>3. CASE WndProc \/ LaunchRawDbgDlg \/ Goes("main", "test") \/ Goes("test", "main")
  <2>1. tally' = [NoTally EXCEPT !.top = tally.top]
    BY <1>3, Opens
  <2>2. /\ tally'.pass = 0 /\ tally'.fail = 0 /\ tally'.error = 0 /\ tally'.done = 0
        /\ tally'.really = <<>>
    BY <2>1 DEF NoTally
  <2> QED
    BY <1>1, <2>2, CountsNone
<1>4. CASE TestScriptDlgRun
  <2>1. PICK n \in 1 .. SCRIPTS :
          tally' = TestScriptDlgSetProgress([NoTally EXCEPT !.top = tally.top], 0, n)
    BY <1>4 DEF TestScriptDlgRun
  <2>2. /\ tally'.pass = 0 /\ tally'.fail = 0 /\ tally'.error = 0 /\ tally'.done = 0
        /\ tally'.really = <<>>
    BY <2>1 DEF NoTally, TestScriptDlgSetProgress
  <2> QED
    BY <1>1, <2>2, CountsNone
<1>5. CASE ScriptEnds
  <2>1. PICK o, r :
          /\ o \in Outcomes
          /\ r = ExecuteScript(o, tally.top) /\ tally'.really = Append(tally.really, o)
          /\ tally'.pass = IF r = 0 THEN tally.pass + 1 ELSE tally.pass
          /\ tally'.fail = IF r = 1 THEN tally.fail + 1 ELSE tally.fail
          /\ tally'.error = IF r = 2 THEN tally.error + 1 ELSE tally.error
    BY <1>1, <1>5, ScriptCounted
  <2>2. o \in {"pass", "fail", "error", "lua"}
    BY <2>1
  <2>3. (r = 0 <=> o \in {"pass"}) /\ (r = 1 <=> o \in {"fail"})
        /\ (r = 2 <=> o \in {"error", "lua", "mute"})
    BY <2>1, <2>2, ResultOf
  <2>4. PICK s \in Seq(Outcomes) : s = tally.really
    BY DEF TallyCounts
  <2>5. Append(s, o) \in Seq(Outcomes)
    <3>1. o \in Outcomes
      BY <2>1
    <3> QED
      BY <3>1
  <2>6. tally'.pass = Cardinality(Places(Append(s, o), {"pass"}))
    BY <2>1, <2>3, <2>4, PlacesAppend DEF TallyCounts
  <2>7. tally'.fail = Cardinality(Places(Append(s, o), {"fail"}))
    BY <2>1, <2>3, <2>4, PlacesAppend DEF TallyCounts
  <2>8. tally'.error = Cardinality(Places(Append(s, o), {"error", "lua", "mute"}))
    BY <2>1, <2>3, <2>4, PlacesAppend DEF TallyCounts
  <2>9. tally'.pass + tally'.fail + tally'.error = tally'.done
    <3>1. tally.pass \in Nat /\ tally.fail \in Nat /\ tally.error \in Nat
      BY <1>1 DEF TallyOK
    <3>2. r = 0 \/ r = 1 \/ r = 2
      BY <2>2, <2>3
    <3>3. tally'.done = tally.done + 1
      BY <1>1, <1>5, ScriptCounted
    <3>4. tally.pass + tally.fail + tally.error = tally.done
      BY DEF TallyCounts
    <3>5. PICK a \in Nat, b \in Nat, c \in Nat :
            /\ a = tally.pass /\ b = tally.fail /\ c = tally.error /\ tally'.done = a + b + c + 1
      BY <3>1, <3>3, <3>4
    <3>6. \/ tally'.pass = a + 1 /\ tally'.fail = b /\ tally'.error = c
          \/ tally'.pass = a /\ tally'.fail = b + 1 /\ tally'.error = c
          \/ tally'.pass = a /\ tally'.fail = b /\ tally'.error = c + 1
      <4>1. CASE r = 0
        BY <2>1, <3>5, <4>1
      <4>2. CASE r = 1
        BY <2>1, <3>5, <4>2
      <4>3. CASE r = 2
        BY <2>1, <3>5, <4>3
      <4> QED
        BY <3>2, <4>1, <4>2, <4>3
    <3>7. CASE tally'.pass = a + 1 /\ tally'.fail = b /\ tally'.error = c
      <4>1. (a + 1) + b + c = a + b + c + 1
        OBVIOUS
      <4> QED
        BY <3>5, <3>7, <4>1, Zenon
    <3>8. CASE tally'.pass = a /\ tally'.fail = b + 1 /\ tally'.error = c
      <4>1. a + (b + 1) + c = a + b + c + 1
        OBVIOUS
      <4> QED
        BY <3>5, <3>8, <4>1, Zenon
    <3>9. CASE tally'.pass = a /\ tally'.fail = b /\ tally'.error = c + 1
      <4>1. a + b + (c + 1) = a + b + c + 1
        OBVIOUS
      <4> QED
        BY <3>5, <3>9, <4>1, Zenon
    <3> QED
      BY <3>6, <3>7, <3>8, <3>9
  <2> QED
    BY <1>1, <2>1, <2>4, <2>5, <2>6, <2>7, <2>8, <2>9 DEF TallyCounts
<1> QED
  BY <1>2, <1>3, <1>4, <1>5 DEF TestScriptDlgProc

LEMMA CountsFollow == TallyCounts => TallyIsExact
BY DEF TallyCounts, TallyIsExact, TallyOK, Ends, Places

(* The counts of the test dialog are those of what the scripts returned,   *)
(* as long as no script returns nothing.                                   *)
THEOREM TallyExact ==
  ASSUME Outcomes \subseteq {"pass", "fail", "error", "lua"}
  PROVE  DbgSpec => []TallyIsExact
<1>1. DbgInit => TallyCounts
  BY CountsInit
<1>2. TallyCounts /\ [DbgNext]_dbgVars => TallyCounts'
  <2> SUFFICES ASSUME TallyCounts, [DbgNext]_dbgVars PROVE TallyCounts'
    OBVIOUS
  <2>1. CASE DbgNext
    BY <2>1, CountsStep
  <2>2. CASE UNCHANGED dbgVars
    <3>1. tally' = tally /\ app' = app
      BY <2>2 DEF dbgVars, hostVars
    <3>2. TallyOK'
      BY <3>1, TallyStill DEF TallyCounts
    <3> QED
      BY <3>1, <3>2, CountsStill
  <2> QED
    BY <2>1, <2>2
<1> QED
  BY <1>1, <1>2, CountsFollow, PTL DEF DbgSpec

(* The session's commands mean what the machine's do.                      *)
LEMMA SessionEffect ==
  ASSUME NEW c, NEW m
  PROVE  Session!Effect(c, m) = Effect(c, m)
BY DEF Session!Effect, Effect, Session!Put, Put, Session!WORD, WORD

LEMMA SessionAnswer ==
  ASSUME NEW c, NEW m
  PROVE  Session!Answer(c, m) = Answer(c, m)
BY DEF Session!Answer, Answer, Session!Read, Read, Session!WORD, WORD

LEMMA SessionReset == Session!Reset = Reset
BY Zenon DEF Session!Reset, Reset, Session!CpuReg, CpuReg

(* The answer as the session sees it.                                      *)
Given == IF cur.op \in Queries THEN Answer(cur, nes) ELSE back \o tx

LEMMA GivenIdle ==
  ASSUME cur = NoCmd
  PROVE  Given = back \o tx /\ Held = nes
<1>1. cur.op = "None"
  BY DEF NoCmd, Cmd
<1> QED
  BY <1>1, EffectNone DEF Given, Queries, Held

LEMMA Stutters ==
  ASSUME Held' = Held, sent' = sent, Given' = Given, buf' = buf, broken' = broken
  PROVE  UNCHANGED Session!sessionVars
<1>1. Session!Effect(cur, nes) = Held /\ Session!Answer(cur, nes) = Answer(cur, nes)
  BY SessionEffect, SessionAnswer DEF Held
<1> QED
  BY <1>1 DEF Session!sessionVars, Held, Given

LEMMA Executes ==
  ASSUME sent # <<>>, Held' = Effect(sent[1], Held), Given' = Given \o Answer(sent[1], Held),
         sent' = Tail(sent), Head(sent) = sent[1], buf' = buf, broken' = broken
  PROVE  Session!SessionNext
<1>1. Session!Effect(Head(sent), Held) = Effect(sent[1], Held)
      /\ Session!Answer(Head(sent), Held) = Answer(sent[1], Held)
  BY SessionEffect, SessionAnswer
<1> QED
  BY <1>1 DEF Session!SessionNext, Session!Execute, Held, Given

LEMMA Issues ==
  ASSUME Len(sent') = Len(sent) + 1, IsPrefix(sent, sent'),
         Held' = Held, Given' = Given, buf' = buf, broken' = broken
  PROVE  Session!SessionNext
BY DEF Session!SessionNext, Session!Issue, Session!IsPrefix, IsPrefix, Held, Given

LEMMA Takes ==
  ASSUME buf' = Given, Given' = <<>>, Held' = Held, sent' = sent, broken' = broken
  PROVE  Session!SessionNext
BY DEF Session!SessionNext, Session!Take, Held, Given

LEMMA Programs ==
  ASSUME ~Held.halted,
         \/ Held' = [Held EXCEPT !.halted = TRUE]
         \/ \E v \in Bytes : Held' = [Held EXCEPT !.mem = Put(@, 0, <<v>>)],
         Given' = Given, buf' = buf, sent' = sent, broken' = broken
  PROVE  Session!SessionNext
<1>1. \A m, a, d : Session!Put(m, a, d) = Put(m, a, d)
  BY DEF Session!Put, Put, Session!WORD, WORD
<1> QED
  BY <1>1, Zenon DEF Session!SessionNext, Session!Program, Held, Given

LEMMA Failing ==
  ASSUME broken'
  PROVE  Session!SessionNext
BY DEF Session!SessionNext, Session!Fails

(* No command at work is a query about the processor.                      *)
LEMMA CurNotHlt ==
  ASSUME LinkTypes, LinkInv, cur # NoCmd
  PROVE  cur.op # "QueryHlt" /\ IsCommand(cur) /\ nes.halted /\ IsMachine(nes)
<1>1. IsCommand(cur) /\ hci.st \notin {"off", "decode", "err"} /\ nes.halted /\ IsMachine(nes)
  BY DEF LinkInv, WorkOK, LinkTypes, HwTypes
<1>2. hci.st \in {"args", "echo", "read", "write", "ppu"}
  BY <1>1 DEF LinkTypes, HwTypes, IsHci
<1>3. CASE hci.st = "args"
  <2>1. hci.op = Op[cur.op] /\ hci.args \in Seq(Octet) /\ Len(hci.args) < Args(hci.op)
    BY <1>3 DEF LinkInv, WorkOK, LinkTypes, HwTypes, IsHci
  <2>2. Args(Op["QueryHlt"]) = 0
    BY OpCodes, ArgsOf
  <2>3. Len(hci.args) \in Nat
    BY <2>1
  <2>4. ~(Len(hci.args) < 0)
    BY <2>3
  <2> QED
    BY <1>1, <2>1, <2>2, <2>4
<1>4. CASE hci.st \in {"echo", "read", "write", "ppu"}
  BY <1>1, <1>4 DEF LinkInv, WorkOK
<1> QED
  BY <1>1, <1>2, <1>3, <1>4

(* The interface at work.                                                  *)
LEMMA AtOnceExecutes ==
  ASSUME LinkTypes, LinkInv, AtOnce, back' = back, buf' = buf, broken' = broken
  PROVE  Session!SessionNext
<1>1. /\ cur = NoCmd /\ sent # <<>> /\ cur' = NoCmd /\ sent' = Tail(sent)
      /\ nes' = Effect(sent[1], nes) /\ tx = <<>> /\ back = <<>> /\ tx' = Answer(sent[1], nes)
      /\ nes.halted \/ sent[1].op \in Breaks
  BY DEF AtOnce
<1>2. IsQueue(sent) /\ IsMachine(nes)
  BY DEF LinkInv, StreamOK, LinkTypes, HwTypes
<1>3. IsCommand(sent[1]) /\ Head(sent) = sent[1]
  BY <1>1, <1>2, QueueTail
<1>4. Answer(sent[1], nes) \in Seq(Octet)
  BY <1>1, <1>2, <1>3, AnswerIs
<1>5. Given = <<>> /\ Held = nes
  BY <1>1, GivenIdle
<1>6. Given' = back' \o tx' /\ Held' = nes'
  <2>1. cur'.op \notin Queries
    BY <1>1 DEF NoCmd, Cmd, Queries
  <2>2. Effect(cur', nes') = nes'
    BY <1>1, EffectNone
  <2> QED
    BY <2>1, <2>2 DEF Given, Held
<1>7. Given' = Given \o Answer(sent[1], Held)
  BY <1>1, <1>4, <1>5, <1>6
<1> QED
  BY <1>1, <1>3, <1>5, <1>6, <1>7, Executes

LEMMA BeginsExecutes ==
  ASSUME LinkTypes, LinkInv, Begins, back' = back, buf' = buf, broken' = broken
  PROVE  Session!SessionNext
<1>1. /\ cur = NoCmd /\ sent # <<>> /\ cur' = sent[1] /\ sent' = Tail(sent)
      /\ sent[1].op \notin {"DbgHlt", "DbgRun", "QueryHlt"} /\ nes.halted
      /\ nes' = nes /\ tx = <<>> /\ back = <<>> /\ tx' = <<>>
  BY DEF Begins
<1>2. IsQueue(sent) /\ IsMachine(nes)
  BY DEF LinkInv, StreamOK, LinkTypes, HwTypes
<1>3. IsCommand(sent[1]) /\ Head(sent) = sent[1]
  BY <1>1, <1>2, QueueTail
<1>4. Answer(sent[1], nes) \in Seq(Octet)
  BY <1>1, <1>2, <1>3, AnswerIs
<1>5. Given = <<>> /\ Held = nes
  BY <1>1, GivenIdle
<1>6. Held' = Effect(sent[1], Held)
  BY <1>1, <1>5 DEF Held
<1>7. Given' = Answer(sent[1], nes)
  <2>1. CASE sent[1].op \in Queries
    BY <1>1, <2>1 DEF Given
  <2>2. CASE sent[1].op \notin Queries
    <3>1. Answer(sent[1], nes) = <<>>
      BY <1>1, <2>2, AnswerParts DEF Queries
    <3>2. Given' = <<>>
      BY <1>1, <2>2 DEF Given
    <3> QED
      BY <3>1, <3>2
  <2> QED
    BY <2>1, <2>2
<1>8. Given' = Given \o Answer(sent[1], Held)
  BY <1>4, <1>5, <1>7
<1> QED
  BY <1>1, <1>3, <1>6, <1>8, Executes

LEMMA GoesOnStutters ==
  ASSUME LinkTypes, LinkInv, GoesOn, back' = back, buf' = buf, broken' = broken
  PROVE  UNCHANGED Session!sessionVars
<1>1. /\ cur # NoCmd /\ cur' = cur /\ sent' = sent
      /\ Effect(cur, nes') = Effect(cur, nes) /\ Answer(cur, nes') = Answer(cur, nes)
      /\ tx' = tx \/ Yields
  BY DEF GoesOn
<1>2. Held' = Held
  BY <1>1 DEF Held
<1>3. Given' = Given
  <2>1. CASE cur.op \in Queries
    BY <1>1, <2>1 DEF Given
  <2>2. CASE cur.op \notin Queries
    <3>1. Answer(cur, nes) = <<>>
      BY <1>1, <2>2, CurNotHlt, AnswerParts DEF Queries
    <3>2. Produced \in Nat
      BY <1>1, ProducedIs
    <3>3. ~Yields
      BY <3>1, <3>2 DEF Yields
    <3> QED
      BY <1>1, <2>2, <3>3 DEF Given
  <2> QED
    BY <2>1, <2>2
<1> QED
  BY <1>1, <1>2, <1>3, Stutters

LEMMA FinishesStutters ==
  ASSUME LinkTypes, LinkInv, job.wait \in Nat, Finishes, back' = back, buf' = buf, broken' = broken
  PROVE  UNCHANGED Session!sessionVars
<1>1. /\ cur # NoCmd /\ cur' = NoCmd /\ sent' = sent /\ nes' = Effect(cur, nes)
      /\ \/ tx' = tx /\ Produced = Len(Answer(cur, nes))
         \/ Yields /\ Produced + 1 = Len(Answer(cur, nes))
  BY DEF Finishes
<1>2. cur.op # "QueryHlt" /\ IsCommand(cur) /\ nes.halted /\ IsMachine(nes)
  BY <1>1, CurNotHlt
<1>3. Held' = Held
  <2>1. Held' = Effect(NoCmd, nes')
    BY <1>1 DEF Held
  <2> QED
    BY <1>1, <2>1, EffectNone DEF Held
<1>4. Given' = back' \o tx'
  <2>1. cur'.op \notin Queries
    BY <1>1 DEF NoCmd, Cmd, Queries
  <2> QED
    BY <2>1 DEF Given
<1>5. PICK r, k : /\ r = Answer(cur, nes) /\ k = Produced /\ r \in Seq(Octet) /\ Len(r) = Expect(cur)
                  /\ k \in Nat /\ (k = 0 \/ k < Len(r)) /\ Len(r) \in Nat
  <2>1. Answer(cur, nes) \in Seq(Octet) /\ Len(Answer(cur, nes)) = Expect(cur)
    BY <1>2, AnswerIs
  <2>2. Produced \in Nat /\ (Produced = 0 \/ Produced < Expect(cur))
    BY <1>1, ProducedIs
  <2> QED
    BY <2>1, <2>2
<1>6. back \in Seq(Octet) /\ tx \in Seq(Octet)
  BY DEF LinkTypes, HwTypes
<1>7. \/ tx' = tx /\ k = Len(r)
      \/ k < Len(r) /\ tx' = Append(tx, r[k + 1]) /\ k + 1 = Len(r)
  BY <1>1, <1>5 DEF Yields
<1>8. CASE cur.op \notin Queries
  <2>1. r = <<>>
    BY <1>2, <1>5, <1>8, AnswerParts DEF Queries
  <2>2. tx' = tx
    BY <1>5, <1>7, <2>1
  <2>3. Given = back \o tx
    BY <1>8 DEF Given
  <2> QED
    BY <1>1, <1>3, <1>4, <2>2, <2>3, Stutters
<1>9. CASE cur.op \in Queries
  <2>1. Given = r
    BY <1>5, <1>9 DEF Given
  <2>2. back \o tx' = r
    <3>1. CASE sent # <<>> \/ job.wait = 0
      <4>1. Expect(cur) = 0 /\ back = <<>> /\ tx = <<>>
        BY <1>1, <3>1 DEF LinkInv, AnswerOK
      <4>2. Len(r) = 0 /\ k = 0
        BY <1>5, <4>1
      <4>3. r = <<>> /\ tx' = tx
        BY <1>5, <1>7, <4>2, EmptySeq
      <4> QED
        BY <4>1, <4>3
    <3>2. CASE ~(sent # <<>> \/ job.wait = 0)
      <4>1. job.wait > 0 => back \o tx = SubSeq(r, 1, k)
        BY <1>1, <1>5, <3>2 DEF LinkInv, AnswerOK
      <4>2. k = Len(r) => SubSeq(r, 1, k) = r
        BY <1>5, SubSeqFull
      <4>3. k < Len(r) /\ back \o tx = SubSeq(r, 1, k) /\ tx' = Append(tx, r[k + 1])
              => back \o tx' = SubSeq(r, 1, k + 1)
        <5> SUFFICES ASSUME k < Len(r), back \o tx = SubSeq(r, 1, k), tx' = Append(tx, r[k + 1])
                     PROVE  back \o tx' = SubSeq(r, 1, k + 1)
          OBVIOUS
        <5>1. k \in Nat /\ r \in Seq(Octet)
          BY <1>5
        <5> QED
          BY <1>6, <5>1, OneMore
      <4>4. k + 1 = Len(r) => SubSeq(r, 1, k + 1) = r
        BY <1>5, SubSeqFull
      <4>5. job.wait > 0
        BY <3>2
      <4>6. CASE tx' = tx /\ k = Len(r)
        <5>1. back \o tx = r
          BY <4>1, <4>2, <4>5, <4>6, Zenon
        <5> QED
          BY <4>6, <5>1
      <4>7. CASE k < Len(r) /\ tx' = Append(tx, r[k + 1]) /\ k + 1 = Len(r)
        <5>1. back \o tx' = SubSeq(r, 1, k + 1)
          BY <4>1, <4>3, <4>5, <4>7
        <5>2. SubSeq(r, 1, k + 1) = r
          BY <4>4, <4>7
        <5> QED
          BY <5>1, <5>2
      <4> QED
        BY <1>7, <4>6, <4>7
    <3> QED
      BY <3>1, <3>2
  <2> QED
    BY <1>1, <1>3, <1>4, <2>1, <2>2, Stutters
<1> QED
  BY <1>8, <1>9

LEMMA PrefixAppend ==
  ASSUME NEW S, NEW s \in Seq(S), NEW c \in S
  PROVE  IsPrefix(s, Append(s, c))
<1> DEFINE n == Len(s)
<1> DEFINE t == Append(s, c)
<1> DEFINE q == SubSeq(t, 1, n)
<1>1. n \in Nat /\ t \in Seq(S) /\ Len(t) = n + 1 /\ \A i \in 1 .. n : t[i] = s[i]
  OBVIOUS
<1>2. \A i \in 1 .. n : t[i] \in S
  BY <1>1
<1> HIDE DEF t
<1>3. q \in Seq(S) /\ Len(q) = n /\ \A i \in 1 .. n : q[i] = t[i]
  <2>1. 1 \in Int /\ n \in Int
    BY <1>1
  <2>2. /\ q \in Seq(S) /\ Len(q) = IF 1 <= n THEN n - 1 + 1 ELSE 0
        /\ \A i \in 1 .. n - 1 + 1 : q[i] = t[1 + i - 1]
    BY <1>2, <2>1, SubSeqProperties
  <2> HIDE DEF q, n
  <2>3. n - 1 + 1 = n /\ (~(1 <= n) => n = 0) /\ \A i \in 1 .. n : 1 + i - 1 = i
    BY <1>1
  <2> QED
    BY <2>2, <2>3
<1> HIDE DEF q
<1>4. \A i \in 1 .. Len(s) : s[i] = q[i]
  BY <1>1, <1>3
<1>5. q = s
  BY <1>3, <1>4, SeqEqual
<1>6. SubSeq(s, 1, n) = s
  BY SubSeqFull
<1>7. n <= Len(t)
  BY <1>1
<1> QED
  BY <1>5, <1>6, <1>7 DEF IsPrefix, q, t

LEMMA QueueSeq ==
  ASSUME NEW s, IsQueue(s), NEW c
  PROVE  \E S : s \in Seq(S) /\ c \in S
<1>1. CASE s = <<>>
  <2>1. s \in Seq({c})
    BY <1>1
  <2> QED
    BY <2>1
<1>2. CASE s = <<s[1]>>
  <2>1. PICK a : a = s[1]
    OBVIOUS
  <2>2. <<a>> \in Seq({a, c})
    OBVIOUS
  <2> QED
    BY <1>2, <2>1, <2>2
<1>3. CASE s = <<s[1], s[2]>>
  <2>1. PICK a, b : a = s[1] /\ b = s[2]
    OBVIOUS
  <2>2. <<a, b>> \in Seq({a, b, c})
    OBVIOUS
  <2> QED
    BY <1>3, <2>1, <2>2
<1> QED
  BY <1>1, <1>2, <1>3 DEF IsQueue

LEMMA SendIssues ==
  ASSUME LinkTypes, JobOK, LinkInv, ~broken, SendData
  PROVE  Session!SessionNext
<1>1. PICK c : c = Head(job.cmds)
  OBVIOUS
<1>2. /\ sent' = Append(sent, c) /\ rx' = rx /\ tx' = tx /\ hci' = hci /\ nes' = nes /\ back' = back
      /\ buf' = buf /\ cur' = cur /\ broken' = broken
  BY <1>1, Sending
<1>3. IsQueue(sent)
  BY DEF LinkInv, StreamOK
<1>4. PICK S : sent \in Seq(S) /\ c \in S
  BY <1>3, QueueSeq
<1>5. IsPrefix(sent, sent') /\ Len(sent') = Len(sent) + 1
  <2>1. IsPrefix(sent, Append(sent, c))
    BY <1>4, PrefixAppend
  <2>2. Len(Append(sent, c)) = Len(sent) + 1
    BY <1>4
  <2> QED
    BY <1>2, <2>1, <2>2
<1>6. Held' = Held /\ Given' = Given
  BY <1>2 DEF Held, Given
<1> QED
  BY <1>2, <1>5, <1>6, Issues

LEMMA ReceiveTakes ==
  ASSUME LinkTypes, JobOK, LinkInv, ReceiveData
  PROVE  Session!SessionNext
<1>1. /\ job.wait \in Nat \ {0} /\ (Len(back) >= job.wait \/ Quiet)
      /\ tx' = tx /\ nes' = nes /\ sent' = sent /\ cur' = cur /\ broken' = broken
      /\ Len(back) = job.wait => buf' = back /\ back' = <<>>
  BY Receiving
<1>2. sent = <<>> /\ cur = NoCmd /\ tx = <<>> /\ Len(back) = job.wait
  BY <1>1, AllBack
<1>3. buf' = back /\ back' = <<>>
  BY <1>1, <1>2
<1>4. Given = back
  <2>1. Given = back \o <<>>
    BY <1>2, GivenIdle
  <2>2. back \in Seq(Octet)
    BY DEF LinkTypes
  <2> QED
    BY <2>1, <2>2
<1>5. Given' = <<>>
  <2>1. cur'.op \notin Queries
    BY <1>1, <1>2 DEF NoCmd, Cmd, Queries
  <2>2. Given' = back' \o tx'
    BY <2>1 DEF Given
  <2>3. Given' = <<>> \o <<>>
    BY <1>1, <1>2, <1>3, <2>2
  <2> QED
    BY <2>3
<1>6. Held' = Held
  BY <1>1 DEF Held
<1> QED
  BY <1>1, <1>3, <1>4, <1>5, <1>6, Takes

LEMMA ProcessorPrograms ==
  ASSUME LinkTypes, LinkInv, Runs \/ Halts
  PROVE  Session!SessionNext
<1>1. /\ back' = back /\ sent' = sent /\ cur' = cur /\ broken' = broken /\ buf' = buf
      /\ tx' = tx /\ hci.st = "off"
      /\ \/ nes' = [nes EXCEPT !.halted = TRUE]
         \/ \E v \in Bytes : nes' = [nes EXCEPT !.mem = Put(@, 0, <<v>>)]
  BY DEF Runs, Halts, Cpu, Brk, hostVars
<1>2. cur = NoCmd /\ ~nes.halted
  BY <1>1 DEF LinkInv, WorkOK, LinkTypes, HwTypes
<1>3. Held = nes
  BY <1>2, GivenIdle
<1>4. Held' = nes'
  <2>1. Held' = Effect(NoCmd, nes')
    BY <1>1, <1>2 DEF Held
  <2> QED
    BY <2>1, EffectNone
<1>5. Given' = Given
  <2>1. cur.op \notin Queries
    BY <1>2 DEF NoCmd, Cmd, Queries
  <2> QED
    BY <1>1, <2>1 DEF Given
<1> QED
  BY <1>1, <1>2, <1>3, <1>4, <1>5, Programs

(* What the session does not see.                                          *)
LEMMA Unseen ==
  ASSUME UNCHANGED <<hciVars, back, sent, cur, broken>>, buf' = buf
  PROVE  UNCHANGED Session!sessionVars
<1>1. Held' = Held /\ Given' = Given
  BY DEF hciVars, Held, Given
<1> QED
  BY <1>1, Stutters

LEMMA UserUnseen ==
  ASSUME User
  PROVE  UNCHANGED Session!sessionVars
<1>1. SerialCommInit \/ LoadRom \/ RawDbgDlgProc \/ LuaCall
         => \E cmds, then, of : Start(cmds, then, of)
  <2>1. CASE SerialCommInit
    BY <2>1 DEF SerialCommInit
  <2>2. CASE LoadRom
    BY <2>2 DEF LoadRom, Calls
  <2>3. CASE RawDbgDlgProc
    BY <2>3 DEF RawDbgDlgProc, Calls
  <2>4. CASE LuaCall
    <3>1. (\E c : Lua(c)) \/ LuaWaitForHlt
      BY <2>4 DEF LuaCall, LuaEcho, LuaCpuMemRd, LuaCpuMemWr, LuaDbgHlt, LuaDbgRun,
           LuaCpuRegRd, LuaCpuRegWr, LuaLoadAsm, LuaPpuMemRd, LuaPpuMemWr
    <3> QED
      BY <3>1 DEF Lua, LuaWaitForHlt, Calls
  <2> QED
    BY <2>1, <2>2, <2>3, <2>4
<1>2. CASE SerialCommInit \/ LoadRom \/ RawDbgDlgProc \/ LuaCall
  <2>1. UNCHANGED <<hciVars, back, sent, cur, broken>> /\ buf' = buf
    BY <1>1, <1>2 DEF Start
  <2> QED
    BY <2>1, Unseen
<1>3. CASE WndProc \/ LaunchRawDbgDlg \/ RawClear \/ TestScriptDlgProc \/ ScriptEnds
  <2>1. UNCHANGED <<hciVars, back, sent, cur, broken>> /\ buf' = buf
    BY <1>3, Zenon DEF WndProc, LaunchRawDbgDlg, Goes, RawClear, TestScriptDlgProc, TestScriptDlgRun, ScriptEnds
  <2> QED
    BY <2>1, Unseen
<1> QED
  BY <1>2, <1>3 DEF User

LEMMA InterfaceFaithful ==
  ASSUME LinkTypes, JobOK, LinkInv, ~broken, HciAction
  PROVE  Session!SessionNext \/ UNCHANGED Session!sessionVars
<1>1. AtOnce \/ Begins \/ GoesOn \/ Finishes
  BY InterfaceStep
<1>2. back' = back /\ buf' = buf /\ broken' = broken
  BY DEF HciAction, hostVars
<1>3. job.wait \in Nat
  BY WordIs, SMT DEF JobOK
<1> QED
  BY <1>1, <1>2, <1>3, AtOnceExecutes, BeginsExecutes, GoesOnStutters, FinishesStutters

LEMMA LineUnseen ==
  ASSUME LinkTypes, Arrive \/ Leave, ~broken'
  PROVE  UNCHANGED Session!sessionVars
<1>1. CASE Arrive
  <2>1. UNCHANGED <<back, sent, cur, broken>> /\ buf' = buf /\ tx' = tx /\ nes' = nes
    BY <1>1 DEF Arrive, hostVars
  <2>2. Held' = Held /\ Given' = Given
    BY <2>1 DEF Held, Given
  <2> QED
    BY <2>1, <2>2, Stutters
<1>2. CASE Leave
  <2>1. back' \o tx' = back \o tx
    BY <1>2, LeaveTypes
  <2>2. UNCHANGED <<sent, cur, broken>> /\ buf' = buf /\ nes' = nes
    BY <1>2 DEF Leave, hostVars
  <2>3. Held' = Held /\ Given' = Given
    BY <2>1, <2>2 DEF Held, Given
  <2> QED
    BY <2>2, <2>3, Stutters
<1> QED
  BY <1>1, <1>2

LEMMA HandlerFaithful ==
  ASSUME LinkTypes, JobOK, LinkInv, ~broken, Handler
  PROVE  Session!SessionNext \/ UNCHANGED Session!sessionVars
<1>1. CASE SendData
  BY <1>1, SendIssues
<1>2. CASE ReceiveData
  BY <1>2, ReceiveTakes
<1>3. CASE WinMain \/ PollAgain \/ PollEnds \/ Returns \/ RawShows
  <2>1. UNCHANGED <<hciVars, back, sent, cur, broken>> /\ buf' = buf
    BY <1>3 DEF WinMain, PollAgain, PollEnds, Returns, RawShows, End
  <2> QED
    BY <2>1, Unseen
<1> QED
  BY <1>1, <1>2, <1>3 DEF Handler

LEMMA SessionStep ==
  ASSUME DbgInv, [DbgNext]_dbgVars
  PROVE  [Session!SessionNext]_(Session!sessionVars)
<1>1. CASE broken'
  BY <1>1, Failing
<1>2. CASE ~broken' /\ DbgNext
  <2>1. ~broken
    <3>1. broken => broken'
      BY <1>2 DEF DbgNext, User, Handler, Link, HciAction, Arrive, Leave, Runs, Halts,
           SendData, ReceiveData, WinMain, PollAgain, PollEnds, Returns, RawShows, End
    <3> QED
      BY <1>2, <3>1
  <2>2. LinkTypes /\ JobOK /\ LinkInv
    BY <2>1 DEF DbgInv
  <2> QED
    BY <1>2, <2>1, <2>2, UserUnseen, HandlerFaithful, InterfaceFaithful, LineUnseen,
       ProcessorPrograms DEF DbgNext, Link
<1>3. CASE UNCHANGED dbgVars
  <2>1. UNCHANGED <<hciVars, back, sent, cur, broken>> /\ buf' = buf
    BY <1>3 DEF dbgVars, hostVars
  <2> QED
    BY <2>1, Unseen
<1> QED
  BY <1>1, <1>2, <1>3

LEMMA SessionStart == DbgInit => Session!SessionInit
<1> SUFFICES ASSUME DbgInit PROVE Session!SessionInit
  OBVIOUS
<1>1. /\ tx = <<>> /\ nes = Reset /\ buf = <<>> /\ back = <<>> /\ sent = <<>> /\ cur = NoCmd
      /\ broken = FALSE
  BY DEF DbgInit, HciInit
<1>2. Effect(cur, nes) = Session!Reset
  BY <1>1, SessionReset, EffectNone
<1>3. cur.op \notin Queries
  BY <1>1 DEF NoCmd, Cmd, Queries
<1>4. back \o tx = <<>>
  BY <1>1
<1>5. (IF cur.op \in Queries THEN Answer(cur, nes) ELSE back \o tx) = <<>>
  BY <1>3, <1>4
<1> QED
  BY <1>2, <1>5, <1>1, Zenon DEF Session!SessionInit

(* The link does what the session promises.                                *)
THEOREM LinkFaithful == DbgSpec => LinkIsFaithful
<1>1. DbgInit => Session!SessionInit
  BY SessionStart
<1>2. DbgInv /\ [DbgNext]_dbgVars => [Session!SessionNext]_(Session!sessionVars)
  BY SessionStep
<1> QED
  BY <1>1, <1>2, LinkInvariant, PTL DEF DbgSpec, LinkIsFaithful, Session!SessionSpec
=============================================================================
