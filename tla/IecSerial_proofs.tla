-------------------------- MODULE IecSerial_proofs --------------------------
(***************************************************************************)
(* Theorems about the serial bus while the drive browses: for bytes of any *)
(* length and a computer of any speed within what the code allows it, the  *)
(* drive is always found and every byte is exchanged exactly.              *)
(***************************************************************************)
EXTENDS IecSerial, TLAPS

-----------------------------------------------------------------------------
(* The states of the two ends *)

React == Reaction[usingVIC20]

DevPlaces == Reading \union Writing \union {"call", "clock", "release"}
Seqs  == {"IDLE", "ATN", "RECEIVE", "HANDLE", "COMPLETE"}
Roles == {"PASSIVE", "LISTEN", "TALK"}
Codes == {Listen, Talk, Second, Other}
RoleOf(order) ==
  IF order = Listen THEN "LISTEN" ELSE IF order = Talk THEN "TALK" ELSE "PASSIVE"

Hosts  == [at : HostPlaces, clock : BOOLEAN, data : BOOLEAN, byte : Byte, eoi : BOOLEAN,
           bits : Seq(BOOLEAN), order : Byte]
Drives == [at : DevPlaces, clock : BOOLEAN, data : BOOLEAN, seq : Seqs, role : Roles,
           eoi : BOOLEAN, delay : Nat, count : Nat, byte : Byte, bits : Seq(BOOLEAN),
           left : Nat]

Types ==
  /\ atn \in BOOLEAN /\ accepted \in BOOLEAN
  /\ usingVIC20 \in DOMAIN Reaction
  /\ lag \in 0 .. React /\ waited \in Nat
  /\ host \in Hosts /\ dev \in Drives
  /\ offer \in Items \union {NoItem}

\* How long a wait of the drive is at most.
Pause(p) ==
  CASE p = "r_eoi" -> Ticks(73)
    [] p = "w_start" -> Ticks(50)
    [] p = "w_free" -> Ticks(40)
    [] p = "w_set" -> Ticks(66)
    [] p = "w_valid" -> Ticks(22)
    [] p = "w_low" -> Ticks(ValidFor)
    [] p = "w_release" -> Ticks(22)
    [] p = "w_ack" -> Ticks(14)
    [] OTHER -> 0

\* Where the drive is tells which lines it pulls, and while it sends, what is offered.
PullsClock == {"w_next", "w_start", "w_free", "w_set", "w_valid", "w_release", "w_ack"}
PullsData  == {"r_clock", "r_eoi", "clock"}
Shows      == {"w_valid", "w_low", "w_release"}
Shifts     == {"w_set", "w_valid", "w_low", "w_release"}
Starts     == {"r_clock", "r_data", "r_time", "r_eoi", "r_first",
               "w_start", "w_ready", "w_eoi", "w_eoi_ack", "w_free"}

Pulls ==
  /\ dev.at \in Reading \union Writing \union {"clock"} => (dev.clock <=> dev.at \in PullsClock)
  /\ dev.at \in Reading \union {"clock"} => (dev.data <=> dev.at \in PullsData)
  /\ dev.at \in {"call", "release"} /\ dev.seq \in {"RECEIVE", "HANDLE"} => dev.data /\ ~dev.clock
  /\ dev.at \in Writing \ Shows => ~dev.data
  /\ dev.at \in Shows => dev.data = ~dev.byte[Len(dev.bits) + 1]

Talks ==
  /\ dev.at \in Shifts => Len(dev.bits) < Bits
  /\ dev.at \in Starts => dev.bits = <<>>
  /\ dev.at \in Writing => dev.seq = "HANDLE"
  /\ dev.at \in Writing \ {"w_next"} =>
       dev.left > 0 /\ offer = [byte |-> dev.byte, eoi |-> dev.left = 1]
  /\ dev.at = "w_next" => offer = NoItem

Drive == dev.delay <= Pause(dev.at) /\ Pulls /\ Talks

\* The same of the computer; and the codes it sends under ATN.
HostClock == {"present", "t_next", "t_set", "t_valid", "t_ack"}
HostData  == {"l_turn", "l_clock", "l_ready", "l_eoi"}
HostShows == {"t_valid", "t_low"}
Midway    == {"t_set", "t_valid", "t_low", "l_bit", "l_bit_end", "l_ack"}
NoEoi     == {"present", "t_next", "l_turn", "l_ready", "l_time"}
InEoi     == {"t_eoi", "t_eoi_ack", "l_eoi", "l_first"}

Computer ==
  /\ host.at # "absent"
  /\ host.at = "present" => atn /\ host.order = Other
  /\ host.at \in HostHears \union {"l_turn", "idle", "t_eoi", "t_eoi_ack"} => ~atn
  /\ (host.clock <=> host.at \in HostClock)
  /\ host.at \notin HostShows => (host.data <=> host.at \in HostData)
  /\ host.at \in HostShows => host.data = ~host.byte[Len(host.bits) + 1]
  /\ host.at \in HostSends => Len(host.bits) < Bits
  /\ host.at \notin Midway => host.bits = <<>>
  /\ atn \/ host.at \in NoEoi => ~host.eoi
  /\ host.at \in InEoi => host.eoi
  /\ host.at \in HostSends => offer = [byte |-> host.byte, eoi |-> host.eoi]
  /\ host.at \in {"idle", "t_next"} => offer = NoItem

Ordered ==
  atn /\ host.at # "present" =>
    /\ host.byte \in Codes
    /\ host.byte \in {Listen, Talk} => host.order = host.byte
    /\ host.byte = Second => dev.role = RoleOf(host.order) /\ host.order \in {Listen, Talk, Other}
    /\ host.byte = Other => host.order = Other

-----------------------------------------------------------------------------
(* Where the drive can be while the computer is at each of its places.  A  *)
(* step the drive takes at once leaves no time for the computer: lag = 0.  *)
(* What the drive shows for a while lasts longer than the computer takes:  *)
(* lag + dev.delay > React.                                                *)

Dev(p, s) == dev.at = p /\ dev.seq = s
Lasts(more) == lag + dev.delay + more > React
Hears    == dev.seq = IF atn THEN "RECEIVE" ELSE "HANDLE"
SoFar(n) == Len(dev.bits) = n /\ \A i \in 1 .. n : dev.bits[i] = host.byte[i]
Heard(n) == Len(host.bits) = n /\ \A i \in 1 .. n : host.bits[i] = dev.byte[i]
Called   == dev.seq = "RECEIVE" /\ dev.role = "PASSIVE" /\ ~dev.eoi /\ offer = NoItem

\* What is left of the time before the drive looks at ATN.
Rest == dev.delay + IF dev.at = "w_next" THEN Ticks(50)
                    ELSE IF dev.at = "w_release" THEN Ticks(14) ELSE 0

AtIdle ==
  \/ dev.at = "call" /\ dev.seq \in {"IDLE", "COMPLETE"}
  \/ lag = 0 /\ Dev("release", "COMPLETE")
  \/ lag = 0 /\ Dev("release", "HANDLE") /\ dev.role = "PASSIVE"
  \/ dev.at \in {"r_clock", "r_data", "r_time", "r_eoi", "r_first"} /\ dev.seq = "HANDLE"

AtPresent ==
  \/ dev.at = "r_clock" /\ Called
  \/ /\ waited + Rest < PresentWait
     /\ \/ dev.at \in {"clock", "call"} /\ Called
        \/ dev.at = "call" /\ dev.seq \in {"IDLE", "ATN", "COMPLETE"} /\ offer = NoItem
        \/ dev.at \in Reading /\ dev.seq = "HANDLE" /\ offer = NoItem
        \/ dev.at \in {"w_next", "w_start", "w_ready", "w_ack"}
        \/ dev.at = "w_release" /\ Len(dev.bits) + 1 = Bits

AtNext ==
  /\ ~dev.eoi
  /\ atn => \/ host.byte \in {Listen, Talk} /\ Dev("r_clock", "RECEIVE") /\ dev.role = RoleOf(host.byte)
            \/ host.byte = Second /\ Dev("release", "HANDLE")
            \/ host.byte = Other /\ Dev("release", "COMPLETE")
  /\ ~atn => \/ Dev("r_clock", "HANDLE")
             \/ lag = 0 /\ Dev("release", "HANDLE") /\ dev.role = "LISTEN"

Begun == ~accepted /\ ~dev.eoi /\ Hears /\ dev.bits = <<>>

AtReady == /\ Begun
           /\ \/ lag = 0 /\ dev.at \in {"r_clock", "r_data"}
              \/ dev.at = "r_time" /\ dev.count = lag
AtEoi   == Begun /\ (dev.at = "r_time" \/ (dev.at = "r_eoi" /\ Lasts(0)))
AtEoiAck == Begun /\ dev.at \in {"r_eoi", "r_first"}

AtSet ==
  \/ Begun /\ lag = 0 /\ dev.at = "r_time" /\ ~host.eoi /\ host.bits = <<>> /\ dev.count < Ticks(200)
  \/ Begun /\ lag = 0 /\ dev.at = "r_first" /\ host.eoi /\ host.bits = <<>>
  \/ /\ dev.at = "r_bit" \/ (lag = 0 /\ dev.at = "r_bit_end")
     /\ ~accepted /\ Hears /\ dev.eoi = host.eoi /\ SoFar(Len(host.bits))
AtValid ==
  ~accepted /\ Hears /\ dev.at = "r_bit" /\ dev.eoi = host.eoi /\ SoFar(Len(host.bits))
AtLow ==
  /\ ~accepted /\ Hears /\ dev.eoi = host.eoi
  /\ \/ lag = 0 /\ dev.at = "r_bit" /\ SoFar(Len(host.bits))
     \/ dev.at = "r_bit_end" /\ SoFar(Len(host.bits) + 1)
AtAck ==
  \/ ~accepted /\ lag = 0 /\ dev.at = "r_bit_end" /\ SoFar(Bits) /\ Hears /\ dev.eoi = host.eoi
  \/ accepted /\ ~atn /\ Dev("r_clock", "HANDLE") /\ dev.eoi = host.eoi
  \/ /\ accepted /\ atn /\ ~dev.eoi
     /\ \/ /\ host.byte \in {Listen, Talk} /\ dev.seq = "RECEIVE" /\ dev.role = RoleOf(host.byte)
           /\ dev.at = "r_clock" \/ (lag = 0 /\ dev.at = "call")
        \/ /\ host.byte = Second /\ dev.seq = "HANDLE"
           /\ dev.at = "release" \/ (lag = 0 /\ dev.at = "call")
        \/ host.byte = Other /\ Dev("release", "COMPLETE")

AtTurn ==
  \/ lag = 0 /\ Dev("release", "HANDLE") /\ dev.role = "TALK" /\ offer = NoItem
  \/ lag = 0 /\ dev.at = "w_next" /\ dev.left > 0
  \/ dev.at = "w_start" /\ ~accepted /\ Lasts(0)
AtClock ==
  \/ /\ dev.at = "w_ack" \/ (dev.at = "w_release" /\ Len(dev.bits) + 1 = Bits)
     /\ accepted /\ host.eoi = (dev.left = 1)
  \/ dev.at = "w_next" /\ host.eoi = (dev.left = 0)
  \/ ~host.eoi /\ dev.at \in {"w_start", "w_ready"} /\ ~accepted
  \/ host.eoi /\ dev.at = "call" /\ dev.seq \in {"COMPLETE", "IDLE"} /\ offer = NoItem
AtListens == dev.at = "w_ready" /\ ~accepted
AtTime ==
  /\ ~accepted
  /\ \/ lag = 0 /\ dev.at = "w_ready"
     \/ dev.left = 1 /\ dev.at = "w_eoi"
     \/ dev.left > 1 /\ dev.at = "w_free" /\ Lasts(Ticks(66))
     \/ dev.left > 1 /\ dev.at = "w_set" /\ Lasts(0) /\ dev.bits = <<>>
AtAnswer == ~accepted /\ dev.left = 1 /\ (dev.at = "w_eoi_ack" \/ (lag = 0 /\ dev.at = "w_eoi"))
AtFirst ==
  /\ ~accepted /\ dev.left = 1
  /\ \/ lag = 0 /\ dev.at = "w_eoi_ack"
     \/ dev.at = "w_free" /\ Lasts(Ticks(66))
     \/ dev.at = "w_set" /\ Lasts(0) /\ dev.bits = <<>>
AtBit ==
  /\ ~accepted /\ host.eoi = (dev.left = 1) /\ Heard(Len(host.bits)) /\ Len(host.bits) < Bits
  /\ \/ dev.at \in {"w_free", "w_set", "w_valid"} /\ Len(dev.bits) = Len(host.bits)
     \/ dev.at = "w_low" /\ Len(dev.bits) = Len(host.bits) /\ Lasts(0)
     \/ dev.at = "w_release" /\ Len(dev.bits) + 1 = Len(host.bits)
AtBitEnd ==
  /\ ~accepted /\ host.eoi = (dev.left = 1) /\ Heard(Len(host.bits)) /\ Len(host.bits) <= Bits
  /\ \/ dev.at = "w_low" /\ Len(dev.bits) + 1 = Len(host.bits)
     \/ /\ dev.at = "w_release" /\ Len(dev.bits) + 1 = Len(host.bits)
        /\ Len(host.bits) < Bits => Lasts(Ticks(59))
     \/ dev.at = "w_set" /\ Len(dev.bits) = Len(host.bits) /\ Lasts(0)
     \/ dev.at = "w_ack" /\ Len(host.bits) = Bits
AtTake ==
  /\ ~accepted /\ host.eoi = (dev.left = 1) /\ Heard(Bits)
  /\ dev.at = "w_ack" \/ (dev.at = "w_release" /\ Len(dev.bits) + 1 = Bits)

Meets ==
  /\ host.at = "idle" => AtIdle
  /\ host.at = "present" => AtPresent
  /\ host.at = "t_next" => AtNext
  /\ host.at = "t_ready" => AtReady
  /\ host.at = "t_eoi" => AtEoi
  /\ host.at = "t_eoi_ack" => AtEoiAck
  /\ host.at = "t_set" => AtSet
  /\ host.at = "t_valid" => AtValid
  /\ host.at = "t_low" => AtLow
  /\ host.at = "t_ack" => AtAck
  /\ host.at = "l_turn" => AtTurn
  /\ host.at = "l_clock" => AtClock
  /\ host.at = "l_ready" => AtListens
  /\ host.at = "l_time" => AtTime
  /\ host.at = "l_eoi" => AtAnswer
  /\ host.at = "l_first" => AtFirst
  /\ host.at = "l_bit" => AtBit
  /\ host.at = "l_bit_end" => AtBitEnd
  /\ host.at = "l_ack" => AtTake

IInv == Types /\ Drive /\ Computer /\ Ordered /\ Meets

-----------------------------------------------------------------------------
(* Ticks *)

\* A time in microseconds is a whole number of ticks; the longer, the more of them.
LEMMA TicksType == ASSUME NEW us \in Nat PROVE Ticks(us) \in Nat
<1>1. TickLength \in Nat /\ TickLength > 0
  BY SerialAssumption
<1>2. \A n \in Nat : n > 0 => us \div n \in Nat
  OBVIOUS
<1> QED BY <1>1, <1>2 DEF Ticks

LEMMA TicksGrow ==
  ASSUME NEW a \in Nat, NEW b \in Nat, a <= b
  PROVE  Ticks(a) <= Ticks(b)
<1>1. ASSUME NEW n \in Nat, n > 0 PROVE a \div n <= b \div n
  <2> DEFINE p == a \div n
             q == b \div n
  <2>1. p \in Nat /\ q \in Nat /\ n * p <= a /\ b < n * (q + 1)
    BY <1>1
  <2> HIDE DEF p, q
  <2>2. ASSUME q < p PROVE FALSE
    <3>1. PICK k \in Nat : p = q + 1 + k
      <4>1. p - (q + 1) \in Nat /\ p = q + 1 + (p - (q + 1))
        BY <2>1, <2>2
      <4> QED BY <4>1
    <3>2. n * p = n * (q + 1) + n * k /\ n * k \in Nat
      BY <2>1, <3>1, <1>1
    <3>3. n * (q + 1) \in Nat /\ n * p \in Nat
      BY <2>1, <1>1
    <3> QED BY <2>1, <3>2, <3>3
  <2> QED BY <2>1, <2>2 DEF p, q
<1>2. TickLength \in Nat /\ TickLength > 0
  BY SerialAssumption
<1> QED BY <1>1, <1>2 DEF Ticks

LEMMA TicksAdd ==
  ASSUME NEW a \in Nat, NEW b \in Nat
  PROVE  Ticks(a) + Ticks(b) <= Ticks(a + b)
<1>1. ASSUME NEW n \in Nat, n > 0 PROVE (a \div n) + (b \div n) <= (a + b) \div n
  <2> DEFINE p == a \div n
             q == b \div n
             r == (a + b) \div n
  <2>1. /\ p \in Nat /\ q \in Nat /\ r \in Nat
        /\ n * p <= a /\ n * q <= b /\ a + b < n * (r + 1)
    BY <1>1
  <2> HIDE DEF p, q, r
  <2>2. ASSUME r < p + q PROVE FALSE
    <3>1. PICK k \in Nat : p + q = r + 1 + k
      <4>1. (p + q) - (r + 1) \in Nat /\ p + q = r + 1 + ((p + q) - (r + 1))
        BY <2>1, <2>2
      <4> QED BY <4>1
    <3>2. n * (p + q) = n * (r + 1) + n * k /\ n * k \in Nat /\ n * (p + q) = n * p + n * q
      BY <2>1, <3>1, <1>1
    <3>3. n * (r + 1) \in Nat /\ n * p \in Nat /\ n * q \in Nat
      BY <2>1, <1>1
    <3> QED BY <2>1, <3>2, <3>3
  <2> QED BY <2>1, <2>2 DEF p, q, r
<1>2. TickLength \in Nat /\ TickLength > 0
  BY SerialAssumption
<1> QED BY <1>1, <1>2 DEF Ticks

\* The waits of the code against the computer's time to look, and the sums of them needed.
LEMMA Times ==
  ASSUME usingVIC20 \in DOMAIN Reaction
  PROVE  /\ React \in Nat /\ React > 0
         /\ Ticks(14) \in Nat /\ Ticks(22) \in Nat /\ Ticks(40) \in Nat /\ Ticks(50) \in Nat
         /\ Ticks(59) \in Nat /\ Ticks(66) \in Nat /\ Ticks(73) \in Nat /\ Ticks(200) \in Nat
         /\ Ticks(ValidFor) \in Nat
         /\ React < Ticks(50) /\ React < Ticks(59) /\ React < Ticks(66) /\ React < Ticks(73)
         /\ React < Ticks(200)
         /\ React < Ticks(ValidFor)
         /\ Ticks(22) + Ticks(14) <= Ticks(73) /\ Ticks(50) <= Ticks(73)
         /\ Ticks(14) <= Ticks(73) /\ Ticks(22) <= Ticks(73) /\ Ticks(59) <= Ticks(66)
         /\ Ticks(73) < PresentWait /\ PresentWait \in Nat
<1>1. \A us \in Nat : Ticks(us) \in Nat
  BY TicksType
<1>2. \A a, b \in Nat : a <= b => Ticks(a) <= Ticks(b)
  BY TicksGrow
<1>3. /\ React \in Nat /\ React > 0 /\ usingVIC20 \in BOOLEAN
      /\ usingVIC20 => React < Ticks(34)
      /\ ~usingVIC20 => React < Ticks(50)
      /\ Ticks(73) < PresentWait /\ PresentWait \in Nat
  BY SerialAssumption DEF React
<1>4. Ticks(34) <= Ticks(50)
  BY <1>2
<1>5. React < Ticks(50)
  BY <1>1, <1>3, <1>4
<1>6. \A us \in {50, 59, 66, 73, 75, 200} : React < Ticks(us)
  <2>1. TAKE us \in {50, 59, 66, 73, 75, 200}
  <2>2. us \in Nat /\ 50 <= us
    OBVIOUS
  <2>3. Ticks(50) <= Ticks(us) /\ Ticks(us) \in Nat /\ Ticks(50) \in Nat
    BY <1>1, <1>2, <2>2
  <2> QED BY <1>5, <1>3, <2>3
<1>7. React < Ticks(ValidFor) /\ ValidFor \in {34, 75}
  BY <1>3, <1>6 DEF ValidFor
<1>8. Ticks(22) + Ticks(14) <= Ticks(73)
  <2>1. Ticks(22) + Ticks(14) <= Ticks(22 + 14)
    BY TicksAdd
  <2>2. Ticks(22 + 14) <= Ticks(73)
    BY <1>2
  <2>3. Ticks(22) \in Nat /\ Ticks(14) \in Nat /\ Ticks(73) \in Nat /\ Ticks(22 + 14) \in Nat
    BY <1>1
  <2> QED BY <2>1, <2>2, <2>3
<1>9. Ticks(50) <= Ticks(73) /\ Ticks(14) <= Ticks(73) /\ Ticks(22) <= Ticks(73) /\ Ticks(59) <= Ticks(66)
  BY <1>2
<1>10. Ticks(ValidFor) \in Nat
  BY <1>1, <1>7
<1> QED BY <1>1, <1>3, <1>6, <1>7, <1>8, <1>9, <1>10

\* What is a number.
LEMMA Numbers ==
  ASSUME Types
  PROVE  /\ Bits \in Nat /\ Bits > 1 /\ PresentWait \in Nat /\ React \in Nat
         /\ lag \in Nat /\ lag <= React /\ waited \in Nat
         /\ dev.delay \in Nat /\ dev.count \in Nat /\ dev.left \in Nat
         /\ dev.bits \in Seq(BOOLEAN) /\ Len(dev.bits) \in Nat
         /\ host.bits \in Seq(BOOLEAN) /\ Len(host.bits) \in Nat
<1>1. React \in Nat
  BY Times DEF Types
<1> QED BY <1>1, SerialAssumption DEF Types, Hosts, Drives

-----------------------------------------------------------------------------
(* What the drive and the computer wait for, and where they can be *)

\* What each wait of the drive waits for.
LEMMA SeenAt ==
  /\ \A p \in {"clock", "r_first", "r_bit_end"} : Seen[p] = Clock
  /\ \A p \in {"r_clock", "r_bit"} : Seen[p] = ~Clock
  /\ \A p \in {"r_data", "w_ready", "w_eoi_ack", "w_free"} : Seen[p] = ~Data
  /\ \A p \in {"w_eoi", "w_ack"} : Seen[p] = Data
  /\ Seen["r_time"] = (Clock \/ dev.count = Ticks(200))
  /\ Seen["release"] = ~atn
  /\ Seen["call"] = (dev.seq # "IDLE" \/ atn)
  /\ \A p \in {"r_eoi", "w_next", "w_start", "w_set", "w_valid", "w_low", "w_release"} : Seen[p] = TRUE
BY DEF Seen, Reading, Writing

\* How long each wait of the drive lasts.
LEMMA PauseAt ==
  /\ Pause("r_eoi") = Ticks(73) /\ Pause("w_start") = Ticks(50) /\ Pause("w_free") = Ticks(40)
  /\ Pause("w_set") = Ticks(66) /\ Pause("w_valid") = Ticks(22) /\ Pause("w_low") = Ticks(ValidFor)
  /\ Pause("w_release") = Ticks(22) /\ Pause("w_ack") = Ticks(14)
  /\ \A p \in {"call", "clock", "release", "r_clock", "r_data", "r_time", "r_first", "r_bit", "r_bit_end",
               "w_next", "w_ready", "w_eoi", "w_eoi_ack"} : Pause(p) = 0
BY DEF Pause

\* The lines each end pulls at each of its places.
LEMMA Lines ==
  ASSUME IInv
  PROVE  /\ host.at \in {"present", "t_next", "t_set", "t_valid", "t_ack"} => host.clock
         /\ host.at \in {"idle", "t_ready", "t_eoi", "t_eoi_ack", "t_low", "l_turn", "l_clock", "l_ready",
                        "l_time", "l_eoi", "l_first", "l_bit", "l_bit_end", "l_ack"} => ~host.clock
         /\ host.at \in {"l_turn", "l_clock", "l_ready", "l_eoi"} => host.data
         /\ host.at \in {"idle", "present", "t_next", "t_ready", "t_eoi", "t_eoi_ack", "t_set", "t_ack",
                        "l_time", "l_first", "l_bit", "l_bit_end", "l_ack"} => ~host.data
         /\ dev.at \in {"w_next", "w_start", "w_free", "w_set", "w_valid", "w_release", "w_ack"} => dev.clock
         /\ dev.at \in {"clock", "r_clock", "r_data", "r_time", "r_eoi", "r_first", "r_bit", "r_bit_end",
                       "w_ready", "w_eoi", "w_eoi_ack", "w_low"} => ~dev.clock
         /\ dev.at \in {"clock", "r_clock", "r_eoi"} => dev.data
         /\ dev.at \in {"r_data", "r_time", "r_first", "r_bit", "r_bit_end", "w_next", "w_start", "w_ready",
                       "w_eoi", "w_eoi_ack", "w_free", "w_set", "w_ack"} => ~dev.data
<1>1. /\ host.clock \in BOOLEAN /\ host.data \in BOOLEAN
      /\ dev.clock \in BOOLEAN /\ dev.data \in BOOLEAN
  BY DEF IInv, Types, Hosts, Drives
<1>2. Computer /\ Pulls
  BY DEF IInv, Drive
<1> QED BY <1>1, <1>2 DEF Computer, HostClock, HostData, HostShows, Pulls, PullsClock, PullsData,
         Shows, Reading, Writing

\* All bits read: the byte.
LEMMA Bytes ==
  ASSUME IInv, SoFar(Bits)
  PROVE  dev.bits = host.byte
<1>1. host.byte \in [1 .. Bits -> BOOLEAN] /\ dev.bits \in Seq(BOOLEAN) /\ Bits \in Nat
  BY SerialAssumption DEF IInv, Types, Hosts, Drives, Byte
<1>2. dev.bits \in [1 .. Bits -> BOOLEAN]
  BY <1>1 DEF SoFar
<1> QED BY <1>1, <1>2 DEF SoFar

\* The codes told apart are four.
LEMMA CodesDiffer ==
  Listen # Talk /\ Listen # Second /\ Listen # Other /\ Talk # Second /\ Talk # Other /\ Second # Other
<1>1. Bits \in Nat /\ 1 \in 1 .. Bits /\ 2 \in 1 .. Bits
  BY SerialAssumption
<1>2. \A i \in 1 .. Bits : (Listen[i] <=> i = 1) /\ (Talk[i] <=> i = 2) /\ Second[i] /\ ~Other[i]
  BY DEF Listen, Talk, Second, Other
<1>3. /\ Listen # Talk /\ Listen # Second /\ Listen # Other
  BY <1>1, <1>2
<1>4. /\ Talk # Second /\ Talk # Other /\ Second # Other
  BY <1>1, <1>2
<1> QED BY <1>3, <1>4

\* The invariant read the other way: where the computer can be while the drive is at a place.
LEMMA HostWhere ==
  ASSUME IInv
  PROVE  /\ dev.at = "call" => host.at \in {"idle", "present", "t_ack", "l_clock"}
         /\ dev.at = "clock" => host.at = "present"
         /\ dev.at = "release" => host.at \in {"idle", "t_next", "t_ack", "l_turn"}
         /\ dev.at = "r_clock" => host.at \in {"idle", "present", "t_next", "t_ready", "t_ack"}
         /\ dev.at = "r_data" => host.at \in {"idle", "present", "t_ready"}
         /\ dev.at = "r_time" => host.at \in {"idle", "present", "t_ready", "t_eoi", "t_set"}
         /\ dev.at = "r_eoi" => host.at \in {"idle", "present", "t_eoi", "t_eoi_ack"}
         /\ dev.at = "r_first" => host.at \in {"idle", "present", "t_eoi_ack", "t_set"}
         /\ dev.at = "r_bit" => host.at \in {"present", "t_set", "t_valid", "t_low"}
         /\ dev.at = "r_bit_end" => host.at \in {"present", "t_set", "t_low", "t_ack"}
         /\ dev.at = "w_next" => host.at \in {"present", "l_turn", "l_clock"}
         /\ dev.at = "w_start" => host.at \in {"present", "l_turn", "l_clock"}
         /\ dev.at = "w_ready" => host.at \in {"present", "l_clock", "l_ready", "l_time"}
         /\ dev.at = "w_eoi" => host.at \in {"l_time", "l_eoi"}
         /\ dev.at = "w_eoi_ack" => host.at \in {"l_eoi", "l_first"}
         /\ dev.at = "w_free" => host.at \in {"l_time", "l_first", "l_bit"}
         /\ dev.at = "w_set" => host.at \in {"l_time", "l_first", "l_bit", "l_bit_end"}
         /\ dev.at = "w_valid" => host.at = "l_bit"
         /\ dev.at = "w_low" => host.at \in {"l_bit", "l_bit_end"}
         /\ dev.at = "w_release" => host.at \in {"present", "l_clock", "l_bit", "l_bit_end", "l_ack"}
         /\ dev.at = "w_ack" => host.at \in {"present", "l_clock", "l_bit_end", "l_ack"}
<1>1. host.at \in HostPlaces /\ host.at # "absent"
  BY DEF IInv, Types, Hosts, Computer
<1>2. ASSUME host.at = "idle"
     PROVE  dev.at \in {"call", "release", "r_clock", "r_data", "r_time", "r_eoi", "r_first"}
  BY <1>2 DEF IInv, Meets, AtIdle, Dev
<1>3. ASSUME host.at = "present"
     PROVE  dev.at \in {"call", "clock", "r_clock", "r_data", "r_time", "r_eoi", "r_first", "r_bit",
                        "r_bit_end", "w_next", "w_start", "w_ready", "w_release", "w_ack"}
  BY <1>3 DEF IInv, Meets, AtPresent, Reading
<1>4. ASSUME host.at = "t_next"
     PROVE  dev.at \in {"release", "r_clock"}
  BY <1>4 DEF IInv, Meets, AtNext, Dev
<1>5. ASSUME host.at = "t_ready"
     PROVE  dev.at \in {"r_clock", "r_data", "r_time"}
  BY <1>5 DEF IInv, Meets, AtReady
<1>6. ASSUME host.at = "t_eoi"
     PROVE  dev.at \in {"r_time", "r_eoi"}
  BY <1>6 DEF IInv, Meets, AtEoi
<1>7. ASSUME host.at = "t_eoi_ack"
     PROVE  dev.at \in {"r_eoi", "r_first"}
  BY <1>7 DEF IInv, Meets, AtEoiAck
<1>8. ASSUME host.at = "t_set"
     PROVE  dev.at \in {"r_time", "r_first", "r_bit", "r_bit_end"}
  BY <1>8 DEF IInv, Meets, AtSet
<1>9. ASSUME host.at = "t_valid"
     PROVE  dev.at \in {"r_bit"}
  BY <1>9 DEF IInv, Meets, AtValid
<1>10. ASSUME host.at = "t_low"
     PROVE  dev.at \in {"r_bit", "r_bit_end"}
  BY <1>10 DEF IInv, Meets, AtLow
<1>11. ASSUME host.at = "t_ack"
     PROVE  dev.at \in {"call", "release", "r_clock", "r_bit_end"}
  BY <1>11 DEF IInv, Meets, AtAck, Dev
<1>12. ASSUME host.at = "l_turn"
     PROVE  dev.at \in {"release", "w_next", "w_start"}
  BY <1>12 DEF IInv, Meets, AtTurn, Dev
<1>13. ASSUME host.at = "l_clock"
     PROVE  dev.at \in {"call", "w_next", "w_start", "w_ready", "w_release", "w_ack"}
  BY <1>13 DEF IInv, Meets, AtClock
<1>14. ASSUME host.at = "l_ready"
     PROVE  dev.at \in {"w_ready"}
  BY <1>14 DEF IInv, Meets, AtListens
<1>15. ASSUME host.at = "l_time"
     PROVE  dev.at \in {"w_ready", "w_eoi", "w_free", "w_set"}
  BY <1>15 DEF IInv, Meets, AtTime
<1>16. ASSUME host.at = "l_eoi"
     PROVE  dev.at \in {"w_eoi", "w_eoi_ack"}
  BY <1>16 DEF IInv, Meets, AtAnswer
<1>17. ASSUME host.at = "l_first"
     PROVE  dev.at \in {"w_eoi_ack", "w_free", "w_set"}
  BY <1>17 DEF IInv, Meets, AtFirst
<1>18. ASSUME host.at = "l_bit"
     PROVE  dev.at \in {"w_free", "w_set", "w_valid", "w_low", "w_release"}
  BY <1>18 DEF IInv, Meets, AtBit
<1>19. ASSUME host.at = "l_bit_end"
     PROVE  dev.at \in {"w_set", "w_low", "w_release", "w_ack"}
  BY <1>19 DEF IInv, Meets, AtBitEnd
<1>20. ASSUME host.at = "l_ack"
     PROVE  dev.at \in {"w_release", "w_ack"}
  BY <1>20 DEF IInv, Meets, AtTake
<1> QED BY <1>1, <1>2, <1>3, <1>4, <1>5, <1>6, <1>7, <1>8, <1>9, <1>10, <1>11, <1>12, <1>13, <1>14,
         <1>15, <1>16, <1>17, <1>18, <1>19, <1>20 DEF HostPlaces, HostSends

-----------------------------------------------------------------------------
(* The steps of the drive: a lemma for each action, or each case of one.   *)
(* Each says where the computer can be meanwhile (<1>6) and that the drive *)
(* is then where the computer can meet it.                                 *)

Still == UNCHANGED <<atn, host, lag, waited, usingVIC20>>

\* A byte has a bit at each place.
LEMMA BitOfByte ==
  ASSUME NEW b \in Byte, NEW n \in Nat, n < Bits
  PROVE  b[n + 1] \in BOOLEAN
<1>1. n + 1 \in 1 .. Bits
  BY SerialAssumption
<1> QED BY <1>1 DEF Byte

\* A byte is complete only when the computer waits for its acknowledgment, and is its byte.
LEMMA CodeComes ==
  ASSUME IInv, ReadBitEnd, Len(dev.bits) >= Bits
  PROVE  /\ host.at = "t_ack" /\ dev.bits = host.byte /\ ~accepted
         /\ Hears /\ dev.eoi = host.eoi /\ (dev.seq = "RECEIVE" <=> atn)
         /\ offer = [byte |-> host.byte, eoi |-> host.eoi]
         /\ atn => ~dev.eoi /\ host.byte \in Codes
<1>1. dev.at = "r_bit_end" /\ ~CheckATN /\ Clock
  BY SeenAt DEF ReadBitEnd, At
<1>2. host.at \in {"present", "t_set", "t_low", "t_ack"}
  BY <1>1, HostWhere
<1>3. host.at # "present"
  BY <1>1 DEF IInv, Types, Meets, AtPresent, Computer, CheckATN, Polls, Reading, Called
<1>4. host.at # "t_set"
  BY <1>1, Numbers DEF IInv, Computer, HostSends, Meets, AtSet, SoFar
<1>5. host.at # "t_low"
  BY <1>1, Lines DEF Clock
<1>6. host.at = "t_ack"
  BY <1>2, <1>3, <1>4, <1>5
<1>7. SoFar(Bits) /\ ~accepted /\ Hears /\ dev.eoi = host.eoi
  BY <1>1, <1>6 DEF IInv, Meets, AtAck, Dev
<1>8. dev.bits = host.byte
  BY <1>7, Bytes
<1>9. offer = [byte |-> host.byte, eoi |-> host.eoi]
  BY <1>6 DEF IInv, Computer, HostSends
<1>10. atn => ~dev.eoi /\ host.byte \in Codes
  BY <1>6, <1>7 DEF IInv, Computer, Ordered
<1> QED BY <1>6, <1>7, <1>8, <1>9, <1>10 DEF Hears

LEMMA IdleKeeps == ASSUME IInv, Idle, Still PROVE IInv'
<1>1. /\ dev.at = "call" /\ dev.delay = 0 /\ ~CheckATN
      /\ dev.seq = "IDLE" /\ atn
      /\ dev' = [dev EXCEPT !.seq = "ATN"]
      /\ UNCHANGED <<atn, host, lag, waited, usingVIC20, offer, accepted, taken>>
  BY SeenAt DEF Idle, At, Quiet, Still, history
<1>2. /\ dev'.at = dev.at /\ dev'.clock = dev.clock /\ dev'.data = dev.data /\ dev'.seq = "ATN"
      /\ dev'.role = dev.role /\ dev'.eoi = dev.eoi /\ dev'.delay = dev.delay
      /\ dev'.count = dev.count
      /\ dev'.byte = dev.byte /\ dev'.bits = dev.bits /\ dev'.left = dev.left
  BY <1>1 DEF IInv, Types, Drives
<1>3. /\ React' = React /\ ValidFor' = ValidFor
      /\ Bits \in Nat /\ Bits > 1 /\ lag \in Nat /\ lag <= React /\ React \in Nat /\ waited \in Nat
      /\ PresentWait \in Nat
      /\ Len(dev.bits) \in Nat /\ Len(host.bits) \in Nat /\ Len(<<>>) = 0
  BY <1>1, Numbers, Times DEF React, ValidFor, IInv, Types
<1>4. Types'
  BY <1>1, <1>2, <1>3 DEF IInv, Types, Drives, Items, DevPlaces, Reading, Writing, Seqs, Roles
<1>5. Drive'
  <2>1. Pause(dev.at)' = Pause(dev'.at)
    BY <1>3 DEF Pause
  <2>2. dev'.at = "call" /\ dev'.delay = 0
    BY <1>1, <1>2
  <2>3. dev'.delay <= Pause(dev'.at)
    BY <1>3, <2>2, PauseAt
  <2>4. Pulls'
    BY <1>1, <1>2, <1>3 DEF IInv, Types, Drive, Pulls, PullsClock, PullsData, Shows, Reading,
       Writing
  <2>5. Talks'
    BY <1>1, <1>2, <1>3 DEF IInv, Types, Drive, Talks, Shifts, Starts, Writing
  <2> QED BY <2>1, <2>3, <2>4, <2>5 DEF Drive
<1>6. host.at = "present"
  <2>1. host.at \in {"idle", "present", "t_ack", "l_clock"}
    BY <1>1, HostWhere
  <2>2. host.at # "idle"
    BY <1>1, <1>3, Lines DEF IInv, Types, Drive, Talks, Computer, Meets, AtIdle, Dev, CheckATN,
       Polls, Reading, Writing, HostSends, HostHears
  <2>3. host.at # "t_ack"
    BY <1>1, <1>3, Lines DEF IInv, Types, Drive, Talks, Computer, Meets, AtAck, Dev, CheckATN,
       Polls, Reading, Writing, HostSends, HostHears, Hears, SoFar
  <2>4. host.at # "l_clock"
    BY <1>1, <1>3, Lines DEF IInv, Types, Drive, Talks, Computer, Meets, AtClock, CheckATN, Polls,
       Reading, Writing, HostSends, HostHears
  <2> QED BY <2>1, <2>2, <2>3, <2>4
<1>7. Computer' /\ Ordered'
  BY <1>1, <1>2, <1>3, <1>6 DEF IInv, Computer, Ordered, CheckATN, Polls, Reading, HostSends
<1>8. host.at = "present" => AtPresent'
  BY <1>1, <1>2, <1>3 DEF IInv, Types, Drive, Pulls, Talks, Computer, Meets, AtPresent, Rest,
     Called, Reading, Starts, Writing
<1> QED BY <1>1, <1>4, <1>5, <1>6, <1>7, <1>8 DEF IInv, Meets

LEMMA AttentionKeeps == ASSUME IInv, Attention, Still PROVE IInv'
<1>1. /\ dev.at = "call" /\ dev.delay = 0 /\ ~CheckATN
      /\ dev.seq = "ATN"
      /\ dev' = [dev EXCEPT !.at = "clock", !.clock = FALSE, !.data = TRUE, !.seq = "RECEIVE",
                            !.role = "PASSIVE", !.eoi = FALSE]
      /\ UNCHANGED <<atn, host, lag, waited, usingVIC20, offer, accepted, taken>>
  BY SeenAt DEF Attention, At, Quiet, Still, history
<1>2. /\ dev'.at = "clock" /\ dev'.clock = FALSE /\ dev'.data = TRUE /\ dev'.seq = "RECEIVE"
      /\ dev'.role = "PASSIVE" /\ dev'.eoi = FALSE /\ dev'.delay = dev.delay
      /\ dev'.count = dev.count
      /\ dev'.byte = dev.byte /\ dev'.bits = dev.bits /\ dev'.left = dev.left
  BY <1>1 DEF IInv, Types, Drives
<1>3. /\ React' = React /\ ValidFor' = ValidFor
      /\ Bits \in Nat /\ Bits > 1 /\ lag \in Nat /\ lag <= React /\ React \in Nat /\ waited \in Nat
      /\ PresentWait \in Nat
      /\ Len(dev.bits) \in Nat /\ Len(host.bits) \in Nat /\ Len(<<>>) = 0
  BY <1>1, Numbers, Times DEF React, ValidFor, IInv, Types
<1>4. Types'
  BY <1>1, <1>2, <1>3 DEF IInv, Types, Drives, Items, DevPlaces, Reading, Writing, Seqs, Roles
<1>5. Drive'
  <2>1. Pause(dev.at)' = Pause(dev'.at)
    BY <1>3 DEF Pause
  <2>2. dev'.at = "clock" /\ dev'.delay = 0
    BY <1>1, <1>2
  <2>3. dev'.delay <= Pause(dev'.at)
    BY <1>3, <2>2, PauseAt
  <2>4. Pulls'
    BY <1>1, <1>2, <1>3 DEF IInv, Types, Drive, Pulls, PullsClock, PullsData, Shows, Reading,
       Writing
  <2>5. Talks'
    BY <1>1, <1>2, <1>3 DEF IInv, Types, Drive, Talks, Shifts, Starts, Writing
  <2> QED BY <2>1, <2>3, <2>4, <2>5 DEF Drive
<1>6. host.at = "present"
  <2>1. host.at \in {"idle", "present", "t_ack", "l_clock"}
    BY <1>1, HostWhere
  <2>2. host.at # "idle"
    BY <1>1, <1>3, Lines DEF IInv, Types, Drive, Talks, Computer, Meets, AtIdle, Dev, CheckATN,
       Polls, Reading, Writing, HostSends, HostHears
  <2>3. host.at # "t_ack"
    BY <1>1, <1>3, Lines DEF IInv, Types, Drive, Talks, Computer, Meets, AtAck, Dev, CheckATN,
       Polls, Reading, Writing, HostSends, HostHears, Hears, SoFar
  <2>4. host.at # "l_clock"
    BY <1>1, <1>3, Lines DEF IInv, Types, Drive, Talks, Computer, Meets, AtClock, CheckATN, Polls,
       Reading, Writing, HostSends, HostHears
  <2> QED BY <2>1, <2>2, <2>3, <2>4
<1>7. Computer' /\ Ordered'
  BY <1>1, <1>2, <1>3, <1>6 DEF IInv, Computer, Ordered, CheckATN, Polls, Reading, HostSends
<1>8. host.at = "present" => AtPresent'
  BY <1>1, <1>2, <1>3 DEF IInv, Types, Drive, Pulls, Talks, Computer, Meets, AtPresent, Rest,
     Called, Reading, Starts, Writing
<1> QED BY <1>1, <1>4, <1>5, <1>6, <1>7, <1>8 DEF IInv, Meets

LEMMA ClockSeenKeeps == ASSUME IInv, ClockSeen, Still PROVE IInv'
<1>1. /\ dev.at = "clock" /\ dev.delay = 0 /\ ~CheckATN
      /\ dev' = [dev EXCEPT !.at = "call"]
      /\ UNCHANGED <<atn, host, lag, waited, usingVIC20, offer, accepted, taken>>
  BY SeenAt DEF ClockSeen, At, Goes, Quiet, Still, history
<1>2. /\ dev'.at = "call" /\ dev'.clock = dev.clock /\ dev'.data = dev.data /\ dev'.seq = dev.seq
      /\ dev'.role = dev.role /\ dev'.eoi = dev.eoi /\ dev'.delay = dev.delay
      /\ dev'.count = dev.count
      /\ dev'.byte = dev.byte /\ dev'.bits = dev.bits /\ dev'.left = dev.left
  BY <1>1 DEF IInv, Types, Drives
<1>3. /\ React' = React /\ ValidFor' = ValidFor
      /\ Bits \in Nat /\ Bits > 1 /\ lag \in Nat /\ lag <= React /\ React \in Nat /\ waited \in Nat
      /\ PresentWait \in Nat
      /\ Len(dev.bits) \in Nat /\ Len(host.bits) \in Nat /\ Len(<<>>) = 0
  BY <1>1, Numbers, Times DEF React, ValidFor, IInv, Types
<1>4. Types'
  BY <1>1, <1>2, <1>3 DEF IInv, Types, Drives, Items, DevPlaces, Reading, Writing, Seqs, Roles
<1>5. Drive'
  <2>1. Pause(dev.at)' = Pause(dev'.at)
    BY <1>3 DEF Pause
  <2>2. dev'.at = "call" /\ dev'.delay = 0
    BY <1>1, <1>2
  <2>3. dev'.delay <= Pause(dev'.at)
    BY <1>3, <2>2, PauseAt
  <2>4. Pulls'
    BY <1>1, <1>2, <1>3 DEF IInv, Types, Drive, Pulls, PullsClock, PullsData, Shows, Reading,
       Writing
  <2>5. Talks'
    BY <1>1, <1>2, <1>3 DEF IInv, Types, Drive, Talks, Shifts, Starts, Writing
  <2> QED BY <2>1, <2>3, <2>4, <2>5 DEF Drive
<1>6. host.at = "present"
  BY <1>1, HostWhere
<1>7. Computer' /\ Ordered'
  BY <1>1, <1>2, <1>3, <1>6 DEF IInv, Computer, Ordered, CheckATN, Polls, Reading, HostSends
<1>8. host.at = "present" => AtPresent'
  BY <1>1, <1>2, <1>3 DEF IInv, Types, Drive, Pulls, Talks, Computer, Meets, AtPresent, Rest,
     Called, Reading, Starts, Writing
<1> QED BY <1>1, <1>4, <1>5, <1>6, <1>7, <1>8 DEF IInv, Meets

LEMMA ReceiveKeeps == ASSUME IInv, Receive, Still PROVE IInv'
<1>1. /\ dev.at = "call" /\ dev.delay = 0 /\ ~CheckATN
      /\ dev.seq = "RECEIVE"
      /\ dev' = [dev EXCEPT !.at = "r_clock", !.bits = <<>>]
      /\ UNCHANGED <<atn, host, lag, waited, usingVIC20, offer, accepted, taken>>
  BY SeenAt DEF Receive, At, Quiet, Read, Still, history
<1>2. /\ dev'.at = "r_clock" /\ dev'.clock = dev.clock /\ dev'.data = dev.data /\ dev'.seq = dev.seq
      /\ dev'.role = dev.role /\ dev'.eoi = dev.eoi /\ dev'.delay = dev.delay
      /\ dev'.count = dev.count
      /\ dev'.byte = dev.byte /\ dev'.bits = <<>> /\ dev'.left = dev.left
  BY <1>1 DEF IInv, Types, Drives
<1>3. /\ React' = React /\ ValidFor' = ValidFor
      /\ Bits \in Nat /\ Bits > 1 /\ lag \in Nat /\ lag <= React /\ React \in Nat /\ waited \in Nat
      /\ PresentWait \in Nat
      /\ Len(dev.bits) \in Nat /\ Len(host.bits) \in Nat /\ Len(<<>>) = 0 /\ <<>> \in Seq(BOOLEAN)
  BY <1>1, Numbers, Times DEF React, ValidFor, IInv, Types
<1>4. Types'
  BY <1>1, <1>2, <1>3 DEF IInv, Types, Drives, Items, DevPlaces, Reading, Writing, Seqs, Roles
<1>5. Drive'
  <2>1. Pause(dev.at)' = Pause(dev'.at)
    BY <1>3 DEF Pause
  <2>2. dev'.at = "r_clock" /\ dev'.delay = 0
    BY <1>1, <1>2
  <2>3. dev'.delay <= Pause(dev'.at)
    BY <1>3, <2>2, PauseAt
  <2>4. Pulls'
    BY <1>1, <1>2, <1>3 DEF IInv, Types, Drive, Pulls, PullsClock, PullsData, Shows, Reading,
       Writing
  <2>5. Talks'
    BY <1>1, <1>2, <1>3 DEF IInv, Types, Drive, Talks, Shifts, Starts, Writing
  <2> QED BY <2>1, <2>3, <2>4, <2>5 DEF Drive
<1>6. host.at \in {"present", "t_ack"}
  <2>1. host.at \in {"idle", "present", "t_ack", "l_clock"}
    BY <1>1, HostWhere
  <2>2. host.at # "idle"
    BY <1>1, <1>3, Lines DEF IInv, Types, Drive, Talks, Computer, Meets, AtIdle, Dev, CheckATN,
       Polls, Reading, Writing, HostSends, HostHears
  <2>3. host.at # "l_clock"
    BY <1>1, <1>3, Lines DEF IInv, Types, Drive, Talks, Computer, Meets, AtClock, CheckATN, Polls,
       Reading, Writing, HostSends, HostHears
  <2> QED BY <2>1, <2>2, <2>3
<1>7. Computer' /\ Ordered'
  BY <1>1, <1>2, <1>3, <1>6 DEF IInv, Computer, Ordered, CheckATN, Polls, Reading, HostSends
<1>8. host.at = "present" => AtPresent'
  BY <1>1, <1>2, <1>3 DEF IInv, Types, Drive, Pulls, Talks, Computer, Meets, AtPresent, Rest,
     Called, Reading, Starts, Writing
<1>9. host.at = "t_ack" => AtAck'
  BY <1>1, <1>2, <1>3 DEF IInv, Types, Drive, Pulls, Talks, Computer, Meets, AtAck, Dev, Hears,
     SoFar, Reading, Starts, Writing
<1> QED BY <1>1, <1>4, <1>5, <1>6, <1>7, <1>8, <1>9 DEF IInv, Meets

LEMMA HandleKeeps == ASSUME IInv, Handle, Still PROVE IInv'
<1>1. /\ dev.at = "call" /\ dev.delay = 0 /\ ~CheckATN
      /\ dev.seq = "HANDLE"
      /\ dev' = [dev EXCEPT !.at = "release"]
      /\ UNCHANGED <<atn, host, lag, waited, usingVIC20, offer, accepted, taken>>
  BY SeenAt DEF Handle, At, Goes, Quiet, Still, history
<1>2. /\ dev'.at = "release" /\ dev'.clock = dev.clock /\ dev'.data = dev.data /\ dev'.seq = dev.seq
      /\ dev'.role = dev.role /\ dev'.eoi = dev.eoi /\ dev'.delay = dev.delay
      /\ dev'.count = dev.count
      /\ dev'.byte = dev.byte /\ dev'.bits = dev.bits /\ dev'.left = dev.left
  BY <1>1 DEF IInv, Types, Drives
<1>3. /\ React' = React /\ ValidFor' = ValidFor
      /\ Bits \in Nat /\ Bits > 1 /\ lag \in Nat /\ lag <= React /\ React \in Nat /\ waited \in Nat
      /\ PresentWait \in Nat
      /\ Len(dev.bits) \in Nat /\ Len(host.bits) \in Nat /\ Len(<<>>) = 0
  BY <1>1, Numbers, Times DEF React, ValidFor, IInv, Types
<1>4. Types'
  BY <1>1, <1>2, <1>3 DEF IInv, Types, Drives, Items, DevPlaces, Reading, Writing, Seqs, Roles
<1>5. Drive'
  <2>1. Pause(dev.at)' = Pause(dev'.at)
    BY <1>3 DEF Pause
  <2>2. dev'.at = "release" /\ dev'.delay = 0
    BY <1>1, <1>2
  <2>3. dev'.delay <= Pause(dev'.at)
    BY <1>3, <2>2, PauseAt
  <2>4. Pulls'
    BY <1>1, <1>2, <1>3 DEF IInv, Types, Drive, Pulls, PullsClock, PullsData, Shows, Reading,
       Writing
  <2>5. Talks'
    BY <1>1, <1>2, <1>3 DEF IInv, Types, Drive, Talks, Shifts, Starts, Writing
  <2> QED BY <2>1, <2>3, <2>4, <2>5 DEF Drive
<1>6. host.at = "t_ack"
  <2>1. host.at \in {"idle", "present", "t_ack", "l_clock"}
    BY <1>1, HostWhere
  <2>2. host.at # "idle"
    BY <1>1, <1>3, Lines DEF IInv, Types, Drive, Talks, Computer, Meets, AtIdle, Dev, CheckATN,
       Polls, Reading, Writing, HostSends, HostHears
  <2>3. host.at # "present"
    BY <1>1, <1>3, Lines DEF IInv, Types, Drive, Talks, Computer, Meets, AtPresent, CheckATN, Polls,
       Reading, Writing, HostSends, HostHears, Called
  <2>4. host.at # "l_clock"
    BY <1>1, <1>3, Lines DEF IInv, Types, Drive, Talks, Computer, Meets, AtClock, CheckATN, Polls,
       Reading, Writing, HostSends, HostHears
  <2> QED BY <2>1, <2>2, <2>3, <2>4
<1>7. Computer' /\ Ordered'
  BY <1>1, <1>2, <1>3, <1>6 DEF IInv, Computer, Ordered, CheckATN, Polls, Reading, HostSends
<1>8. host.at = "t_ack" => AtAck'
  BY <1>1, <1>2, <1>3 DEF IInv, Types, Drive, Pulls, Talks, Computer, Meets, AtAck, Dev, Hears,
     SoFar, Reading, Starts, Writing
<1> QED BY <1>1, <1>4, <1>5, <1>6, <1>7, <1>8 DEF IInv, Meets

LEMMA CompleteKeeps == ASSUME IInv, Complete, Still PROVE IInv'
<1>1. /\ dev.at = "call" /\ dev.delay = 0 /\ ~CheckATN
      /\ dev.seq = "COMPLETE"
      /\ dev' = [dev EXCEPT !.clock = FALSE, !.data = FALSE, !.seq = "IDLE"]
      /\ UNCHANGED <<atn, host, lag, waited, usingVIC20, offer, accepted, taken>>
  BY SeenAt DEF Complete, At, Quiet, Still, history
<1>2. /\ dev'.at = dev.at /\ dev'.clock = FALSE /\ dev'.data = FALSE /\ dev'.seq = "IDLE"
      /\ dev'.role = dev.role /\ dev'.eoi = dev.eoi /\ dev'.delay = dev.delay
      /\ dev'.count = dev.count
      /\ dev'.byte = dev.byte /\ dev'.bits = dev.bits /\ dev'.left = dev.left
  BY <1>1 DEF IInv, Types, Drives
<1>3. /\ React' = React /\ ValidFor' = ValidFor
      /\ Bits \in Nat /\ Bits > 1 /\ lag \in Nat /\ lag <= React /\ React \in Nat /\ waited \in Nat
      /\ PresentWait \in Nat
      /\ Len(dev.bits) \in Nat /\ Len(host.bits) \in Nat /\ Len(<<>>) = 0
  BY <1>1, Numbers, Times DEF React, ValidFor, IInv, Types
<1>4. Types'
  BY <1>1, <1>2, <1>3 DEF IInv, Types, Drives, Items, DevPlaces, Reading, Writing, Seqs, Roles
<1>5. Drive'
  <2>1. Pause(dev.at)' = Pause(dev'.at)
    BY <1>3 DEF Pause
  <2>2. dev'.at = "call" /\ dev'.delay = 0
    BY <1>1, <1>2
  <2>3. dev'.delay <= Pause(dev'.at)
    BY <1>3, <2>2, PauseAt
  <2>4. Pulls'
    BY <1>1, <1>2, <1>3 DEF IInv, Types, Drive, Pulls, PullsClock, PullsData, Shows, Reading,
       Writing
  <2>5. Talks'
    BY <1>1, <1>2, <1>3 DEF IInv, Types, Drive, Talks, Shifts, Starts, Writing
  <2> QED BY <2>1, <2>3, <2>4, <2>5 DEF Drive
<1>6. host.at \in {"idle", "present", "l_clock"}
  <2>1. host.at \in {"idle", "present", "t_ack", "l_clock"}
    BY <1>1, HostWhere
  <2>2. host.at # "t_ack"
    BY <1>1, <1>3, Lines DEF IInv, Types, Drive, Talks, Computer, Meets, AtAck, Dev, CheckATN,
       Polls, Reading, Writing, HostSends, HostHears, Hears, SoFar
  <2> QED BY <2>1, <2>2
<1>7. Computer' /\ Ordered'
  BY <1>1, <1>2, <1>3, <1>6 DEF IInv, Computer, Ordered, CheckATN, Polls, Reading, HostSends
<1>8. host.at = "idle" => AtIdle'
  BY <1>1, <1>2, <1>3 DEF IInv, Types, Drive, Pulls, Talks, Computer, Meets, AtIdle, Dev, Reading,
     Starts, Writing
<1>9. host.at = "present" => AtPresent'
  BY <1>1, <1>2, <1>3 DEF IInv, Types, Drive, Pulls, Talks, Computer, Meets, AtPresent, Rest,
     Called, Reading, Starts, Writing
<1>10. host.at = "l_clock" => AtClock'
  BY <1>1, <1>2, <1>3 DEF IInv, Types, Drive, Pulls, Talks, Computer, Meets, AtClock, Reading,
     Starts, Writing
<1> QED BY <1>1, <1>4, <1>5, <1>6, <1>7, <1>8, <1>9, <1>10 DEF IInv, Meets

LEMMA ReadReadyKeeps == ASSUME IInv, ReadReady, Still PROVE IInv'
<1>1. /\ dev.at = "r_clock" /\ dev.delay = 0 /\ ~CheckATN
      /\ ~Clock
      /\ dev' = [dev EXCEPT !.at = "r_data", !.data = FALSE]
      /\ UNCHANGED <<atn, host, lag, waited, usingVIC20, offer, accepted, taken>>
  BY SeenAt DEF ReadReady, At, Quiet, Still, history
<1>2. /\ dev'.at = "r_data" /\ dev'.clock = dev.clock /\ dev'.data = FALSE /\ dev'.seq = dev.seq
      /\ dev'.role = dev.role /\ dev'.eoi = dev.eoi /\ dev'.delay = dev.delay
      /\ dev'.count = dev.count
      /\ dev'.byte = dev.byte /\ dev'.bits = dev.bits /\ dev'.left = dev.left
  BY <1>1 DEF IInv, Types, Drives
<1>3. /\ React' = React /\ ValidFor' = ValidFor
      /\ Bits \in Nat /\ Bits > 1 /\ lag \in Nat /\ lag <= React /\ React \in Nat /\ waited \in Nat
      /\ PresentWait \in Nat
      /\ Len(dev.bits) \in Nat /\ Len(host.bits) \in Nat /\ Len(<<>>) = 0
  BY <1>1, Numbers, Times DEF React, ValidFor, IInv, Types
<1>4. Types'
  BY <1>1, <1>2, <1>3 DEF IInv, Types, Drives, Items, DevPlaces, Reading, Writing, Seqs, Roles
<1>5. Drive'
  <2>1. Pause(dev.at)' = Pause(dev'.at)
    BY <1>3 DEF Pause
  <2>2. dev'.at = "r_data" /\ dev'.delay = 0
    BY <1>1, <1>2
  <2>3. dev'.delay <= Pause(dev'.at)
    BY <1>3, <2>2, PauseAt
  <2>4. Pulls'
    BY <1>1, <1>2, <1>3 DEF IInv, Types, Drive, Pulls, PullsClock, PullsData, Shows, Reading,
       Writing
  <2>5. Talks'
    BY <1>1, <1>2, <1>3 DEF IInv, Types, Drive, Talks, Shifts, Starts, Writing
  <2> QED BY <2>1, <2>3, <2>4, <2>5 DEF Drive
<1>6. host.at \in {"idle", "t_ready"}
  <2>1. host.at \in {"idle", "present", "t_next", "t_ready", "t_ack"}
    BY <1>1, HostWhere
  <2>2. host.at # "present"
    BY <1>1, <1>3, Lines DEF IInv, Types, Drive, Talks, Computer, Clock, Meets, AtPresent, CheckATN,
       Polls, Reading, Writing, HostSends, HostHears, Called
  <2>3. host.at # "t_next"
    BY <1>1, <1>3, Lines DEF IInv, Types, Drive, Talks, Computer, Clock, Meets, AtNext, Dev,
       CheckATN, Polls, Reading, Writing, HostSends, HostHears
  <2>4. host.at # "t_ack"
    BY <1>1, <1>3, Lines DEF IInv, Types, Drive, Talks, Computer, Clock, Meets, AtAck, Dev,
       CheckATN, Polls, Reading, Writing, HostSends, HostHears, Hears, SoFar
  <2> QED BY <2>1, <2>2, <2>3, <2>4
<1>7. Computer' /\ Ordered'
  BY <1>1, <1>2, <1>3, <1>6 DEF IInv, Computer, Ordered, CheckATN, Polls, Reading, HostSends
<1>8. host.at = "idle" => AtIdle'
  BY <1>1, <1>2, <1>3 DEF IInv, Types, Drive, Pulls, Talks, Computer, Meets, AtIdle, Dev, Reading,
     Starts, Writing
<1>9. host.at = "t_ready" => AtReady'
  BY <1>1, <1>2, <1>3 DEF IInv, Types, Drive, Pulls, Talks, Computer, Meets, AtReady, Hears, Begun,
     Reading, Starts, Writing
<1> QED BY <1>1, <1>4, <1>5, <1>6, <1>7, <1>8, <1>9 DEF IInv, Meets

LEMMA ReadStartKeeps == ASSUME IInv, ReadStart, Still PROVE IInv'
<1>1. /\ dev.at = "r_data" /\ dev.delay = 0 /\ ~CheckATN
      /\ ~Data
      /\ dev' = [dev EXCEPT !.at = "r_time", !.count = 0]
      /\ UNCHANGED <<atn, host, lag, waited, usingVIC20, offer, accepted, taken>>
  BY SeenAt DEF ReadStart, At, Quiet, Still, history
<1>2. /\ dev'.at = "r_time" /\ dev'.clock = dev.clock /\ dev'.data = dev.data /\ dev'.seq = dev.seq
      /\ dev'.role = dev.role /\ dev'.eoi = dev.eoi /\ dev'.delay = dev.delay /\ dev'.count = 0
      /\ dev'.byte = dev.byte /\ dev'.bits = dev.bits /\ dev'.left = dev.left
  BY <1>1 DEF IInv, Types, Drives
<1>3. /\ React' = React /\ ValidFor' = ValidFor
      /\ Bits \in Nat /\ Bits > 1 /\ lag \in Nat /\ lag <= React /\ React \in Nat /\ waited \in Nat
      /\ PresentWait \in Nat
      /\ Len(dev.bits) \in Nat /\ Len(host.bits) \in Nat /\ Len(<<>>) = 0
  BY <1>1, Numbers, Times DEF React, ValidFor, IInv, Types
<1>4. Types'
  BY <1>1, <1>2, <1>3 DEF IInv, Types, Drives, Items, DevPlaces, Reading, Writing, Seqs, Roles
<1>5. Drive'
  <2>1. Pause(dev.at)' = Pause(dev'.at)
    BY <1>3 DEF Pause
  <2>2. dev'.at = "r_time" /\ dev'.delay = 0
    BY <1>1, <1>2
  <2>3. dev'.delay <= Pause(dev'.at)
    BY <1>3, <2>2, PauseAt
  <2>4. Pulls'
    BY <1>1, <1>2, <1>3 DEF IInv, Types, Drive, Pulls, PullsClock, PullsData, Shows, Reading,
       Writing
  <2>5. Talks'
    BY <1>1, <1>2, <1>3 DEF IInv, Types, Drive, Talks, Shifts, Starts, Writing
  <2> QED BY <2>1, <2>3, <2>4, <2>5 DEF Drive
<1>6. host.at \in {"idle", "t_ready"}
  <2>1. host.at \in {"idle", "present", "t_ready"}
    BY <1>1, HostWhere
  <2>2. host.at # "present"
    BY <1>1, <1>3, Lines DEF IInv, Types, Drive, Talks, Computer, Data, Meets, AtPresent, CheckATN,
       Polls, Reading, Writing, HostSends, HostHears, Called
  <2> QED BY <2>1, <2>2
<1>7. Computer' /\ Ordered'
  BY <1>1, <1>2, <1>3, <1>6 DEF IInv, Computer, Ordered, CheckATN, Polls, Reading, HostSends
<1>8. host.at = "idle" => AtIdle'
  BY <1>1, <1>2, <1>3 DEF IInv, Types, Drive, Pulls, Talks, Computer, Meets, AtIdle, Dev, Reading,
     Starts, Writing
<1>9. host.at = "t_ready" => AtReady'
  BY <1>1, <1>2, <1>3 DEF IInv, Types, Drive, Pulls, Talks, Computer, Meets, AtReady, Hears, Begun,
     Reading, Starts, Writing
<1> QED BY <1>1, <1>4, <1>5, <1>6, <1>7, <1>8, <1>9 DEF IInv, Meets

LEMMA ReadEoiKeeps == ASSUME IInv, ReadEoi, Still PROVE IInv'
<1>1. /\ dev.at = "r_eoi" /\ dev.delay = 0 /\ ~CheckATN
      /\ dev' = [dev EXCEPT !.at = "r_first", !.data = FALSE]
      /\ UNCHANGED <<atn, host, lag, waited, usingVIC20, offer, accepted, taken>>
  BY SeenAt DEF ReadEoi, At, Quiet, Still, history
<1>2. /\ dev'.at = "r_first" /\ dev'.clock = dev.clock /\ dev'.data = FALSE /\ dev'.seq = dev.seq
      /\ dev'.role = dev.role /\ dev'.eoi = dev.eoi /\ dev'.delay = dev.delay
      /\ dev'.count = dev.count
      /\ dev'.byte = dev.byte /\ dev'.bits = dev.bits /\ dev'.left = dev.left
  BY <1>1 DEF IInv, Types, Drives
<1>3. /\ React' = React /\ ValidFor' = ValidFor
      /\ Bits \in Nat /\ Bits > 1 /\ lag \in Nat /\ lag <= React /\ React \in Nat /\ waited \in Nat
      /\ PresentWait \in Nat
      /\ Len(dev.bits) \in Nat /\ Len(host.bits) \in Nat /\ Len(<<>>) = 0 /\ Ticks(73) \in Nat
  BY <1>1, Numbers, Times DEF React, ValidFor, IInv, Types
<1>4. Types'
  BY <1>1, <1>2, <1>3 DEF IInv, Types, Drives, Items, DevPlaces, Reading, Writing, Seqs, Roles
<1>5. Drive'
  <2>1. Pause(dev.at)' = Pause(dev'.at)
    BY <1>3 DEF Pause
  <2>2. dev'.at = "r_first" /\ dev'.delay = 0
    BY <1>1, <1>2
  <2>3. dev'.delay <= Pause(dev'.at)
    BY <1>3, <2>2, PauseAt
  <2>4. Pulls'
    BY <1>1, <1>2, <1>3 DEF IInv, Types, Drive, Pulls, PullsClock, PullsData, Shows, Reading,
       Writing
  <2>5. Talks'
    BY <1>1, <1>2, <1>3 DEF IInv, Types, Drive, Talks, Shifts, Starts, Writing
  <2> QED BY <2>1, <2>3, <2>4, <2>5 DEF Drive
<1>6. host.at \in {"idle", "present", "t_eoi_ack"}
  <2>1. host.at \in {"idle", "present", "t_eoi", "t_eoi_ack"}
    BY <1>1, HostWhere
  <2>2. host.at # "t_eoi"
    BY <1>1, <1>3, Lines DEF IInv, Types, Drive, Talks, Computer, Meets, AtEoi, Lasts, CheckATN,
       Polls, Reading, Writing, HostSends, HostHears, Begun, Hears
  <2> QED BY <2>1, <2>2
<1>7. Computer' /\ Ordered'
  BY <1>1, <1>2, <1>3, <1>6 DEF IInv, Computer, Ordered, CheckATN, Polls, Reading, HostSends
<1>8. host.at = "idle" => AtIdle'
  BY <1>1, <1>2, <1>3 DEF IInv, Types, Drive, Pulls, Talks, Computer, Meets, AtIdle, Dev, Reading,
     Starts, Writing
<1>9. host.at = "present" => AtPresent'
  BY <1>1, <1>2, <1>3 DEF IInv, Types, Drive, Pulls, Talks, Computer, Meets, AtPresent, Rest,
     Called, Reading, Starts, Writing
<1>10. host.at = "t_eoi_ack" => AtEoiAck'
  BY <1>1, <1>2, <1>3 DEF IInv, Types, Drive, Pulls, Talks, Computer, Meets, AtEoiAck, Hears, Begun,
     Reading, Starts, Writing
<1> QED BY <1>1, <1>4, <1>5, <1>6, <1>7, <1>8, <1>9, <1>10 DEF IInv, Meets

LEMMA ReadEoiSeenKeeps == ASSUME IInv, ReadEoiSeen, Still PROVE IInv'
<1>1. /\ dev.at = "r_first" /\ dev.delay = 0 /\ ~CheckATN
      /\ Clock
      /\ dev' = [dev EXCEPT !.at = "r_bit", !.eoi = TRUE]
      /\ UNCHANGED <<atn, host, lag, waited, usingVIC20, offer, accepted, taken>>
  BY SeenAt DEF ReadEoiSeen, At, Quiet, Still, history
<1>2. /\ dev'.at = "r_bit" /\ dev'.clock = dev.clock /\ dev'.data = dev.data /\ dev'.seq = dev.seq
      /\ dev'.role = dev.role /\ dev'.eoi = TRUE /\ dev'.delay = dev.delay /\ dev'.count = dev.count
      /\ dev'.byte = dev.byte /\ dev'.bits = dev.bits /\ dev'.left = dev.left
  BY <1>1 DEF IInv, Types, Drives
<1>3. /\ React' = React /\ ValidFor' = ValidFor
      /\ Bits \in Nat /\ Bits > 1 /\ lag \in Nat /\ lag <= React /\ React \in Nat /\ waited \in Nat
      /\ PresentWait \in Nat
      /\ Len(dev.bits) \in Nat /\ Len(host.bits) \in Nat /\ Len(<<>>) = 0
  BY <1>1, Numbers, Times DEF React, ValidFor, IInv, Types
<1>4. Types'
  BY <1>1, <1>2, <1>3 DEF IInv, Types, Drives, Items, DevPlaces, Reading, Writing, Seqs, Roles
<1>5. Drive'
  <2>1. Pause(dev.at)' = Pause(dev'.at)
    BY <1>3 DEF Pause
  <2>2. dev'.at = "r_bit" /\ dev'.delay = 0
    BY <1>1, <1>2
  <2>3. dev'.delay <= Pause(dev'.at)
    BY <1>3, <2>2, PauseAt
  <2>4. Pulls'
    BY <1>1, <1>2, <1>3 DEF IInv, Types, Drive, Pulls, PullsClock, PullsData, Shows, Reading,
       Writing
  <2>5. Talks'
    BY <1>1, <1>2, <1>3 DEF IInv, Types, Drive, Talks, Shifts, Starts, Writing
  <2> QED BY <2>1, <2>3, <2>4, <2>5 DEF Drive
<1>6. host.at = "t_set"
  <2>1. host.at \in {"idle", "present", "t_eoi_ack", "t_set"}
    BY <1>1, HostWhere
  <2>2. host.at # "idle"
    BY <1>1, <1>3, Lines DEF IInv, Types, Drive, Talks, Computer, Clock, Meets, AtIdle, Dev,
       CheckATN, Polls, Reading, Writing, HostSends, HostHears, Begun, Hears, SoFar
  <2>3. host.at # "present"
    BY <1>1, <1>3, Lines DEF IInv, Types, Drive, Talks, Computer, Clock, Meets, AtPresent, CheckATN,
       Polls, Reading, Writing, HostSends, HostHears, Called, Begun, Hears, SoFar
  <2>4. host.at # "t_eoi_ack"
    BY <1>1, <1>3, Lines DEF IInv, Types, Drive, Talks, Computer, Clock, Meets, AtEoiAck, CheckATN,
       Polls, Reading, Writing, HostSends, HostHears, Begun, Hears, SoFar
  <2> QED BY <2>1, <2>2, <2>3, <2>4
<1>7. Computer' /\ Ordered'
  BY <1>1, <1>2, <1>3, <1>6 DEF IInv, Computer, Ordered, CheckATN, Polls, Reading, HostSends
<1>8. host.at = "t_set" => AtSet'
  <2>1. SUFFICES ASSUME host.at = "t_set" PROVE AtSet'
    OBVIOUS
  <2>2. Begun /\ lag = 0 /\ host.eoi /\ host.bits = <<>>
    BY <1>1, <2>1 DEF IInv, Meets, AtSet
  <2>3. ~accepted /\ Hears' /\ dev'.eoi = host.eoi
    BY <1>1, <1>2, <2>2 DEF Begun, Hears
  <2>4. SoFar(Len(host.bits))'
    BY <1>1, <1>2, <1>3, <2>2 DEF Begun, SoFar
  <2> QED BY <1>1, <1>2, <2>3, <2>4 DEF AtSet
<1> QED BY <1>1, <1>4, <1>5, <1>6, <1>7, <1>8 DEF IInv, Meets

LEMMA ReadBitKeeps == ASSUME IInv, ReadBit, Still PROVE IInv'
<1>1. /\ dev.at = "r_bit" /\ dev.delay = 0 /\ ~CheckATN
      /\ ~Clock
      /\ dev' = [dev EXCEPT !.at = "r_bit_end", !.bits = Append(dev.bits, ~Data)]
      /\ UNCHANGED <<atn, host, lag, waited, usingVIC20, offer, accepted, taken>>
  BY SeenAt DEF ReadBit, At, Quiet, Still, history
<1>2. /\ dev'.at = "r_bit_end" /\ dev'.clock = dev.clock /\ dev'.data = dev.data
      /\ dev'.seq = dev.seq
      /\ dev'.role = dev.role /\ dev'.eoi = dev.eoi /\ dev'.delay = dev.delay
      /\ dev'.count = dev.count
      /\ dev'.byte = dev.byte /\ dev'.bits = Append(dev.bits, ~Data) /\ dev'.left = dev.left
  BY <1>1 DEF IInv, Types, Drives
<1>3. /\ React' = React /\ ValidFor' = ValidFor
      /\ Bits \in Nat /\ Bits > 1 /\ lag \in Nat /\ lag <= React /\ React \in Nat /\ waited \in Nat
      /\ PresentWait \in Nat
      /\ Len(dev.bits) \in Nat /\ Len(host.bits) \in Nat /\ Len(<<>>) = 0
      /\ Append(dev.bits, ~Data) \in Seq(BOOLEAN)
  BY <1>1, Numbers, Times DEF React, ValidFor, IInv, Types
<1>4. Types'
  BY <1>1, <1>2, <1>3 DEF IInv, Types, Drives, Items, DevPlaces, Reading, Writing, Seqs, Roles
<1>5. Drive'
  <2>1. Pause(dev.at)' = Pause(dev'.at)
    BY <1>3 DEF Pause
  <2>2. dev'.at = "r_bit_end" /\ dev'.delay = 0
    BY <1>1, <1>2
  <2>3. dev'.delay <= Pause(dev'.at)
    BY <1>3, <2>2, PauseAt
  <2>4. Pulls'
    BY <1>1, <1>2, <1>3 DEF IInv, Types, Drive, Pulls, PullsClock, PullsData, Shows, Reading,
       Writing
  <2>5. Talks'
    BY <1>1, <1>2, <1>3 DEF IInv, Types, Drive, Talks, Shifts, Starts, Writing
  <2> QED BY <2>1, <2>3, <2>4, <2>5 DEF Drive
<1>6. host.at = "t_low"
  <2>1. host.at \in {"present", "t_set", "t_valid", "t_low"}
    BY <1>1, HostWhere
  <2>2. host.at # "present"
    BY <1>1, <1>3, Lines DEF IInv, Types, Drive, Talks, Computer, Clock, Data, Meets, AtPresent,
       CheckATN, Polls, Reading, Writing, HostSends, HostHears, Called, Hears, SoFar
  <2>3. host.at # "t_set"
    BY <1>1, <1>3, Lines DEF IInv, Types, Drive, Talks, Computer, Clock, Data, Meets, AtSet,
       CheckATN, Polls, Reading, Writing, HostSends, HostHears, Begun, Hears, SoFar
  <2>4. host.at # "t_valid"
    BY <1>1, <1>3, Lines DEF IInv, Types, Drive, Talks, Computer, Clock, Data, Meets, AtValid,
       CheckATN, Polls, Reading, Writing, HostSends, HostHears, Hears, SoFar
  <2> QED BY <2>1, <2>2, <2>3, <2>4
<1>7. Computer' /\ Ordered'
  BY <1>1, <1>2, <1>3, <1>6 DEF IInv, Computer, Ordered, CheckATN, Polls, Reading, HostSends
<1>8. host.at = "t_low" => AtLow'
  <2>1. SUFFICES ASSUME host.at = "t_low" PROVE AtLow'
    OBVIOUS
  <2>2. ~accepted /\ Hears /\ dev.eoi = host.eoi /\ SoFar(Len(host.bits))
    BY <1>1, <2>1 DEF IInv, Meets, AtLow
  <2>3. Data = ~host.byte[Len(host.bits) + 1] /\ Len(host.bits) < Bits
    BY <1>1, <2>1 DEF IInv, Drive, Pulls, PullsData, Reading, Computer, HostShows, HostSends, Data
  <2>4. host.byte[Len(host.bits) + 1] \in BOOLEAN
    BY <1>3, <2>3 DEF IInv, Types, Hosts, Byte
  <2>5. dev'.bits = Append(dev.bits, host.byte[Len(host.bits) + 1])
    BY <1>2, <2>3, <2>4
  <2>6. SoFar(Len(host.bits) + 1)'
    <3> DEFINE n == Len(host.bits)
               x == host.byte[n + 1]
    <3>1. dev.bits \in Seq(BOOLEAN) /\ x \in BOOLEAN /\ n \in Nat /\ Len(dev.bits) = n
      BY <2>2, <2>4, Numbers DEF SoFar, IInv
    <3>2. Len(dev'.bits) = n + 1 /\ \A i \in 1 .. n : dev'.bits[i] = dev.bits[i]
      BY <2>5, <3>1
    <3>3. dev'.bits[n + 1] = x
      BY <2>5, <3>1
    <3>4. \A i \in 1 .. n : dev.bits[i] = host.byte[i]
      BY <2>2 DEF SoFar
    <3>5. ASSUME NEW i \in 1 .. n + 1 PROVE dev'.bits[i] = host.byte[i]
      <4>1. CASE i = n + 1
        BY <3>3, <4>1
      <4>2. CASE i # n + 1
        BY <3>1, <3>2, <3>4, <4>2
      <4> QED BY <4>1, <4>2
    <3> QED BY <1>1, <3>2, <3>5 DEF SoFar
  <2> QED BY <1>1, <1>2, <2>2, <2>6 DEF AtLow, Hears
<1> QED BY <1>1, <1>4, <1>5, <1>6, <1>7, <1>8 DEF IInv, Meets

LEMMA WriteReadyKeeps == ASSUME IInv, WriteReady, Still PROVE IInv'
<1>1. /\ dev.at = "w_start" /\ dev.delay = 0 /\ ~CheckATN
      /\ dev' = [dev EXCEPT !.at = "w_ready", !.clock = FALSE]
      /\ UNCHANGED <<atn, host, lag, waited, usingVIC20, offer, accepted, taken>>
  BY SeenAt DEF WriteReady, At, Quiet, Still, history
<1>2. /\ dev'.at = "w_ready" /\ dev'.clock = FALSE /\ dev'.data = dev.data /\ dev'.seq = dev.seq
      /\ dev'.role = dev.role /\ dev'.eoi = dev.eoi /\ dev'.delay = dev.delay
      /\ dev'.count = dev.count
      /\ dev'.byte = dev.byte /\ dev'.bits = dev.bits /\ dev'.left = dev.left
  BY <1>1 DEF IInv, Types, Drives
<1>3. /\ React' = React /\ ValidFor' = ValidFor
      /\ Bits \in Nat /\ Bits > 1 /\ lag \in Nat /\ lag <= React /\ React \in Nat /\ waited \in Nat
      /\ PresentWait \in Nat
      /\ Len(dev.bits) \in Nat /\ Len(host.bits) \in Nat /\ Len(<<>>) = 0 /\ Ticks(50) \in Nat
  BY <1>1, Numbers, Times DEF React, ValidFor, IInv, Types
<1>4. Types'
  BY <1>1, <1>2, <1>3 DEF IInv, Types, Drives, Items, DevPlaces, Reading, Writing, Seqs, Roles
<1>5. Drive'
  <2>1. Pause(dev.at)' = Pause(dev'.at)
    BY <1>3 DEF Pause
  <2>2. dev'.at = "w_ready" /\ dev'.delay = 0
    BY <1>1, <1>2
  <2>3. dev'.delay <= Pause(dev'.at)
    BY <1>3, <2>2, PauseAt
  <2>4. Pulls'
    BY <1>1, <1>2, <1>3 DEF IInv, Types, Drive, Pulls, PullsClock, PullsData, Shows, Reading,
       Writing
  <2>5. Talks'
    BY <1>1, <1>2, <1>3 DEF IInv, Types, Drive, Talks, Shifts, Starts, Writing
  <2> QED BY <2>1, <2>3, <2>4, <2>5 DEF Drive
<1>6. host.at \in {"present", "l_clock"}
  <2>1. host.at \in {"present", "l_turn", "l_clock"}
    BY <1>1, HostWhere
  <2>2. host.at # "l_turn"
    BY <1>1, <1>3, Lines DEF IInv, Types, Drive, Talks, Computer, Meets, AtTurn, Dev, Lasts,
       CheckATN, Polls, Reading, Writing, HostSends, HostHears
  <2> QED BY <2>1, <2>2
<1>7. Computer' /\ Ordered'
  BY <1>1, <1>2, <1>3, <1>6 DEF IInv, Computer, Ordered, CheckATN, Polls, Reading, HostSends
<1>8. host.at = "present" => AtPresent'
  BY <1>1, <1>2, <1>3 DEF IInv, Types, Drive, Pulls, Talks, Computer, Meets, AtPresent, Rest,
     Called, Reading, Starts, Writing
<1>9. host.at = "l_clock" => AtClock'
  BY <1>1, <1>2, <1>3 DEF IInv, Types, Drive, Pulls, Talks, Computer, Meets, AtClock, Reading,
     Starts, Writing
<1> QED BY <1>1, <1>4, <1>5, <1>6, <1>7, <1>8, <1>9 DEF IInv, Meets

LEMMA WriteEoiKeeps == ASSUME IInv, WriteEoi, Still PROVE IInv'
<1>1. /\ dev.at = "w_eoi" /\ dev.delay = 0 /\ ~CheckATN
      /\ Data
      /\ dev' = [dev EXCEPT !.at = "w_eoi_ack"]
      /\ UNCHANGED <<atn, host, lag, waited, usingVIC20, offer, accepted, taken>>
  BY SeenAt DEF WriteEoi, At, Goes, Quiet, Still, history
<1>2. /\ dev'.at = "w_eoi_ack" /\ dev'.clock = dev.clock /\ dev'.data = dev.data
      /\ dev'.seq = dev.seq
      /\ dev'.role = dev.role /\ dev'.eoi = dev.eoi /\ dev'.delay = dev.delay
      /\ dev'.count = dev.count
      /\ dev'.byte = dev.byte /\ dev'.bits = dev.bits /\ dev'.left = dev.left
  BY <1>1 DEF IInv, Types, Drives
<1>3. /\ React' = React /\ ValidFor' = ValidFor
      /\ Bits \in Nat /\ Bits > 1 /\ lag \in Nat /\ lag <= React /\ React \in Nat /\ waited \in Nat
      /\ PresentWait \in Nat
      /\ Len(dev.bits) \in Nat /\ Len(host.bits) \in Nat /\ Len(<<>>) = 0
  BY <1>1, Numbers, Times DEF React, ValidFor, IInv, Types
<1>4. Types'
  BY <1>1, <1>2, <1>3 DEF IInv, Types, Drives, Items, DevPlaces, Reading, Writing, Seqs, Roles
<1>5. Drive'
  <2>1. Pause(dev.at)' = Pause(dev'.at)
    BY <1>3 DEF Pause
  <2>2. dev'.at = "w_eoi_ack" /\ dev'.delay = 0
    BY <1>1, <1>2
  <2>3. dev'.delay <= Pause(dev'.at)
    BY <1>3, <2>2, PauseAt
  <2>4. Pulls'
    BY <1>1, <1>2, <1>3 DEF IInv, Types, Drive, Pulls, PullsClock, PullsData, Shows, Reading,
       Writing
  <2>5. Talks'
    BY <1>1, <1>2, <1>3 DEF IInv, Types, Drive, Talks, Shifts, Starts, Writing
  <2> QED BY <2>1, <2>3, <2>4, <2>5 DEF Drive
<1>6. host.at = "l_eoi"
  <2>1. host.at \in {"l_time", "l_eoi"}
    BY <1>1, HostWhere
  <2>2. host.at # "l_time"
    <3>1. ASSUME host.at = "l_time" PROVE FALSE
      <4>1. ~host.data
        BY <3>1 DEF IInv, Computer, HostData, HostShows
      <4>2. ~dev.data
        BY <1>1 DEF IInv, Drive, Pulls, Writing, Shows
      <4> QED BY <1>1, <4>1, <4>2 DEF Data
    <3> QED BY <3>1
  <2> QED BY <2>1, <2>2
<1>7. Computer' /\ Ordered'
  BY <1>1, <1>2, <1>3, <1>6 DEF IInv, Computer, Ordered, CheckATN, Polls, Reading, HostSends
<1>8. host.at = "l_eoi" => AtAnswer'
  BY <1>1, <1>2, <1>3 DEF IInv, Types, Drive, Pulls, Talks, Computer, Meets, AtAnswer, Reading,
     Starts, Writing
<1> QED BY <1>1, <1>4, <1>5, <1>6, <1>7, <1>8 DEF IInv, Meets

LEMMA WriteFreeKeeps == ASSUME IInv, WriteFree, Still PROVE IInv'
<1>1. /\ dev.at = "w_free" /\ dev.delay = 0 /\ ~CheckATN
      /\ ~Data
      /\ dev' = [dev EXCEPT !.at = "w_set", !.delay = Ticks(66)]
      /\ UNCHANGED <<atn, host, lag, waited, usingVIC20, offer, accepted, taken>>
  <2>1. 21 + 45 = 66
    OBVIOUS
  <2> QED BY <2>1, SeenAt DEF WriteFree, At, Quiet, Still, history
<1>2. /\ dev'.at = "w_set" /\ dev'.clock = dev.clock /\ dev'.data = dev.data /\ dev'.seq = dev.seq
      /\ dev'.role = dev.role /\ dev'.eoi = dev.eoi /\ dev'.delay = Ticks(66)
      /\ dev'.count = dev.count
      /\ dev'.byte = dev.byte /\ dev'.bits = dev.bits /\ dev'.left = dev.left
  BY <1>1 DEF IInv, Types, Drives
<1>3. /\ React' = React /\ ValidFor' = ValidFor
      /\ Bits \in Nat /\ Bits > 1 /\ lag \in Nat /\ lag <= React /\ React \in Nat /\ waited \in Nat
      /\ PresentWait \in Nat
      /\ Len(dev.bits) \in Nat /\ Len(host.bits) \in Nat /\ Len(<<>>) = 0 /\ Ticks(66) \in Nat
      /\ Ticks(66) > React
  BY <1>1, Numbers, Times DEF React, ValidFor, IInv, Types
<1>4. Types'
  BY <1>1, <1>2, <1>3 DEF IInv, Types, Drives, Items, DevPlaces, Reading, Writing, Seqs, Roles
<1>5. Drive'
  <2>1. Pause(dev.at)' = Pause(dev'.at)
    BY <1>3 DEF Pause
  <2>2. dev'.at = "w_set" /\ dev'.delay = Ticks(66)
    BY <1>1, <1>2
  <2>3. dev'.delay <= Pause(dev'.at)
    BY <1>3, <2>2, PauseAt
  <2>4. Pulls'
    BY <1>1, <1>2, <1>3 DEF IInv, Types, Drive, Pulls, PullsClock, PullsData, Shows, Reading,
       Writing
  <2>5. Talks'
    BY <1>1, <1>2, <1>3 DEF IInv, Types, Drive, Talks, Shifts, Starts, Writing
  <2> QED BY <2>1, <2>3, <2>4, <2>5 DEF Drive
<1>6. host.at \in {"l_time", "l_first", "l_bit"}
  BY <1>1, HostWhere
<1>7. Computer' /\ Ordered'
  BY <1>1, <1>2, <1>3, <1>6 DEF IInv, Computer, Ordered, CheckATN, Polls, Reading, HostSends
<1>8. host.at = "l_time" => AtTime'
  BY <1>1, <1>2, <1>3 DEF IInv, Types, Drive, Pulls, Talks, Computer, Meets, AtTime, Lasts, Reading,
     Starts, Writing
<1>9. host.at = "l_first" => AtFirst'
  BY <1>1, <1>2, <1>3 DEF IInv, Types, Drive, Pulls, Talks, Computer, Meets, AtFirst, Lasts,
     Reading, Starts, Writing
<1>10. host.at = "l_bit" => AtBit'
  BY <1>1, <1>2, <1>3 DEF IInv, Types, Drive, Pulls, Talks, Computer, Meets, AtBit, Lasts, Heard,
     Reading, Starts, Writing
<1> QED BY <1>1, <1>4, <1>5, <1>6, <1>7, <1>8, <1>9, <1>10 DEF IInv, Meets

LEMMA WriteSetKeeps == ASSUME IInv, WriteSet, Still PROVE IInv'
<1>1. /\ dev.at = "w_set" /\ dev.delay = 0 /\ ~CheckATN
      /\ dev' = [dev EXCEPT !.at = "w_valid", !.delay = Ticks(22),
                            !.data = ~dev.byte[Len(dev.bits) + 1]]
      /\ UNCHANGED <<atn, host, lag, waited, usingVIC20, offer, accepted, taken>>
  BY SeenAt DEF WriteSet, At, Quiet, Still, history
<1>2. /\ dev'.at = "w_valid" /\ dev'.clock = dev.clock /\ dev'.data = ~dev.byte[Len(dev.bits) + 1]
      /\ dev'.seq = dev.seq
      /\ dev'.role = dev.role /\ dev'.eoi = dev.eoi /\ dev'.delay = Ticks(22)
      /\ dev'.count = dev.count
      /\ dev'.byte = dev.byte /\ dev'.bits = dev.bits /\ dev'.left = dev.left
  BY <1>1 DEF IInv, Types, Drives
<1>3. /\ React' = React /\ ValidFor' = ValidFor
      /\ Bits \in Nat /\ Bits > 1 /\ lag \in Nat /\ lag <= React /\ React \in Nat /\ waited \in Nat
      /\ PresentWait \in Nat
      /\ Len(dev.bits) \in Nat /\ Len(host.bits) \in Nat /\ Len(<<>>) = 0 /\ Ticks(22) \in Nat
  BY <1>1, Numbers, Times DEF React, ValidFor, IInv, Types
<1>4. Types'
  BY <1>1, <1>2, <1>3 DEF IInv, Types, Drives, Items, DevPlaces, Reading, Writing, Seqs, Roles
<1>5. Drive'
  <2>1. Pause(dev.at)' = Pause(dev'.at)
    BY <1>3 DEF Pause
  <2>2. dev'.at = "w_valid" /\ dev'.delay = Ticks(22)
    BY <1>1, <1>2
  <2>3. dev'.delay <= Pause(dev'.at)
    BY <1>3, <2>2, PauseAt
  <2>4. Pulls'
    BY <1>1, <1>2, <1>3 DEF IInv, Types, Drive, Pulls, PullsClock, PullsData, Shows, Reading,
       Writing
  <2>5. Talks'
    BY <1>1, <1>2, <1>3 DEF IInv, Types, Drive, Talks, Shifts, Starts, Writing
  <2> QED BY <2>1, <2>3, <2>4, <2>5 DEF Drive
<1>6. host.at = "l_bit"
  <2>1. host.at \in {"l_time", "l_first", "l_bit", "l_bit_end"}
    BY <1>1, HostWhere
  <2>2. host.at # "l_time"
    BY <1>1, <1>3, Lines DEF IInv, Types, Drive, Talks, Computer, Meets, AtTime, Lasts, CheckATN,
       Polls, Reading, Writing, HostSends, HostHears
  <2>3. host.at # "l_first"
    BY <1>1, <1>3, Lines DEF IInv, Types, Drive, Talks, Computer, Meets, AtFirst, Lasts, CheckATN,
       Polls, Reading, Writing, HostSends, HostHears
  <2>4. host.at # "l_bit_end"
    BY <1>1, <1>3, Lines DEF IInv, Types, Drive, Talks, Computer, Meets, AtBitEnd, Lasts, CheckATN,
       Polls, Reading, Writing, HostSends, HostHears
  <2> QED BY <2>1, <2>2, <2>3, <2>4
<1>7. Computer' /\ Ordered'
  BY <1>1, <1>2, <1>3, <1>6 DEF IInv, Computer, Ordered, CheckATN, Polls, Reading, HostSends
<1>8. host.at = "l_bit" => AtBit'
  BY <1>1, <1>2, <1>3 DEF IInv, Types, Drive, Pulls, Talks, Computer, Meets, AtBit, Lasts, Heard,
     Reading, Starts, Writing
<1> QED BY <1>1, <1>4, <1>5, <1>6, <1>7, <1>8 DEF IInv, Meets

LEMMA WriteValidKeeps == ASSUME IInv, WriteValid, Still PROVE IInv'
<1>1. /\ dev.at = "w_valid" /\ dev.delay = 0 /\ ~CheckATN
      /\ dev' = [dev EXCEPT !.at = "w_low", !.delay = Ticks(ValidFor), !.clock = FALSE]
      /\ UNCHANGED <<atn, host, lag, waited, usingVIC20, offer, accepted, taken>>
  BY SeenAt DEF WriteValid, At, Quiet, Still, history
<1>2. /\ dev'.at = "w_low" /\ dev'.clock = FALSE /\ dev'.data = dev.data /\ dev'.seq = dev.seq
      /\ dev'.role = dev.role /\ dev'.eoi = dev.eoi /\ dev'.delay = Ticks(ValidFor)
      /\ dev'.count = dev.count
      /\ dev'.byte = dev.byte /\ dev'.bits = dev.bits /\ dev'.left = dev.left
  BY <1>1 DEF IInv, Types, Drives
<1>3. /\ React' = React /\ ValidFor' = ValidFor
      /\ Bits \in Nat /\ Bits > 1 /\ lag \in Nat /\ lag <= React /\ React \in Nat /\ waited \in Nat
      /\ PresentWait \in Nat
      /\ Len(dev.bits) \in Nat /\ Len(host.bits) \in Nat /\ Len(<<>>) = 0 /\ Ticks(ValidFor) \in Nat
      /\ Ticks(ValidFor) > React
  BY <1>1, Numbers, Times DEF React, ValidFor, IInv, Types
<1>4. Types'
  BY <1>1, <1>2, <1>3 DEF IInv, Types, Drives, Items, DevPlaces, Reading, Writing, Seqs, Roles
<1>5. Drive'
  <2>1. Pause(dev.at)' = Pause(dev'.at)
    BY <1>3 DEF Pause
  <2>2. dev'.at = "w_low" /\ dev'.delay = Ticks(ValidFor)
    BY <1>1, <1>2
  <2>3. dev'.delay <= Pause(dev'.at)
    BY <1>3, <2>2, PauseAt
  <2>4. Pulls'
    BY <1>1, <1>2, <1>3 DEF IInv, Types, Drive, Pulls, PullsClock, PullsData, Shows, Reading,
       Writing
  <2>5. Talks'
    BY <1>1, <1>2, <1>3 DEF IInv, Types, Drive, Talks, Shifts, Starts, Writing
  <2> QED BY <2>1, <2>3, <2>4, <2>5 DEF Drive
<1>6. host.at = "l_bit"
  BY <1>1, HostWhere
<1>7. Computer' /\ Ordered'
  BY <1>1, <1>2, <1>3, <1>6 DEF IInv, Computer, Ordered, CheckATN, Polls, Reading, HostSends
<1>8. host.at = "l_bit" => AtBit'
  BY <1>1, <1>2, <1>3 DEF IInv, Types, Drive, Pulls, Talks, Computer, Meets, AtBit, Lasts, Heard,
     Reading, Starts, Writing
<1> QED BY <1>1, <1>4, <1>5, <1>6, <1>7, <1>8 DEF IInv, Meets

LEMMA WriteLowKeeps == ASSUME IInv, WriteLow, Still PROVE IInv'
<1>1. /\ dev.at = "w_low" /\ dev.delay = 0 /\ ~CheckATN
      /\ dev' = [dev EXCEPT !.at = "w_release", !.delay = Ticks(22), !.clock = TRUE]
      /\ UNCHANGED <<atn, host, lag, waited, usingVIC20, offer, accepted, taken>>
  BY SeenAt DEF WriteLow, At, Quiet, Still, history
<1>2. /\ dev'.at = "w_release" /\ dev'.clock = TRUE /\ dev'.data = dev.data /\ dev'.seq = dev.seq
      /\ dev'.role = dev.role /\ dev'.eoi = dev.eoi /\ dev'.delay = Ticks(22)
      /\ dev'.count = dev.count
      /\ dev'.byte = dev.byte /\ dev'.bits = dev.bits /\ dev'.left = dev.left
  BY <1>1 DEF IInv, Types, Drives
<1>3. /\ React' = React /\ ValidFor' = ValidFor
      /\ Bits \in Nat /\ Bits > 1 /\ lag \in Nat /\ lag <= React /\ React \in Nat /\ waited \in Nat
      /\ PresentWait \in Nat
      /\ Len(dev.bits) \in Nat /\ Len(host.bits) \in Nat /\ Len(<<>>) = 0 /\ Ticks(22) \in Nat
      /\ Ticks(59) > React /\ Ticks(59) \in Nat
  BY <1>1, Numbers, Times DEF React, ValidFor, IInv, Types
<1>4. Types'
  BY <1>1, <1>2, <1>3 DEF IInv, Types, Drives, Items, DevPlaces, Reading, Writing, Seqs, Roles
<1>5. Drive'
  <2>1. Pause(dev.at)' = Pause(dev'.at)
    BY <1>3 DEF Pause
  <2>2. dev'.at = "w_release" /\ dev'.delay = Ticks(22)
    BY <1>1, <1>2
  <2>3. dev'.delay <= Pause(dev'.at)
    BY <1>3, <2>2, PauseAt
  <2>4. Pulls'
    BY <1>1, <1>2, <1>3 DEF IInv, Types, Drive, Pulls, PullsClock, PullsData, Shows, Reading,
       Writing
  <2>5. Talks'
    BY <1>1, <1>2, <1>3 DEF IInv, Types, Drive, Talks, Shifts, Starts, Writing
  <2> QED BY <2>1, <2>3, <2>4, <2>5 DEF Drive
<1>6. host.at = "l_bit_end"
  <2>1. host.at \in {"l_bit", "l_bit_end"}
    BY <1>1, HostWhere
  <2>2. host.at # "l_bit"
    BY <1>1, <1>3, Lines DEF IInv, Types, Drive, Talks, Computer, Meets, AtBit, Lasts, CheckATN,
       Polls, Reading, Writing, HostSends, HostHears
  <2> QED BY <2>1, <2>2
<1>7. Computer' /\ Ordered'
  BY <1>1, <1>2, <1>3, <1>6 DEF IInv, Computer, Ordered, CheckATN, Polls, Reading, HostSends
<1>8. host.at = "l_bit_end" => AtBitEnd'
  BY <1>1, <1>2, <1>3 DEF IInv, Types, Drive, Pulls, Talks, Computer, Meets, AtBitEnd, Lasts, Heard,
     Reading, Starts, Writing
<1> QED BY <1>1, <1>4, <1>5, <1>6, <1>7, <1>8 DEF IInv, Meets

LEMMA TimeUpKeeps == ASSUME IInv, ReadTime, Still, dev.count = Ticks(200) PROVE IInv'
<1>1. /\ dev.at = "r_time" /\ dev.delay = 0 /\ ~CheckATN
      /\ dev.count = Ticks(200)
      /\ dev' = [dev EXCEPT !.at = "r_eoi", !.data = TRUE, !.delay = Ticks(73)]
      /\ UNCHANGED <<atn, host, lag, waited, usingVIC20, offer, accepted, taken>>
  BY SeenAt DEF ReadTime, At, Quiet, Still, history
<1>2. /\ dev'.at = "r_eoi" /\ dev'.clock = dev.clock /\ dev'.data = TRUE /\ dev'.seq = dev.seq
      /\ dev'.role = dev.role /\ dev'.eoi = dev.eoi /\ dev'.delay = Ticks(73)
      /\ dev'.count = dev.count
      /\ dev'.byte = dev.byte /\ dev'.bits = dev.bits /\ dev'.left = dev.left
  BY <1>1 DEF IInv, Types, Drives
<1>3. /\ React' = React /\ ValidFor' = ValidFor
      /\ Bits \in Nat /\ Bits > 1 /\ lag \in Nat /\ lag <= React /\ React \in Nat /\ waited \in Nat
      /\ PresentWait \in Nat
      /\ Len(dev.bits) \in Nat /\ Len(host.bits) \in Nat /\ Len(<<>>) = 0 /\ Ticks(73) \in Nat
      /\ Ticks(73) > React /\ Ticks(200) > React /\ Ticks(200) \in Nat
  BY <1>1, Numbers, Times DEF React, ValidFor, IInv, Types
<1>4. Types'
  BY <1>1, <1>2, <1>3 DEF IInv, Types, Drives, Items, DevPlaces, Reading, Writing, Seqs, Roles
<1>5. Drive'
  <2>1. Pause(dev.at)' = Pause(dev'.at)
    BY <1>3 DEF Pause
  <2>2. dev'.at = "r_eoi" /\ dev'.delay = Ticks(73)
    BY <1>1, <1>2
  <2>3. dev'.delay <= Pause(dev'.at)
    BY <1>3, <2>2, PauseAt
  <2>4. Pulls'
    BY <1>1, <1>2, <1>3 DEF IInv, Types, Drive, Pulls, PullsClock, PullsData, Shows, Reading,
       Writing
  <2>5. Talks'
    BY <1>1, <1>2, <1>3 DEF IInv, Types, Drive, Talks, Shifts, Starts, Writing
  <2> QED BY <2>1, <2>3, <2>4, <2>5 DEF Drive
<1>6. host.at \in {"idle", "t_eoi"}
  <2>1. host.at \in {"idle", "present", "t_ready", "t_eoi", "t_set"}
    BY <1>1, HostWhere
  <2>2. host.at # "present"
    BY <1>1, <1>3, Lines DEF IInv, Types, Drive, Talks, Computer, Meets, AtPresent, CheckATN, Polls,
       Reading, Writing, HostSends, HostHears, Called
  <2>3. host.at # "t_ready"
    BY <1>1, <1>3, Lines DEF IInv, Types, Drive, Talks, Computer, Meets, AtReady, CheckATN, Polls,
       Reading, Writing, HostSends, HostHears, Begun, Hears
  <2>4. host.at # "t_set"
    BY <1>1, <1>3, Lines DEF IInv, Types, Drive, Talks, Computer, Meets, AtSet, CheckATN, Polls,
       Reading, Writing, HostSends, HostHears, Begun, Hears, SoFar
  <2> QED BY <2>1, <2>2, <2>3, <2>4
<1>7. Computer' /\ Ordered'
  BY <1>1, <1>2, <1>3, <1>6 DEF IInv, Computer, Ordered, CheckATN, Polls, Reading, HostSends
<1>8. host.at = "idle" => AtIdle'
  BY <1>1, <1>2, <1>3 DEF IInv, Types, Drive, Pulls, Talks, Computer, Meets, AtIdle, Dev, Reading,
     Starts, Writing
<1>9. host.at = "t_eoi" => AtEoi'
  BY <1>1, <1>2, <1>3 DEF IInv, Types, Drive, Pulls, Talks, Computer, Meets, AtEoi, Lasts, Hears,
     Begun, Reading, Starts, Writing
<1> QED BY <1>1, <1>4, <1>5, <1>6, <1>7, <1>8, <1>9 DEF IInv, Meets

LEMMA TimeClockKeeps == ASSUME IInv, ReadTime, Still, dev.count # Ticks(200) PROVE IInv'
<1>1. /\ dev.at = "r_time" /\ dev.delay = 0 /\ ~CheckATN
      /\ Clock
      /\ dev' = [dev EXCEPT !.at = "r_bit"]
      /\ UNCHANGED <<atn, host, lag, waited, usingVIC20, offer, accepted, taken>>
  BY SeenAt DEF ReadTime, At, Quiet, Still, history
<1>2. /\ dev'.at = "r_bit" /\ dev'.clock = dev.clock /\ dev'.data = dev.data /\ dev'.seq = dev.seq
      /\ dev'.role = dev.role /\ dev'.eoi = dev.eoi /\ dev'.delay = dev.delay
      /\ dev'.count = dev.count
      /\ dev'.byte = dev.byte /\ dev'.bits = dev.bits /\ dev'.left = dev.left
  BY <1>1 DEF IInv, Types, Drives
<1>3. /\ React' = React /\ ValidFor' = ValidFor
      /\ Bits \in Nat /\ Bits > 1 /\ lag \in Nat /\ lag <= React /\ React \in Nat /\ waited \in Nat
      /\ PresentWait \in Nat
      /\ Len(dev.bits) \in Nat /\ Len(host.bits) \in Nat /\ Len(<<>>) = 0
  BY <1>1, Numbers, Times DEF React, ValidFor, IInv, Types
<1>4. Types'
  BY <1>1, <1>2, <1>3 DEF IInv, Types, Drives, Items, DevPlaces, Reading, Writing, Seqs, Roles
<1>5. Drive'
  <2>1. Pause(dev.at)' = Pause(dev'.at)
    BY <1>3 DEF Pause
  <2>2. dev'.at = "r_bit" /\ dev'.delay = 0
    BY <1>1, <1>2
  <2>3. dev'.delay <= Pause(dev'.at)
    BY <1>3, <2>2, PauseAt
  <2>4. Pulls'
    BY <1>1, <1>2, <1>3 DEF IInv, Types, Drive, Pulls, PullsClock, PullsData, Shows, Reading,
       Writing
  <2>5. Talks'
    BY <1>1, <1>2, <1>3 DEF IInv, Types, Drive, Talks, Shifts, Starts, Writing
  <2> QED BY <2>1, <2>3, <2>4, <2>5 DEF Drive
<1>6. host.at = "t_set"
  <2>1. host.at \in {"idle", "present", "t_ready", "t_eoi", "t_set"}
    BY <1>1, HostWhere
  <2>2. host.at # "idle"
    BY <1>1, <1>3, Lines DEF IInv, Types, Drive, Talks, Computer, Clock, Meets, AtIdle, Dev,
       CheckATN, Polls, Reading, Writing, HostSends, HostHears, Begun, Hears, SoFar
  <2>3. host.at # "present"
    BY <1>1, <1>3, Lines DEF IInv, Types, Drive, Talks, Computer, Clock, Meets, AtPresent, CheckATN,
       Polls, Reading, Writing, HostSends, HostHears, Called, Begun, Hears, SoFar
  <2>4. host.at # "t_ready"
    BY <1>1, <1>3, Lines DEF IInv, Types, Drive, Talks, Computer, Clock, Meets, AtReady, CheckATN,
       Polls, Reading, Writing, HostSends, HostHears, Begun, Hears, SoFar
  <2>5. host.at # "t_eoi"
    BY <1>1, <1>3, Lines DEF IInv, Types, Drive, Talks, Computer, Clock, Meets, AtEoi, Lasts,
       CheckATN, Polls, Reading, Writing, HostSends, HostHears, Begun, Hears, SoFar
  <2> QED BY <2>1, <2>2, <2>3, <2>4, <2>5
<1>7. Computer' /\ Ordered'
  BY <1>1, <1>2, <1>3, <1>6 DEF IInv, Computer, Ordered, CheckATN, Polls, Reading, HostSends
<1>8. host.at = "t_set" => AtSet'
  <2>1. SUFFICES ASSUME host.at = "t_set" PROVE AtSet'
    OBVIOUS
  <2>2. Begun /\ lag = 0 /\ ~host.eoi /\ host.bits = <<>>
    BY <1>1, <2>1 DEF IInv, Meets, AtSet
  <2>3. ~accepted /\ Hears' /\ dev'.eoi = host.eoi
    BY <1>1, <1>2, <2>2 DEF Begun, Hears, IInv, Types, Hosts, Drives
  <2>4. SoFar(Len(host.bits))'
    BY <1>1, <1>2, <1>3, <2>2 DEF Begun, SoFar
  <2> QED BY <1>1, <1>2, <2>3, <2>4 DEF AtSet
<1> QED BY <1>1, <1>4, <1>5, <1>6, <1>7, <1>8 DEF IInv, Meets

LEMMA StartEoiKeeps == ASSUME IInv, WriteStart, Still, dev.at = "w_ready", dev.left = 1 PROVE IInv'
<1>1. /\ dev.at = "w_ready" /\ dev.delay = 0 /\ ~CheckATN
      /\ ~Data /\ dev.left = 1
      /\ dev' = [dev EXCEPT !.at = "w_eoi"]
      /\ UNCHANGED <<atn, host, lag, waited, usingVIC20, offer, accepted, taken>>
  BY SeenAt DEF WriteStart, At, Goes, Quiet, Still, history
<1>2. /\ dev'.at = "w_eoi" /\ dev'.clock = dev.clock /\ dev'.data = dev.data /\ dev'.seq = dev.seq
      /\ dev'.role = dev.role /\ dev'.eoi = dev.eoi /\ dev'.delay = dev.delay
      /\ dev'.count = dev.count
      /\ dev'.byte = dev.byte /\ dev'.bits = dev.bits /\ dev'.left = dev.left
  BY <1>1 DEF IInv, Types, Drives
<1>3. /\ React' = React /\ ValidFor' = ValidFor
      /\ Bits \in Nat /\ Bits > 1 /\ lag \in Nat /\ lag <= React /\ React \in Nat /\ waited \in Nat
      /\ PresentWait \in Nat
      /\ Len(dev.bits) \in Nat /\ Len(host.bits) \in Nat /\ Len(<<>>) = 0
  BY <1>1, Numbers, Times DEF React, ValidFor, IInv, Types
<1>4. Types'
  BY <1>1, <1>2, <1>3 DEF IInv, Types, Drives, Items, DevPlaces, Reading, Writing, Seqs, Roles
<1>5. Drive'
  <2>1. Pause(dev.at)' = Pause(dev'.at)
    BY <1>3 DEF Pause
  <2>2. dev'.at = "w_eoi" /\ dev'.delay = 0
    BY <1>1, <1>2
  <2>3. dev'.delay <= Pause(dev'.at)
    BY <1>3, <2>2, PauseAt
  <2>4. Pulls'
    BY <1>1, <1>2, <1>3 DEF IInv, Types, Drive, Pulls, PullsClock, PullsData, Shows, Reading,
       Writing
  <2>5. Talks'
    BY <1>1, <1>2, <1>3 DEF IInv, Types, Drive, Talks, Shifts, Starts, Writing
  <2> QED BY <2>1, <2>3, <2>4, <2>5 DEF Drive
<1>6. host.at = "l_time"
  <2>1. host.at \in {"present", "l_clock", "l_ready", "l_time"}
    BY <1>1, HostWhere
  <2>2. host.at # "present"
    BY <1>1, <1>3, Lines DEF IInv, Types, Drive, Talks, Computer, Data, Meets, AtPresent, CheckATN,
       Polls, Reading, Writing, HostSends, HostHears, Called
  <2>3. host.at # "l_clock"
    BY <1>1, <1>3, Lines DEF IInv, Types, Drive, Talks, Computer, Data, Meets, AtClock, CheckATN,
       Polls, Reading, Writing, HostSends, HostHears
  <2>4. host.at # "l_ready"
    BY <1>1, <1>3, Lines DEF IInv, Types, Drive, Talks, Computer, Data, Meets, AtListens, CheckATN,
       Polls, Reading, Writing, HostSends, HostHears
  <2> QED BY <2>1, <2>2, <2>3, <2>4
<1>7. Computer' /\ Ordered'
  BY <1>1, <1>2, <1>3, <1>6 DEF IInv, Computer, Ordered, CheckATN, Polls, Reading, HostSends
<1>8. host.at = "l_time" => AtTime'
  BY <1>1, <1>2, <1>3 DEF IInv, Types, Drive, Pulls, Talks, Computer, Meets, AtTime, Lasts, Reading,
     Starts, Writing
<1> QED BY <1>1, <1>4, <1>5, <1>6, <1>7, <1>8 DEF IInv, Meets

LEMMA StartByteKeeps == ASSUME IInv, WriteStart, Still, dev.at = "w_ready", dev.left # 1 PROVE IInv'
<1>1. /\ dev.at = "w_ready" /\ dev.delay = 0 /\ ~CheckATN
      /\ ~Data /\ dev.left # 1
      /\ dev' = [dev EXCEPT !.at = "w_free", !.clock = TRUE, !.delay = Ticks(40)]
      /\ UNCHANGED <<atn, host, lag, waited, usingVIC20, offer, accepted, taken>>
  BY SeenAt DEF WriteStart, At, Goes, Quiet, Still, history
<1>2. /\ dev'.at = "w_free" /\ dev'.clock = TRUE /\ dev'.data = dev.data /\ dev'.seq = dev.seq
      /\ dev'.role = dev.role /\ dev'.eoi = dev.eoi /\ dev'.delay = Ticks(40)
      /\ dev'.count = dev.count
      /\ dev'.byte = dev.byte /\ dev'.bits = dev.bits /\ dev'.left = dev.left
  BY <1>1 DEF IInv, Types, Drives
<1>3. /\ React' = React /\ ValidFor' = ValidFor
      /\ Bits \in Nat /\ Bits > 1 /\ lag \in Nat /\ lag <= React /\ React \in Nat /\ waited \in Nat
      /\ PresentWait \in Nat
      /\ Len(dev.bits) \in Nat /\ Len(host.bits) \in Nat /\ Len(<<>>) = 0 /\ Ticks(40) \in Nat
      /\ Ticks(66) \in Nat /\ Ticks(66) > React /\ dev.left \in Nat
  BY <1>1, Numbers, Times DEF React, ValidFor, IInv, Types
<1>4. Types'
  BY <1>1, <1>2, <1>3 DEF IInv, Types, Drives, Items, DevPlaces, Reading, Writing, Seqs, Roles
<1>5. Drive'
  <2>1. Pause(dev.at)' = Pause(dev'.at)
    BY <1>3 DEF Pause
  <2>2. dev'.at = "w_free" /\ dev'.delay = Ticks(40)
    BY <1>1, <1>2
  <2>3. dev'.delay <= Pause(dev'.at)
    BY <1>3, <2>2, PauseAt
  <2>4. Pulls'
    BY <1>1, <1>2, <1>3 DEF IInv, Types, Drive, Pulls, PullsClock, PullsData, Shows, Reading,
       Writing
  <2>5. Talks'
    BY <1>1, <1>2, <1>3 DEF IInv, Types, Drive, Talks, Shifts, Starts, Writing
  <2> QED BY <2>1, <2>3, <2>4, <2>5 DEF Drive
<1>6. host.at = "l_time"
  <2>1. host.at \in {"present", "l_clock", "l_ready", "l_time"}
    BY <1>1, HostWhere
  <2>2. host.at # "present"
    BY <1>1, <1>3, Lines DEF IInv, Types, Drive, Talks, Computer, Data, Meets, AtPresent, CheckATN,
       Polls, Reading, Writing, HostSends, HostHears, Called
  <2>3. host.at # "l_clock"
    BY <1>1, <1>3, Lines DEF IInv, Types, Drive, Talks, Computer, Data, Meets, AtClock, CheckATN,
       Polls, Reading, Writing, HostSends, HostHears
  <2>4. host.at # "l_ready"
    BY <1>1, <1>3, Lines DEF IInv, Types, Drive, Talks, Computer, Data, Meets, AtListens, CheckATN,
       Polls, Reading, Writing, HostSends, HostHears
  <2> QED BY <2>1, <2>2, <2>3, <2>4
<1>7. Computer' /\ Ordered'
  BY <1>1, <1>2, <1>3, <1>6 DEF IInv, Computer, Ordered, CheckATN, Polls, Reading, HostSends
<1>8. host.at = "l_time" => AtTime'
  BY <1>1, <1>2, <1>3 DEF IInv, Types, Drive, Pulls, Talks, Computer, Meets, AtTime, Lasts, Reading,
     Starts, Writing
<1> QED BY <1>1, <1>4, <1>5, <1>6, <1>7, <1>8 DEF IInv, Meets

LEMMA StartAnsweredKeeps == ASSUME IInv, WriteStart, Still, dev.at = "w_eoi_ack" PROVE IInv'
<1>1. /\ dev.at = "w_eoi_ack" /\ dev.delay = 0 /\ ~CheckATN
      /\ ~Data
      /\ dev' = [dev EXCEPT !.at = "w_free", !.clock = TRUE, !.delay = Ticks(40)]
      /\ UNCHANGED <<atn, host, lag, waited, usingVIC20, offer, accepted, taken>>
  BY SeenAt DEF WriteStart, At, Goes, Quiet, Still, history
<1>2. /\ dev'.at = "w_free" /\ dev'.clock = TRUE /\ dev'.data = dev.data /\ dev'.seq = dev.seq
      /\ dev'.role = dev.role /\ dev'.eoi = dev.eoi /\ dev'.delay = Ticks(40)
      /\ dev'.count = dev.count
      /\ dev'.byte = dev.byte /\ dev'.bits = dev.bits /\ dev'.left = dev.left
  BY <1>1 DEF IInv, Types, Drives
<1>3. /\ React' = React /\ ValidFor' = ValidFor
      /\ Bits \in Nat /\ Bits > 1 /\ lag \in Nat /\ lag <= React /\ React \in Nat /\ waited \in Nat
      /\ PresentWait \in Nat
      /\ Len(dev.bits) \in Nat /\ Len(host.bits) \in Nat /\ Len(<<>>) = 0 /\ Ticks(40) \in Nat
      /\ Ticks(66) \in Nat /\ Ticks(66) > React
  BY <1>1, Numbers, Times DEF React, ValidFor, IInv, Types
<1>4. Types'
  BY <1>1, <1>2, <1>3 DEF IInv, Types, Drives, Items, DevPlaces, Reading, Writing, Seqs, Roles
<1>5. Drive'
  <2>1. Pause(dev.at)' = Pause(dev'.at)
    BY <1>3 DEF Pause
  <2>2. dev'.at = "w_free" /\ dev'.delay = Ticks(40)
    BY <1>1, <1>2
  <2>3. dev'.delay <= Pause(dev'.at)
    BY <1>3, <2>2, PauseAt
  <2>4. Pulls'
    BY <1>1, <1>2, <1>3 DEF IInv, Types, Drive, Pulls, PullsClock, PullsData, Shows, Reading,
       Writing
  <2>5. Talks'
    BY <1>1, <1>2, <1>3 DEF IInv, Types, Drive, Talks, Shifts, Starts, Writing
  <2> QED BY <2>1, <2>3, <2>4, <2>5 DEF Drive
<1>6. host.at = "l_first"
  <2>1. host.at \in {"l_eoi", "l_first"}
    BY <1>1, HostWhere
  <2>2. host.at # "l_eoi"
    BY <1>1, <1>3, Lines DEF IInv, Types, Drive, Talks, Computer, Data, Meets, AtAnswer, CheckATN,
       Polls, Reading, Writing, HostSends, HostHears
  <2> QED BY <2>1, <2>2
<1>7. Computer' /\ Ordered'
  BY <1>1, <1>2, <1>3, <1>6 DEF IInv, Computer, Ordered, CheckATN, Polls, Reading, HostSends
<1>8. host.at = "l_first" => AtFirst'
  BY <1>1, <1>2, <1>3 DEF IInv, Types, Drive, Pulls, Talks, Computer, Meets, AtFirst, Lasts,
     Reading, Starts, Writing
<1> QED BY <1>1, <1>4, <1>5, <1>6, <1>7, <1>8 DEF IInv, Meets

LEMMA ReleaseBitKeeps == ASSUME IInv, WriteRelease, Still, Len(dev.bits) + 1 < Bits PROVE IInv'
<1>1. /\ dev.at = "w_release" /\ dev.delay = 0 /\ ~CheckATN
      /\ Len(dev.bits) + 1 < Bits
      /\ dev' = [dev EXCEPT !.at = "w_set", !.data = FALSE,
                            !.bits = Append(dev.bits, dev.byte[Len(dev.bits) + 1]),
                            !.delay = Ticks(59)]
      /\ UNCHANGED <<atn, host, lag, waited, usingVIC20, offer, accepted, taken>>
  <2>1. 14 + 45 = 59
    OBVIOUS
  <2>2. dev.at = "w_release" /\ dev.delay = 0 /\ ~CheckATN
    BY DEF WriteRelease, At
  <2>3. Len(dev.bits) < Bits /\ Len(dev.bits) \in Nat /\ Bits \in Nat
    BY <2>2, Numbers DEF IInv, Drive, Talks, Shifts
  <2>4. dev.byte[Len(dev.bits) + 1] \in BOOLEAN
    BY <2>3 DEF IInv, Types, Drives, Byte
  <2>5. Len(Append(dev.bits, dev.byte[Len(dev.bits) + 1])) = Len(dev.bits) + 1
    BY <2>4, Numbers DEF IInv
  <2> QED BY <2>1, <2>2, <2>3, <2>5 DEF WriteRelease, Quiet, Still, history
<1>2. /\ dev'.at = "w_set" /\ dev'.clock = dev.clock /\ dev'.data = FALSE /\ dev'.seq = dev.seq
      /\ dev'.role = dev.role /\ dev'.eoi = dev.eoi /\ dev'.delay = Ticks(59)
      /\ dev'.count = dev.count
      /\ dev'.byte = dev.byte /\ dev'.bits = Append(dev.bits, dev.byte[Len(dev.bits) + 1])
      /\ dev'.left = dev.left
  BY <1>1 DEF IInv, Types, Drives
<1>3. /\ React' = React /\ ValidFor' = ValidFor
      /\ Bits \in Nat /\ Bits > 1 /\ lag \in Nat /\ lag <= React /\ React \in Nat /\ waited \in Nat
      /\ PresentWait \in Nat
      /\ Len(dev.bits) \in Nat /\ Len(host.bits) \in Nat /\ Len(<<>>) = 0 /\ Ticks(59) \in Nat
      /\ Ticks(66) \in Nat /\ Ticks(59) <= Ticks(66) /\ Ticks(59) > React
      /\ Append(dev.bits, dev.byte[Len(dev.bits) + 1]) \in Seq(BOOLEAN)
      /\ Len(Append(dev.bits, dev.byte[Len(dev.bits) + 1])) = Len(dev.bits) + 1
  <2>1. Len(dev.bits) < Bits
    BY <1>1 DEF IInv, Drive, Talks, Shifts
  <2>2. dev.byte \in Byte /\ Len(dev.bits) \in Nat
    BY Numbers DEF IInv, Types, Drives
  <2>3. dev.byte[Len(dev.bits) + 1] \in BOOLEAN
    BY <2>1, <2>2, BitOfByte
  <2> QED BY <1>1, <2>3, Numbers, Times DEF React, ValidFor, IInv, Types
<1>4. Types'
  BY <1>1, <1>2, <1>3 DEF IInv, Types, Drives, Items, DevPlaces, Reading, Writing, Seqs, Roles
<1>5. Drive'
  <2>1. Pause(dev.at)' = Pause(dev'.at)
    BY <1>3 DEF Pause
  <2>2. dev'.at = "w_set" /\ dev'.delay = Ticks(59)
    BY <1>1, <1>2
  <2>3. dev'.delay <= Pause(dev'.at)
    BY <1>3, <2>2, PauseAt
  <2>4. Pulls'
    BY <1>1, <1>2, <1>3 DEF IInv, Types, Drive, Pulls, PullsClock, PullsData, Shows, Reading,
       Writing
  <2>5. Talks'
    BY <1>1, <1>2, <1>3 DEF IInv, Types, Drive, Talks, Shifts, Starts, Writing
  <2> QED BY <2>1, <2>3, <2>4, <2>5 DEF Drive
<1>6. host.at \in {"l_bit", "l_bit_end"}
  <2>1. host.at \in {"present", "l_clock", "l_bit", "l_bit_end", "l_ack"}
    BY <1>1, HostWhere
  <2>2. host.at # "present"
    BY <1>1, <1>3, Lines DEF IInv, Types, Drive, Talks, Computer, Meets, AtPresent, CheckATN, Polls,
       Reading, Writing, HostSends, HostHears, Called
  <2>3. host.at # "l_clock"
    BY <1>1, <1>3, Lines DEF IInv, Types, Drive, Talks, Computer, Meets, AtClock, CheckATN, Polls,
       Reading, Writing, HostSends, HostHears
  <2>4. host.at # "l_ack"
    BY <1>1, <1>3, Lines DEF IInv, Types, Drive, Talks, Computer, Meets, AtTake, CheckATN, Polls,
       Reading, Writing, HostSends, HostHears
  <2> QED BY <2>1, <2>2, <2>3, <2>4
<1>7. Computer' /\ Ordered'
  BY <1>1, <1>2, <1>3, <1>6 DEF IInv, Computer, Ordered, CheckATN, Polls, Reading, HostSends
<1>8. host.at = "l_bit" => AtBit'
  BY <1>1, <1>2, <1>3 DEF IInv, Types, Drive, Pulls, Talks, Computer, Meets, AtBit, Lasts, Heard,
     Reading, Starts, Writing
<1>9. host.at = "l_bit_end" => AtBitEnd'
  BY <1>1, <1>2, <1>3 DEF IInv, Types, Drive, Pulls, Talks, Computer, Meets, AtBitEnd, Lasts, Heard,
     Reading, Starts, Writing
<1> QED BY <1>1, <1>4, <1>5, <1>6, <1>7, <1>8, <1>9 DEF IInv, Meets

LEMMA ReleaseLastKeeps == ASSUME IInv, WriteRelease, Still, Len(dev.bits) + 1 >= Bits PROVE IInv'
<1>1. /\ dev.at = "w_release" /\ dev.delay = 0 /\ ~CheckATN
      /\ Len(dev.bits) + 1 = Bits
      /\ dev' = [dev EXCEPT !.at = "w_ack", !.data = FALSE,
                            !.bits = Append(dev.bits, dev.byte[Len(dev.bits) + 1]),
                            !.delay = Ticks(14)]
      /\ UNCHANGED <<atn, host, lag, waited, usingVIC20, offer, accepted, taken>>
  <2>1. 14 + 45 = 59
    OBVIOUS
  <2>2. dev.at = "w_release" /\ dev.delay = 0 /\ ~CheckATN
    BY DEF WriteRelease, At
  <2>3. Len(dev.bits) < Bits /\ Len(dev.bits) \in Nat /\ Bits \in Nat
    BY <2>2, Numbers DEF IInv, Drive, Talks, Shifts
  <2>4. dev.byte[Len(dev.bits) + 1] \in BOOLEAN
    BY <2>3 DEF IInv, Types, Drives, Byte
  <2>5. Len(Append(dev.bits, dev.byte[Len(dev.bits) + 1])) = Len(dev.bits) + 1
    BY <2>4, Numbers DEF IInv
  <2>6. ~(Len(Append(dev.bits, dev.byte[Len(dev.bits) + 1])) < Bits) /\ Len(dev.bits) + 1 = Bits
    BY <2>3, <2>5
  <2> QED BY <2>2, <2>6 DEF WriteRelease, Quiet, Still, history
<1>2. /\ dev'.at = "w_ack" /\ dev'.clock = dev.clock /\ dev'.data = FALSE /\ dev'.seq = dev.seq
      /\ dev'.role = dev.role /\ dev'.eoi = dev.eoi /\ dev'.delay = Ticks(14)
      /\ dev'.count = dev.count
      /\ dev'.byte = dev.byte /\ dev'.bits = Append(dev.bits, dev.byte[Len(dev.bits) + 1])
      /\ dev'.left = dev.left
  BY <1>1 DEF IInv, Types, Drives
<1>3. /\ React' = React /\ ValidFor' = ValidFor
      /\ Bits \in Nat /\ Bits > 1 /\ lag \in Nat /\ lag <= React /\ React \in Nat /\ waited \in Nat
      /\ PresentWait \in Nat
      /\ Len(dev.bits) \in Nat /\ Len(host.bits) \in Nat /\ Len(<<>>) = 0 /\ Ticks(14) \in Nat
      /\ Append(dev.bits, dev.byte[Len(dev.bits) + 1]) \in Seq(BOOLEAN)
  <2>1. Len(dev.bits) < Bits
    BY <1>1 DEF IInv, Drive, Talks, Shifts
  <2>2. dev.byte \in Byte /\ Len(dev.bits) \in Nat
    BY Numbers DEF IInv, Types, Drives
  <2>3. dev.byte[Len(dev.bits) + 1] \in BOOLEAN
    BY <2>1, <2>2, BitOfByte
  <2> QED BY <1>1, <2>3, Numbers, Times DEF React, ValidFor, IInv, Types
<1>4. Types'
  BY <1>1, <1>2, <1>3 DEF IInv, Types, Drives, Items, DevPlaces, Reading, Writing, Seqs, Roles
<1>5. Drive'
  <2>1. Pause(dev.at)' = Pause(dev'.at)
    BY <1>3 DEF Pause
  <2>2. dev'.at = "w_ack" /\ dev'.delay = Ticks(14)
    BY <1>1, <1>2
  <2>3. dev'.delay <= Pause(dev'.at)
    BY <1>3, <2>2, PauseAt
  <2>4. Pulls'
    BY <1>1, <1>2, <1>3 DEF IInv, Types, Drive, Pulls, PullsClock, PullsData, Shows, Reading,
       Writing
  <2>5. Talks'
    BY <1>1, <1>2, <1>3 DEF IInv, Types, Drive, Talks, Shifts, Starts, Writing
  <2> QED BY <2>1, <2>3, <2>4, <2>5 DEF Drive
<1>6. host.at \in {"present", "l_clock", "l_bit_end", "l_ack"}
  <2>1. host.at \in {"present", "l_clock", "l_bit", "l_bit_end", "l_ack"}
    BY <1>1, HostWhere
  <2>2. host.at # "l_bit"
    BY <1>1, <1>3, Lines DEF IInv, Types, Drive, Talks, Computer, Meets, AtBit, Lasts, CheckATN,
       Polls, Reading, Writing, HostSends, HostHears
  <2> QED BY <2>1, <2>2
<1>7. Computer' /\ Ordered'
  BY <1>1, <1>2, <1>3, <1>6 DEF IInv, Computer, Ordered, CheckATN, Polls, Reading, HostSends
<1>8. host.at = "present" => AtPresent'
  BY <1>1, <1>2, <1>3 DEF IInv, Types, Drive, Pulls, Talks, Computer, Meets, AtPresent, Rest,
     Called, Reading, Starts, Writing
<1>9. host.at = "l_clock" => AtClock'
  BY <1>1, <1>2, <1>3 DEF IInv, Types, Drive, Pulls, Talks, Computer, Meets, AtClock, Reading,
     Starts, Writing
<1>10. host.at = "l_bit_end" => AtBitEnd'
  BY <1>1, <1>2, <1>3 DEF IInv, Types, Drive, Pulls, Talks, Computer, Meets, AtBitEnd, Lasts, Heard,
     Reading, Starts, Writing
<1>11. host.at = "l_ack" => AtTake'
  BY <1>1, <1>2, <1>3 DEF IInv, Types, Drive, Pulls, Talks, Computer, Meets, AtTake, Heard, Reading,
     Starts, Writing
<1> QED BY <1>1, <1>4, <1>5, <1>6, <1>7, <1>8, <1>9, <1>10, <1>11 DEF IInv, Meets

LEMMA WriteAckKeeps == ASSUME IInv, WriteAck, Still PROVE IInv'
<1>1. /\ dev.at = "w_ack" /\ dev.delay = 0 /\ ~CheckATN
      /\ Data
      /\ dev' = [dev EXCEPT !.at = "w_next", !.left = dev.left - 1]
      /\ UNCHANGED <<atn, host, lag, waited, usingVIC20>> /\ offer' = NoItem /\ accepted' = FALSE
  BY SeenAt DEF WriteAck, At, Still, Ends
<1>2. /\ dev'.at = "w_next" /\ dev'.clock = dev.clock /\ dev'.data = dev.data /\ dev'.seq = dev.seq
      /\ dev'.role = dev.role /\ dev'.eoi = dev.eoi /\ dev'.delay = dev.delay
      /\ dev'.count = dev.count
      /\ dev'.byte = dev.byte /\ dev'.bits = dev.bits /\ dev'.left = dev.left - 1
  BY <1>1 DEF IInv, Types, Drives
<1>3. /\ React' = React /\ ValidFor' = ValidFor
      /\ Bits \in Nat /\ Bits > 1 /\ lag \in Nat /\ lag <= React /\ React \in Nat /\ waited \in Nat
      /\ PresentWait \in Nat
      /\ Len(dev.bits) \in Nat /\ Len(host.bits) \in Nat /\ Len(<<>>) = 0 /\ dev.left \in Nat
      /\ dev.left > 0
  <2>1. dev.left > 0
    BY <1>1 DEF IInv, Drive, Talks, Writing
  <2> QED BY <1>1, <2>1, Numbers, Times DEF React, ValidFor, IInv, Types
<1>4. Types'
  <2>1. dev.left - 1 \in Nat
    BY <1>3
  <2> QED BY <1>1, <1>3, <2>1 DEF IInv, Types, Drives, DevPlaces, Writing
<1>5. Drive'
  <2>1. Pause(dev.at)' = Pause(dev'.at)
    BY <1>3 DEF Pause
  <2>2. dev'.at = "w_next" /\ dev'.delay = 0
    BY <1>1, <1>2
  <2>3. dev'.delay <= Pause(dev'.at)
    BY <1>3, <2>2, PauseAt
  <2>4. Pulls'
    BY <1>1, <1>2, <1>3 DEF IInv, Types, Drive, Pulls, PullsClock, PullsData, Shows, Reading,
       Writing
  <2>5. Talks'
    BY <1>1, <1>2, <1>3 DEF IInv, Types, Drive, Talks, Shifts, Starts, Writing
  <2> QED BY <2>1, <2>3, <2>4, <2>5 DEF Drive
<1>6. host.at = "l_clock"
  <2>1. host.at \in {"present", "l_clock", "l_bit_end", "l_ack"}
    BY <1>1, HostWhere
  <2>2. host.at # "present"
    BY <1>1, <1>3, Lines DEF IInv, Types, Drive, Talks, Computer, Data, Meets, AtPresent, CheckATN,
       Polls, Reading, Writing, HostSends, HostHears, Called
  <2>3. host.at # "l_bit_end"
    BY <1>1, <1>3, Lines DEF IInv, Types, Drive, Talks, Computer, Data, Meets, AtBitEnd, Lasts,
       CheckATN, Polls, Reading, Writing, HostSends, HostHears
  <2>4. host.at # "l_ack"
    BY <1>1, <1>3, Lines DEF IInv, Types, Drive, Talks, Computer, Data, Meets, AtTake, CheckATN,
       Polls, Reading, Writing, HostSends, HostHears
  <2> QED BY <2>1, <2>2, <2>3, <2>4
<1>7. Computer' /\ Ordered'
  BY <1>1, <1>2, <1>3, <1>6 DEF IInv, Computer, Ordered, CheckATN, Polls, Reading, HostSends
<1>8. host.at = "l_clock" => AtClock'
  BY <1>1, <1>2, <1>3 DEF IInv, Types, Drive, Pulls, Talks, Computer, Meets, AtClock, Reading,
     Starts, Writing
<1> QED BY <1>1, <1>4, <1>5, <1>6, <1>7, <1>8 DEF IInv, Meets

LEMMA BufferSentKeeps == ASSUME IInv, WriteByte, Still, dev.left = 0 PROVE IInv'
<1>1. /\ dev.at = "w_next" /\ dev.delay = 0 /\ ~CheckATN
      /\ dev.left = 0
      /\ dev' = [dev EXCEPT !.at = "call", !.seq = "COMPLETE"]
      /\ UNCHANGED <<atn, host, lag, waited, usingVIC20, offer, accepted, taken>>
  BY SeenAt DEF WriteByte, At, Quiet, Still, history
<1>2. /\ dev'.at = "call" /\ dev'.clock = dev.clock /\ dev'.data = dev.data /\ dev'.seq = "COMPLETE"
      /\ dev'.role = dev.role /\ dev'.eoi = dev.eoi /\ dev'.delay = dev.delay
      /\ dev'.count = dev.count
      /\ dev'.byte = dev.byte /\ dev'.bits = dev.bits /\ dev'.left = dev.left
  BY <1>1 DEF IInv, Types, Drives
<1>3. /\ React' = React /\ ValidFor' = ValidFor
      /\ Bits \in Nat /\ Bits > 1 /\ lag \in Nat /\ lag <= React /\ React \in Nat /\ waited \in Nat
      /\ PresentWait \in Nat
      /\ Len(dev.bits) \in Nat /\ Len(host.bits) \in Nat /\ Len(<<>>) = 0 /\ Ticks(50) \in Nat
  BY <1>1, Numbers, Times DEF React, ValidFor, IInv, Types
<1>4. Types'
  BY <1>1, <1>2, <1>3 DEF IInv, Types, Drives, Items, DevPlaces, Reading, Writing, Seqs, Roles
<1>5. Drive'
  <2>1. Pause(dev.at)' = Pause(dev'.at)
    BY <1>3 DEF Pause
  <2>2. dev'.at = "call" /\ dev'.delay = 0
    BY <1>1, <1>2
  <2>3. dev'.delay <= Pause(dev'.at)
    BY <1>3, <2>2, PauseAt
  <2>4. Pulls'
    BY <1>1, <1>2, <1>3 DEF IInv, Types, Drive, Pulls, PullsClock, PullsData, Shows, Reading,
       Writing
  <2>5. Talks'
    BY <1>1, <1>2, <1>3 DEF IInv, Types, Drive, Talks, Shifts, Starts, Writing
  <2> QED BY <2>1, <2>3, <2>4, <2>5 DEF Drive
<1>6. host.at \in {"present", "l_clock"}
  <2>1. host.at \in {"present", "l_turn", "l_clock"}
    BY <1>1, HostWhere
  <2>2. host.at # "l_turn"
    BY <1>1, <1>3, Lines DEF IInv, Types, Drive, Talks, Computer, Meets, AtTurn, Dev, Lasts,
       CheckATN, Polls, Reading, Writing, HostSends, HostHears
  <2> QED BY <2>1, <2>2
<1>7. Computer' /\ Ordered'
  BY <1>1, <1>2, <1>3, <1>6 DEF IInv, Computer, Ordered, CheckATN, Polls, Reading, HostSends
<1>8. host.at = "present" => AtPresent'
  BY <1>1, <1>2, <1>3 DEF IInv, Types, Drive, Pulls, Talks, Computer, Meets, AtPresent, Rest,
     Called, Reading, Starts, Writing
<1>9. host.at = "l_clock" => AtClock'
  BY <1>1, <1>2, <1>3 DEF IInv, Types, Drive, Pulls, Talks, Computer, Meets, AtClock, Reading,
     Starts, Writing
<1> QED BY <1>1, <1>4, <1>5, <1>6, <1>7, <1>8, <1>9 DEF IInv, Meets

LEMMA ByteOfferedKeeps ==
  ASSUME IInv, WriteByte, Still, NEW b \in Byte, At("w_next"), dev.left # 0,
         Offers(b, dev.left = 1),
         dev' = [dev EXCEPT !.at = "w_start", !.delay = Ticks(50), !.byte = b, !.bits = <<>>]
  PROVE  IInv'
<1>1. /\ dev.at = "w_next" /\ dev.delay = 0 /\ ~CheckATN
      /\ dev.left # 0
      /\ dev' = [dev EXCEPT !.at = "w_start", !.delay = Ticks(50), !.byte = b, !.bits = <<>>]
      /\ UNCHANGED <<atn, host, lag, waited, usingVIC20>>
      /\ offer' = [byte |-> b, eoi |-> dev.left = 1] /\ accepted' = FALSE
  BY SeenAt DEF WriteByte, At, Quiet, Still, history, Offers
<1>2. /\ dev'.at = "w_start" /\ dev'.clock = dev.clock /\ dev'.data = dev.data /\ dev'.seq = dev.seq
      /\ dev'.role = dev.role /\ dev'.eoi = dev.eoi /\ dev'.delay = Ticks(50)
      /\ dev'.count = dev.count
      /\ dev'.byte = b /\ dev'.bits = <<>> /\ dev'.left = dev.left
  BY <1>1 DEF IInv, Types, Drives
<1>3. /\ React' = React /\ ValidFor' = ValidFor
      /\ Bits \in Nat /\ Bits > 1 /\ lag \in Nat /\ lag <= React /\ React \in Nat /\ waited \in Nat
      /\ PresentWait \in Nat
      /\ Len(dev.bits) \in Nat /\ Len(host.bits) \in Nat /\ Len(<<>>) = 0 /\ Ticks(50) \in Nat
      /\ Ticks(50) > React /\ <<>> \in Seq(BOOLEAN) /\ dev.left \in Nat
  BY <1>1, Numbers, Times DEF React, ValidFor, IInv, Types
<1>4. Types'
  BY <1>1, <1>2, <1>3 DEF IInv, Types, Drives, Items, DevPlaces, Reading, Writing, Seqs, Roles
<1>5. Drive'
  <2>1. Pause(dev.at)' = Pause(dev'.at)
    BY <1>3 DEF Pause
  <2>2. dev'.at = "w_start" /\ dev'.delay = Ticks(50)
    BY <1>1, <1>2
  <2>3. dev'.delay <= Pause(dev'.at)
    BY <1>3, <2>2, PauseAt
  <2>4. Pulls'
    BY <1>1, <1>2, <1>3 DEF IInv, Types, Drive, Pulls, PullsClock, PullsData, Shows, Reading,
       Writing
  <2>5. Talks'
    BY <1>1, <1>2, <1>3 DEF IInv, Types, Drive, Talks, Shifts, Starts, Writing
  <2> QED BY <2>1, <2>3, <2>4, <2>5 DEF Drive
<1>6. host.at \in {"present", "l_turn", "l_clock"}
  BY <1>1, HostWhere
<1>7. Computer' /\ Ordered'
  BY <1>1, <1>2, <1>3, <1>6 DEF IInv, Computer, Ordered, CheckATN, Polls, Reading, HostSends
<1>8. host.at = "present" => AtPresent'
  BY <1>1, <1>2, <1>3 DEF IInv, Types, Drive, Pulls, Talks, Computer, Meets, AtPresent, Rest,
     Called, Reading, Starts, Writing
<1>9. host.at = "l_turn" => AtTurn'
  BY <1>1, <1>2, <1>3 DEF IInv, Types, Drive, Pulls, Talks, Computer, Meets, AtTurn, Dev, Lasts,
     Reading, Starts, Writing
<1>10. host.at = "l_clock" => AtClock'
  BY <1>1, <1>2, <1>3 DEF IInv, Types, Drive, Pulls, Talks, Computer, Meets, AtClock, Reading,
     Starts, Writing
<1> QED BY <1>1, <1>4, <1>5, <1>6, <1>7, <1>8, <1>9, <1>10 DEF IInv, Meets

LEMMA BitEndsKeeps == ASSUME IInv, ReadBitEnd, Still, Len(dev.bits) < Bits PROVE IInv'
<1>1. /\ dev.at = "r_bit_end" /\ dev.delay = 0 /\ ~CheckATN
      /\ Clock
      /\ dev' = [dev EXCEPT !.at = "r_bit"]
      /\ UNCHANGED <<atn, host, lag, waited, usingVIC20, offer, accepted, taken>>
  BY SeenAt DEF ReadBitEnd, At, Goes, Quiet, Read, Still, history
<1>2. /\ dev'.at = "r_bit" /\ dev'.clock = dev.clock /\ dev'.data = dev.data /\ dev'.seq = dev.seq
      /\ dev'.role = dev.role /\ dev'.eoi = dev.eoi /\ dev'.delay = dev.delay
      /\ dev'.count = dev.count
      /\ dev'.byte = dev.byte /\ dev'.bits = dev.bits /\ dev'.left = dev.left
  BY <1>1 DEF IInv, Types, Drives
<1>3. /\ React' = React /\ ValidFor' = ValidFor
      /\ Bits \in Nat /\ Bits > 1 /\ lag \in Nat /\ lag <= React /\ React \in Nat /\ waited \in Nat
      /\ PresentWait \in Nat
      /\ Len(dev.bits) \in Nat /\ Len(host.bits) \in Nat /\ Len(<<>>) = 0
  BY <1>1, Numbers, Times DEF React, ValidFor, IInv, Types
<1>4. Types'
  BY <1>1, <1>2, <1>3 DEF IInv, Types, Drives, Items, DevPlaces, Reading, Writing, Seqs, Roles
<1>5. Drive'
  <2>1. Pause(dev.at)' = Pause(dev'.at)
    BY <1>3 DEF Pause
  <2>2. dev'.at = "r_bit" /\ dev'.delay = 0
    BY <1>1, <1>2
  <2>3. dev'.delay <= Pause(dev'.at)
    BY <1>3, <2>2, PauseAt
  <2>4. Pulls'
    BY <1>1, <1>2, <1>3 DEF IInv, Types, Drive, Pulls, PullsClock, PullsData, Shows, Reading,
       Writing
  <2>5. Talks'
    BY <1>1, <1>2, <1>3 DEF IInv, Types, Drive, Talks, Shifts, Starts, Writing
  <2> QED BY <2>1, <2>3, <2>4, <2>5 DEF Drive
<1>6. host.at = "t_set"
  <2>1. host.at \in {"present", "t_set", "t_low", "t_ack"}
    BY <1>1, HostWhere
  <2>2. host.at # "present"
    BY <1>1, <1>3, Lines DEF IInv, Types, Drive, Talks, Computer, Clock, Meets, AtPresent, CheckATN,
       Polls, Reading, Writing, HostSends, HostHears, Called
  <2>3. host.at # "t_low"
    BY <1>1, <1>3, Lines DEF IInv, Types, Drive, Talks, Computer, Clock, Meets, AtLow, CheckATN,
       Polls, Reading, Writing, HostSends, HostHears, Hears, SoFar
  <2>4. host.at # "t_ack"
    BY <1>1, <1>3, Lines DEF IInv, Types, Drive, Talks, Computer, Clock, Meets, AtAck, Dev,
       CheckATN, Polls, Reading, Writing, HostSends, HostHears, Hears, SoFar
  <2> QED BY <2>1, <2>2, <2>3, <2>4
<1>7. Computer' /\ Ordered'
  BY <1>1, <1>2, <1>3, <1>6 DEF IInv, Computer, Ordered, CheckATN, Polls, Reading, HostSends
<1>8. host.at = "t_set" => AtSet'
  BY <1>1, <1>2, <1>3 DEF IInv, Types, Drive, Pulls, Talks, Computer, Meets, AtSet, Hears, SoFar,
     Begun, Reading, Starts, Writing
<1> QED BY <1>1, <1>4, <1>5, <1>6, <1>7, <1>8 DEF IInv, Meets

LEMMA ByteTakenKeeps ==
  ASSUME IInv, ReadBitEnd, Still, Len(dev.bits) >= Bits, dev.seq # "RECEIVE"
  PROVE  IInv'
<1>1. /\ dev.at = "r_bit_end" /\ dev.delay = 0 /\ ~CheckATN
      /\ Clock /\ dev.seq # "RECEIVE" /\ Len(dev.bits) >= Bits
      /\ dev' = [dev EXCEPT !.at = "r_clock", !.data = TRUE, !.bits = <<>>]
      /\ UNCHANGED <<atn, host, lag, waited, usingVIC20, offer>> /\ accepted' = TRUE
  <2>1. ~(Len(dev.bits) < Bits)
    BY Numbers DEF IInv
  <2> QED BY <2>1, SeenAt DEF ReadBitEnd, At, Takes, Read, Still
<1>2. /\ dev'.at = "r_clock" /\ dev'.clock = dev.clock /\ dev'.data = TRUE /\ dev'.seq = dev.seq
      /\ dev'.role = dev.role /\ dev'.eoi = dev.eoi /\ dev'.delay = dev.delay
      /\ dev'.count = dev.count
      /\ dev'.byte = dev.byte /\ dev'.bits = <<>> /\ dev'.left = dev.left
  BY <1>1 DEF IInv, Types, Drives
<1>3. /\ React' = React /\ ValidFor' = ValidFor
      /\ Bits \in Nat /\ Bits > 1 /\ lag \in Nat /\ lag <= React /\ React \in Nat /\ waited \in Nat
      /\ PresentWait \in Nat
      /\ Len(dev.bits) \in Nat /\ Len(host.bits) \in Nat /\ Len(<<>>) = 0 /\ <<>> \in Seq(BOOLEAN)
  BY <1>1, Numbers, Times DEF React, ValidFor, IInv, Types
<1>4. Types'
  BY <1>1, <1>2, <1>3 DEF IInv, Types, Drives, Items, DevPlaces, Reading, Writing, Seqs, Roles
<1>5. Drive'
  <2>1. Pause(dev.at)' = Pause(dev'.at)
    BY <1>3 DEF Pause
  <2>2. dev'.at = "r_clock" /\ dev'.delay = 0
    BY <1>1, <1>2
  <2>3. dev'.delay <= Pause(dev'.at)
    BY <1>3, <2>2, PauseAt
  <2>4. Pulls'
    BY <1>1, <1>2, <1>3 DEF IInv, Types, Drive, Pulls, PullsClock, PullsData, Shows, Reading,
       Writing
  <2>5. Talks'
    BY <1>1, <1>2, <1>3 DEF IInv, Types, Drive, Talks, Shifts, Starts, Writing
  <2> QED BY <2>1, <2>3, <2>4, <2>5 DEF Drive
<1>6. host.at = "t_ack"
  <2>1. host.at \in {"present", "t_set", "t_low", "t_ack"}
    BY <1>1, HostWhere
  <2>2. host.at # "present"
    BY <1>1, <1>3, Lines DEF IInv, Types, Drive, Talks, Computer, Clock, Meets, AtPresent, CheckATN,
       Polls, Reading, Writing, HostSends, HostHears, Called
  <2>3. host.at # "t_set"
    BY <1>1, <1>3, Lines DEF IInv, Types, Drive, Talks, Computer, Clock, Meets, AtSet, CheckATN,
       Polls, Reading, Writing, HostSends, HostHears, Begun, Hears, SoFar
  <2>4. host.at # "t_low"
    BY <1>1, <1>3, Lines DEF IInv, Types, Drive, Talks, Computer, Clock, Meets, AtLow, CheckATN,
       Polls, Reading, Writing, HostSends, HostHears, Hears, SoFar
  <2> QED BY <2>1, <2>2, <2>3, <2>4
<1>7. Computer' /\ Ordered'
  BY <1>1, <1>2, <1>3, <1>6 DEF IInv, Computer, Ordered, CheckATN, Polls, Reading, HostSends
<1>8. host.at = "t_ack" => AtAck'
  BY <1>1, <1>2, <1>3 DEF IInv, Types, Drive, Pulls, Talks, Computer, Meets, AtAck, Dev, Hears,
     SoFar, Reading, Starts, Writing
<1> QED BY <1>1, <1>4, <1>5, <1>6, <1>7, <1>8 DEF IInv, Meets

LEMMA ListensKeeps ==
  ASSUME IInv, Released, Still, dev.seq = "HANDLE", dev.role = "LISTEN"
  PROVE  IInv'
<1>1. /\ dev.at = "release" /\ dev.delay = 0 /\ ~CheckATN
      /\ ~atn /\ dev.seq = "HANDLE" /\ dev.role = "LISTEN"
      /\ dev' = [dev EXCEPT !.at = "r_clock", !.bits = <<>>]
      /\ UNCHANGED <<atn, host, lag, waited, usingVIC20, offer, accepted, taken>>
  BY SeenAt DEF Released, At, Quiet, Read, Still, history
<1>2. /\ dev'.at = "r_clock" /\ dev'.clock = dev.clock /\ dev'.data = dev.data /\ dev'.seq = dev.seq
      /\ dev'.role = dev.role /\ dev'.eoi = dev.eoi /\ dev'.delay = dev.delay
      /\ dev'.count = dev.count
      /\ dev'.byte = dev.byte /\ dev'.bits = <<>> /\ dev'.left = dev.left
  BY <1>1 DEF IInv, Types, Drives
<1>3. /\ React' = React /\ ValidFor' = ValidFor
      /\ Bits \in Nat /\ Bits > 1 /\ lag \in Nat /\ lag <= React /\ React \in Nat /\ waited \in Nat
      /\ PresentWait \in Nat
      /\ Len(dev.bits) \in Nat /\ Len(host.bits) \in Nat /\ Len(<<>>) = 0 /\ <<>> \in Seq(BOOLEAN)
  BY <1>1, Numbers, Times DEF React, ValidFor, IInv, Types
<1>4. Types'
  BY <1>1, <1>2, <1>3 DEF IInv, Types, Drives, Items, DevPlaces, Reading, Writing, Seqs, Roles
<1>5. Drive'
  <2>1. Pause(dev.at)' = Pause(dev'.at)
    BY <1>3 DEF Pause
  <2>2. dev'.at = "r_clock" /\ dev'.delay = 0
    BY <1>1, <1>2
  <2>3. dev'.delay <= Pause(dev'.at)
    BY <1>3, <2>2, PauseAt
  <2>4. Pulls'
    BY <1>1, <1>2, <1>3 DEF IInv, Types, Drive, Pulls, PullsClock, PullsData, Shows, Reading,
       Writing
  <2>5. Talks'
    BY <1>1, <1>2, <1>3 DEF IInv, Types, Drive, Talks, Shifts, Starts, Writing
  <2> QED BY <2>1, <2>3, <2>4, <2>5 DEF Drive
<1>6. host.at = "t_next"
  <2>1. host.at \in {"idle", "t_next", "t_ack", "l_turn"}
    BY <1>1, HostWhere
  <2>2. host.at # "idle"
    BY <1>1, <1>3, Lines DEF IInv, Types, Drive, Talks, Computer, Meets, AtIdle, Dev, CheckATN,
       Polls, Reading, Writing, HostSends, HostHears
  <2>3. host.at # "t_ack"
    BY <1>1, <1>3, Lines DEF IInv, Types, Drive, Talks, Computer, Meets, AtAck, Dev, CheckATN,
       Polls, Reading, Writing, HostSends, HostHears, Hears, SoFar
  <2>4. host.at # "l_turn"
    BY <1>1, <1>3, Lines DEF IInv, Types, Drive, Talks, Computer, Meets, AtTurn, Dev, Lasts,
       CheckATN, Polls, Reading, Writing, HostSends, HostHears
  <2> QED BY <2>1, <2>2, <2>3, <2>4
<1>7. Computer' /\ Ordered'
  BY <1>1, <1>2, <1>3, <1>6 DEF IInv, Computer, Ordered, CheckATN, Polls, Reading, HostSends
<1>8. host.at = "t_next" => AtNext'
  BY <1>1, <1>2, <1>3 DEF IInv, Types, Drive, Pulls, Talks, Computer, Meets, AtNext, Dev, Reading,
     Starts, Writing
<1> QED BY <1>1, <1>4, <1>5, <1>6, <1>7, <1>8 DEF IInv, Meets

LEMMA TurnsAroundKeeps ==
  ASSUME IInv, Released, Still, NEW n \in 1 .. MaxBytes, At("release"), dev.seq = "HANDLE",
         dev.role = "TALK", Quiet,
         dev' = [dev EXCEPT !.at = "w_next", !.data = FALSE, !.clock = TRUE, !.left = n]
  PROVE  IInv'
<1>1. /\ dev.at = "release" /\ dev.delay = 0 /\ ~CheckATN
      /\ ~atn /\ dev.seq = "HANDLE" /\ dev.role = "TALK"
      /\ dev' = [dev EXCEPT !.at = "w_next", !.data = FALSE, !.clock = TRUE, !.left = n]
      /\ UNCHANGED <<atn, host, lag, waited, usingVIC20, offer, accepted, taken>>
  BY SeenAt DEF Released, At, Quiet, Read, Still, history
<1>2. /\ dev'.at = "w_next" /\ dev'.clock = TRUE /\ dev'.data = FALSE /\ dev'.seq = dev.seq
      /\ dev'.role = dev.role /\ dev'.eoi = dev.eoi /\ dev'.delay = dev.delay
      /\ dev'.count = dev.count
      /\ dev'.byte = dev.byte /\ dev'.bits = dev.bits /\ dev'.left = n
  BY <1>1 DEF IInv, Types, Drives
<1>3. /\ React' = React /\ ValidFor' = ValidFor
      /\ Bits \in Nat /\ Bits > 1 /\ lag \in Nat /\ lag <= React /\ React \in Nat /\ waited \in Nat
      /\ PresentWait \in Nat
      /\ Len(dev.bits) \in Nat /\ Len(host.bits) \in Nat /\ Len(<<>>) = 0 /\ n \in Nat /\ n > 0
  <2>1. n \in Nat /\ n > 0
    BY SerialAssumption
  <2> QED BY <1>1, <2>1, Numbers DEF React, ValidFor, IInv, Types
<1>4. Types'
  BY <1>1, <1>2, <1>3 DEF IInv, Types, Drives, Items, DevPlaces, Reading, Writing, Seqs, Roles
<1>5. Drive'
  <2>1. Pause(dev.at)' = Pause(dev'.at)
    BY <1>3 DEF Pause
  <2>2. dev'.at = "w_next" /\ dev'.delay = 0
    BY <1>1, <1>2
  <2>3. dev'.delay <= Pause(dev'.at)
    BY <1>3, <2>2, PauseAt
  <2>4. Pulls'
    BY <1>1, <1>2, <1>3 DEF IInv, Types, Drive, Pulls, PullsClock, PullsData, Shows, Reading,
       Writing
  <2>5. Talks'
    <3>1. host.at \in {"idle", "t_next", "t_ack", "l_turn"}
      BY <1>1, HostWhere
    <3>2. offer = NoItem
      BY <1>1, <3>1 DEF IInv, Computer, Meets, AtAck, AtTurn, Dev
    <3> QED BY <1>1, <1>2, <3>2 DEF IInv, Drive, Talks, Shifts, Starts, Writing
  <2> QED BY <2>1, <2>3, <2>4, <2>5 DEF Drive
<1>6. host.at = "l_turn"
  <2>1. host.at \in {"idle", "t_next", "t_ack", "l_turn"}
    BY <1>1, HostWhere
  <2>2. host.at # "idle"
    BY <1>1, <1>3, Lines DEF IInv, Types, Drive, Talks, Computer, Meets, AtIdle, Dev, CheckATN,
       Polls, Reading, Writing, HostSends, HostHears
  <2>3. host.at # "t_next"
    BY <1>1, <1>3, Lines DEF IInv, Types, Drive, Talks, Computer, Meets, AtNext, Dev, CheckATN,
       Polls, Reading, Writing, HostSends, HostHears
  <2>4. host.at # "t_ack"
    BY <1>1, <1>3, Lines DEF IInv, Types, Drive, Talks, Computer, Meets, AtAck, Dev, CheckATN,
       Polls, Reading, Writing, HostSends, HostHears, Hears, SoFar
  <2> QED BY <2>1, <2>2, <2>3, <2>4
<1>7. Computer' /\ Ordered'
  BY <1>1, <1>2, <1>3, <1>6 DEF IInv, Computer, Ordered, CheckATN, Polls, Reading, HostSends
<1>8. host.at = "l_turn" => AtTurn'
  BY <1>1, <1>2, <1>3 DEF IInv, Types, Drive, Pulls, Talks, Computer, Meets, AtTurn, Dev, Lasts,
     Reading, Starts, Writing
<1> QED BY <1>1, <1>4, <1>5, <1>6, <1>7, <1>8 DEF IInv, Meets

LEMMA IsDoneKeeps ==
  ASSUME IInv, Released, Still, At("release"), dev.seq = "COMPLETE" \/ dev.role = "PASSIVE", Quiet,
         dev' = [dev EXCEPT !.at = "call", !.seq = "COMPLETE"]
  PROVE  IInv'
<1>1. /\ dev.at = "release" /\ dev.delay = 0 /\ ~CheckATN
      /\ ~atn /\ (dev.seq = "COMPLETE" \/ dev.role = "PASSIVE")
      /\ dev' = [dev EXCEPT !.at = "call", !.seq = "COMPLETE"]
      /\ UNCHANGED <<atn, host, lag, waited, usingVIC20, offer, accepted, taken>>
  BY SeenAt DEF Released, At, Quiet, Read, Still, history
<1>2. /\ dev'.at = "call" /\ dev'.clock = dev.clock /\ dev'.data = dev.data /\ dev'.seq = "COMPLETE"
      /\ dev'.role = dev.role /\ dev'.eoi = dev.eoi /\ dev'.delay = dev.delay
      /\ dev'.count = dev.count
      /\ dev'.byte = dev.byte /\ dev'.bits = dev.bits /\ dev'.left = dev.left
  BY <1>1 DEF IInv, Types, Drives
<1>3. /\ React' = React /\ ValidFor' = ValidFor
      /\ Bits \in Nat /\ Bits > 1 /\ lag \in Nat /\ lag <= React /\ React \in Nat /\ waited \in Nat
      /\ PresentWait \in Nat
      /\ Len(dev.bits) \in Nat /\ Len(host.bits) \in Nat /\ Len(<<>>) = 0
  BY <1>1, Numbers, Times DEF React, ValidFor, IInv, Types
<1>4. Types'
  BY <1>1, <1>2, <1>3 DEF IInv, Types, Drives, Items, DevPlaces, Reading, Writing, Seqs, Roles
<1>5. Drive'
  <2>1. Pause(dev.at)' = Pause(dev'.at)
    BY <1>3 DEF Pause
  <2>2. dev'.at = "call" /\ dev'.delay = 0
    BY <1>1, <1>2
  <2>3. dev'.delay <= Pause(dev'.at)
    BY <1>3, <2>2, PauseAt
  <2>4. Pulls'
    BY <1>1, <1>2, <1>3 DEF IInv, Types, Drive, Pulls, PullsClock, PullsData, Shows, Reading,
       Writing
  <2>5. Talks'
    BY <1>1, <1>2, <1>3 DEF IInv, Types, Drive, Talks, Shifts, Starts, Writing
  <2> QED BY <2>1, <2>3, <2>4, <2>5 DEF Drive
<1>6. host.at = "idle"
  <2>1. host.at \in {"idle", "t_next", "t_ack", "l_turn"}
    BY <1>1, HostWhere
  <2>2. host.at # "t_next"
    BY <1>1, <1>3, Lines DEF IInv, Types, Drive, Talks, Computer, Meets, AtNext, Dev, CheckATN,
       Polls, Reading, Writing, HostSends, HostHears
  <2>3. host.at # "t_ack"
    BY <1>1, <1>3, Lines DEF IInv, Types, Drive, Talks, Computer, Meets, AtAck, Dev, CheckATN,
       Polls, Reading, Writing, HostSends, HostHears, Hears, SoFar
  <2>4. host.at # "l_turn"
    BY <1>1, <1>3, Lines DEF IInv, Types, Drive, Talks, Computer, Meets, AtTurn, Dev, Lasts,
       CheckATN, Polls, Reading, Writing, HostSends, HostHears
  <2> QED BY <2>1, <2>2, <2>3, <2>4
<1>7. Computer' /\ Ordered'
  BY <1>1, <1>2, <1>3, <1>6 DEF IInv, Computer, Ordered, CheckATN, Polls, Reading, HostSends
<1>8. host.at = "idle" => AtIdle'
  BY <1>1, <1>2, <1>3 DEF IInv, Types, Drive, Pulls, Talks, Computer, Meets, AtIdle, Dev, Reading,
     Starts, Writing
<1> QED BY <1>1, <1>4, <1>5, <1>6, <1>7, <1>8 DEF IInv, Meets

LEMMA RoleTakenKeeps ==
  ASSUME IInv, ReadBitEnd, Still, Len(dev.bits) >= Bits, dev.seq = "RECEIVE",
         dev.bits \in {Listen, Talk}
  PROVE  IInv'
<1>1. /\ dev.at = "r_bit_end" /\ dev.delay = 0 /\ ~CheckATN
      /\ dev.seq = "RECEIVE" /\ dev.bits \in {Listen, Talk} /\ Clock /\ Len(dev.bits) >= Bits
      /\ dev' = [dev EXCEPT !.at = "call", !.data = TRUE, !.role = RoleOf(dev.bits),
                            !.seq = "RECEIVE"]
      /\ UNCHANGED <<atn, host, lag, waited, usingVIC20, offer>> /\ accepted' = TRUE
  <2>1. ~(Len(dev.bits) < Bits)
    BY Numbers DEF IInv
  <2>2. /\ dev.at = "r_bit_end" /\ dev.delay = 0 /\ Clock /\ ~CheckATN
        /\ dev' = Decoded([dev EXCEPT !.data = TRUE], dev.bits)
        /\ offer' = offer /\ accepted' = TRUE
    BY <2>1, SeenAt DEF ReadBitEnd, At, Takes
  <2>3. atn
    BY CodeComes
  <2> QED BY <2>1, <2>2, <2>3, CodesDiffer DEF Decoded, Still, RoleOf
<1>2. /\ dev'.at = "call" /\ dev'.clock = dev.clock /\ dev'.data = TRUE /\ dev'.seq = "RECEIVE"
      /\ dev'.role = RoleOf(dev.bits) /\ dev'.eoi = dev.eoi /\ dev'.delay = dev.delay
      /\ dev'.count = dev.count
      /\ dev'.byte = dev.byte /\ dev'.bits = dev.bits /\ dev'.left = dev.left
  BY <1>1 DEF IInv, Types, Drives
<1>3. /\ React' = React /\ ValidFor' = ValidFor
      /\ Bits \in Nat /\ Bits > 1 /\ lag \in Nat /\ lag <= React /\ React \in Nat /\ waited \in Nat
      /\ PresentWait \in Nat
      /\ Len(dev.bits) \in Nat /\ Len(host.bits) \in Nat /\ Len(<<>>) = 0 /\ atn
      /\ dev.bits = host.byte /\ ~accepted /\ ~dev.eoi /\ host.byte # Second
  BY <1>1, Numbers, Times, CodeComes, CodesDiffer DEF React, ValidFor, IInv, Types
<1>4. Types'
  <2>1. RoleOf(dev.bits) \in Roles
    BY DEF RoleOf, Roles
  <2> QED BY <1>1, <1>3, <2>1 DEF IInv, Types, Drives, DevPlaces, Seqs
<1>5. Drive'
  <2>1. Pause(dev.at)' = Pause(dev'.at)
    BY <1>3 DEF Pause
  <2>2. dev'.at = "call" /\ dev'.delay = 0
    BY <1>1, <1>2
  <2>3. dev'.delay <= Pause(dev'.at)
    BY <1>3, <2>2, PauseAt
  <2>4. Pulls'
    BY <1>1, <1>2, <1>3 DEF IInv, Types, Drive, Pulls, PullsClock, PullsData, Shows, Reading,
       Writing
  <2>5. Talks'
    BY <1>1, <1>2, <1>3 DEF IInv, Types, Drive, Talks, Shifts, Starts, Writing
  <2> QED BY <2>1, <2>3, <2>4, <2>5 DEF Drive
<1>6. host.at = "t_ack"
  <2>1. host.at \in {"present", "t_set", "t_low", "t_ack"}
    BY <1>1, HostWhere
  <2>2. host.at # "present"
    BY <1>1, <1>3, Lines DEF IInv, Types, Drive, Talks, Computer, Clock, Meets, AtPresent, CheckATN,
       Polls, Reading, Writing, HostSends, HostHears, Called
  <2>3. host.at # "t_set"
    BY <1>1, <1>3, Lines DEF IInv, Types, Drive, Talks, Computer, Clock, Meets, AtSet, CheckATN,
       Polls, Reading, Writing, HostSends, HostHears, Begun, Hears, SoFar
  <2>4. host.at # "t_low"
    BY <1>1, <1>3, Lines DEF IInv, Types, Drive, Talks, Computer, Clock, Meets, AtLow, CheckATN,
       Polls, Reading, Writing, HostSends, HostHears, Hears, SoFar
  <2> QED BY <2>1, <2>2, <2>3, <2>4
<1>7. Computer' /\ Ordered'
  BY <1>1, <1>2, <1>3, <1>6 DEF IInv, Computer, Ordered, CheckATN, Polls, Reading, HostSends
<1>8. host.at = "t_ack" => AtAck'
  BY <1>1, <1>2, <1>3 DEF IInv, Types, Drive, Pulls, Talks, Computer, Meets, AtAck, Dev, Hears,
     SoFar, Reading, Starts, Writing
<1> QED BY <1>1, <1>4, <1>5, <1>6, <1>7, <1>8 DEF IInv, Meets

LEMMA SecondTakenKeeps ==
  ASSUME IInv, ReadBitEnd, Still, Len(dev.bits) >= Bits, dev.seq = "RECEIVE", dev.bits = Second
  PROVE  IInv'
<1>1. /\ dev.at = "r_bit_end" /\ dev.delay = 0 /\ ~CheckATN
      /\ dev.seq = "RECEIVE" /\ dev.bits = Second /\ Clock /\ Len(dev.bits) >= Bits
      /\ dev' = [dev EXCEPT !.at = "call", !.data = TRUE, !.seq = "HANDLE"]
      /\ UNCHANGED <<atn, host, lag, waited, usingVIC20, offer>> /\ accepted' = TRUE
  <2>1. ~(Len(dev.bits) < Bits)
    BY Numbers DEF IInv
  <2>2. /\ dev.at = "r_bit_end" /\ dev.delay = 0 /\ Clock /\ ~CheckATN
        /\ dev' = Decoded([dev EXCEPT !.data = TRUE], dev.bits)
        /\ offer' = offer /\ accepted' = TRUE
    BY <2>1, SeenAt DEF ReadBitEnd, At, Takes
  <2>3. atn
    BY CodeComes
  <2> QED BY <2>1, <2>2, <2>3, CodesDiffer DEF Decoded, Still
<1>2. /\ dev'.at = "call" /\ dev'.clock = dev.clock /\ dev'.data = TRUE /\ dev'.seq = "HANDLE"
      /\ dev'.role = dev.role /\ dev'.eoi = dev.eoi /\ dev'.delay = dev.delay
      /\ dev'.count = dev.count
      /\ dev'.byte = dev.byte /\ dev'.bits = dev.bits /\ dev'.left = dev.left
  BY <1>1 DEF IInv, Types, Drives
<1>3. /\ React' = React /\ ValidFor' = ValidFor
      /\ Bits \in Nat /\ Bits > 1 /\ lag \in Nat /\ lag <= React /\ React \in Nat /\ waited \in Nat
      /\ PresentWait \in Nat
      /\ Len(dev.bits) \in Nat /\ Len(host.bits) \in Nat /\ Len(<<>>) = 0 /\ atn
      /\ dev.bits = host.byte /\ ~accepted /\ ~dev.eoi
  BY <1>1, Numbers, Times, CodeComes, CodesDiffer DEF React, ValidFor, IInv, Types
<1>4. Types'
  BY <1>1, <1>2, <1>3 DEF IInv, Types, Drives, Items, DevPlaces, Reading, Writing, Seqs, Roles
<1>5. Drive'
  <2>1. Pause(dev.at)' = Pause(dev'.at)
    BY <1>3 DEF Pause
  <2>2. dev'.at = "call" /\ dev'.delay = 0
    BY <1>1, <1>2
  <2>3. dev'.delay <= Pause(dev'.at)
    BY <1>3, <2>2, PauseAt
  <2>4. Pulls'
    BY <1>1, <1>2, <1>3 DEF IInv, Types, Drive, Pulls, PullsClock, PullsData, Shows, Reading,
       Writing
  <2>5. Talks'
    BY <1>1, <1>2, <1>3 DEF IInv, Types, Drive, Talks, Shifts, Starts, Writing
  <2> QED BY <2>1, <2>3, <2>4, <2>5 DEF Drive
<1>6. host.at = "t_ack"
  <2>1. host.at \in {"present", "t_set", "t_low", "t_ack"}
    BY <1>1, HostWhere
  <2>2. host.at # "present"
    BY <1>1, <1>3, Lines DEF IInv, Types, Drive, Talks, Computer, Clock, Meets, AtPresent, CheckATN,
       Polls, Reading, Writing, HostSends, HostHears, Called
  <2>3. host.at # "t_set"
    BY <1>1, <1>3, Lines DEF IInv, Types, Drive, Talks, Computer, Clock, Meets, AtSet, CheckATN,
       Polls, Reading, Writing, HostSends, HostHears, Begun, Hears, SoFar
  <2>4. host.at # "t_low"
    BY <1>1, <1>3, Lines DEF IInv, Types, Drive, Talks, Computer, Clock, Meets, AtLow, CheckATN,
       Polls, Reading, Writing, HostSends, HostHears, Hears, SoFar
  <2> QED BY <2>1, <2>2, <2>3, <2>4
<1>7. Computer' /\ Ordered'
  BY <1>1, <1>2, <1>3, <1>6 DEF IInv, Computer, Ordered, CheckATN, Polls, Reading, HostSends
<1>8. host.at = "t_ack" => AtAck'
  BY <1>1, <1>2, <1>3 DEF IInv, Types, Drive, Pulls, Talks, Computer, Meets, AtAck, Dev, Hears,
     SoFar, Reading, Starts, Writing
<1> QED BY <1>1, <1>4, <1>5, <1>6, <1>7, <1>8 DEF IInv, Meets

LEMMA OtherTakenKeeps ==
  ASSUME IInv, ReadBitEnd, Still, Len(dev.bits) >= Bits, dev.seq = "RECEIVE", dev.bits = Other
  PROVE  IInv'
<1>1. /\ dev.at = "r_bit_end" /\ dev.delay = 0 /\ ~CheckATN
      /\ dev.seq = "RECEIVE" /\ dev.bits = Other /\ Clock /\ Len(dev.bits) >= Bits
      /\ dev' = [dev EXCEPT !.at = "release", !.data = FALSE, !.clock = FALSE, !.seq = "COMPLETE"]
      /\ UNCHANGED <<atn, host, lag, waited, usingVIC20, offer>> /\ accepted' = TRUE
  <2>1. ~(Len(dev.bits) < Bits)
    BY Numbers DEF IInv
  <2>2. /\ dev.at = "r_bit_end" /\ dev.delay = 0 /\ Clock /\ ~CheckATN
        /\ dev' = Decoded([dev EXCEPT !.data = TRUE], dev.bits)
        /\ offer' = offer /\ accepted' = TRUE
    BY <2>1, SeenAt DEF ReadBitEnd, At, Takes
  <2>3. atn
    BY CodeComes
  <2> QED BY <2>1, <2>2, <2>3, CodesDiffer DEF Decoded, Still
<1>2. /\ dev'.at = "release" /\ dev'.clock = FALSE /\ dev'.data = FALSE /\ dev'.seq = "COMPLETE"
      /\ dev'.role = dev.role /\ dev'.eoi = dev.eoi /\ dev'.delay = dev.delay
      /\ dev'.count = dev.count
      /\ dev'.byte = dev.byte /\ dev'.bits = dev.bits /\ dev'.left = dev.left
  BY <1>1 DEF IInv, Types, Drives
<1>3. /\ React' = React /\ ValidFor' = ValidFor
      /\ Bits \in Nat /\ Bits > 1 /\ lag \in Nat /\ lag <= React /\ React \in Nat /\ waited \in Nat
      /\ PresentWait \in Nat
      /\ Len(dev.bits) \in Nat /\ Len(host.bits) \in Nat /\ Len(<<>>) = 0 /\ atn
      /\ dev.bits = host.byte /\ ~accepted /\ ~dev.eoi /\ host.byte # Second
  BY <1>1, Numbers, Times, CodeComes, CodesDiffer DEF React, ValidFor, IInv, Types
<1>4. Types'
  BY <1>1, <1>2, <1>3 DEF IInv, Types, Drives, Items, DevPlaces, Reading, Writing, Seqs, Roles
<1>5. Drive'
  <2>1. Pause(dev.at)' = Pause(dev'.at)
    BY <1>3 DEF Pause
  <2>2. dev'.at = "release" /\ dev'.delay = 0
    BY <1>1, <1>2
  <2>3. dev'.delay <= Pause(dev'.at)
    BY <1>3, <2>2, PauseAt
  <2>4. Pulls'
    BY <1>1, <1>2, <1>3 DEF IInv, Types, Drive, Pulls, PullsClock, PullsData, Shows, Reading,
       Writing
  <2>5. Talks'
    BY <1>1, <1>2, <1>3 DEF IInv, Types, Drive, Talks, Shifts, Starts, Writing
  <2> QED BY <2>1, <2>3, <2>4, <2>5 DEF Drive
<1>6. host.at = "t_ack"
  <2>1. host.at \in {"present", "t_set", "t_low", "t_ack"}
    BY <1>1, HostWhere
  <2>2. host.at # "present"
    BY <1>1, <1>3, Lines DEF IInv, Types, Drive, Talks, Computer, Clock, Meets, AtPresent, CheckATN,
       Polls, Reading, Writing, HostSends, HostHears, Called
  <2>3. host.at # "t_set"
    BY <1>1, <1>3, Lines DEF IInv, Types, Drive, Talks, Computer, Clock, Meets, AtSet, CheckATN,
       Polls, Reading, Writing, HostSends, HostHears, Begun, Hears, SoFar
  <2>4. host.at # "t_low"
    BY <1>1, <1>3, Lines DEF IInv, Types, Drive, Talks, Computer, Clock, Meets, AtLow, CheckATN,
       Polls, Reading, Writing, HostSends, HostHears, Hears, SoFar
  <2> QED BY <2>1, <2>2, <2>3, <2>4
<1>7. Computer' /\ Ordered'
  BY <1>1, <1>2, <1>3, <1>6 DEF IInv, Computer, Ordered, CheckATN, Polls, Reading, HostSends
<1>8. host.at = "t_ack" => AtAck'
  BY <1>1, <1>2, <1>3 DEF IInv, Types, Drive, Pulls, Talks, Computer, Meets, AtAck, Dev, Hears,
     SoFar, Reading, Starts, Writing
<1> QED BY <1>1, <1>4, <1>5, <1>6, <1>7, <1>8 DEF IInv, Meets

\* ATN changed in a wait: the computer waits for presence, and nothing stays offered.
LEMMA AbortKeeps == ASSUME IInv, Abort, Still PROVE IInv'
<1>1. dev.delay = 0 /\ dev.at \in Polls /\ atn # (dev.seq = "RECEIVE")
  BY DEF Abort, CheckATN
<1>2. host.at = "present"
  <2>1. dev.at \notin {"call", "clock", "release", "r_eoi"} /\ dev.at \in DevPlaces
    BY <1>1 DEF Polls, Reading, DevPlaces, IInv, Types, Drives
  <2>2. atn \in BOOLEAN /\ host.at \in HostPlaces
    BY DEF IInv, Types, Hosts
  <2>3. CASE dev.at \in Reading
    <3>1. host.at # "idle"
      BY <1>1, <2>1, <2>2, <2>3 DEF IInv, Meets, AtIdle, Dev, Computer, Reading
    <3>2. host.at \notin {"t_next", "t_ack"}
      BY <1>1, <2>1, <2>2, <2>3 DEF IInv, Meets, AtNext, AtAck, Dev, Hears, Reading
    <3>3. host.at \notin {"t_ready", "t_eoi", "t_eoi_ack"}
      BY <1>1, <2>1, <2>2, <2>3 DEF IInv, Meets, AtReady, AtEoi, AtEoiAck, Begun, Hears
    <3>4. host.at \notin {"t_set", "t_valid", "t_low"}
      BY <1>1, <2>1, <2>2, <2>3 DEF IInv, Meets, AtSet, AtValid, AtLow, Begun, Hears
    <3> QED BY <2>1, <2>3, <3>1, <3>2, <3>3, <3>4, HostWhere DEF Reading
  <2>4. CASE dev.at \in Writing
    <3>1. atn
      BY <1>1, <2>2, <2>4 DEF IInv, Drive, Talks
    <3>2. host.at \notin HostHears \union {"l_turn"}
      BY <3>1 DEF IInv, Computer
    <3> QED BY <2>1, <2>4, <3>2, HostWhere DEF Writing, HostHears
  <2> QED BY <2>1, <2>3, <2>4 DEF DevPlaces
<1>3. atn /\ dev.seq # "RECEIVE"
  BY <1>1, <1>2 DEF IInv, Computer, Types
<1>4. /\ dev' = [dev EXCEPT !.at = "call", !.seq = "COMPLETE"]
      /\ UNCHANGED <<atn, host, lag, waited, usingVIC20>>
      /\ offer' \in {offer, NoItem} /\ accepted' \in {accepted, FALSE}
      /\ dev.at \in Writing => offer' = NoItem
  BY <1>3 DEF Abort, Ends, Quiet, history, Still
<1>5. /\ dev'.at = "call" /\ dev'.seq = "COMPLETE" /\ dev'.delay = 0 /\ React' = React
  BY <1>1, <1>4 DEF IInv, Types, Drives, React
<1>6. Types'
  BY <1>4, <1>5 DEF IInv, Types, Drives, Seqs, DevPlaces
<1>7. Drive'
  <2>1. Pause(dev.at)' = 0
    BY <1>5 DEF Pause
  <2>2. Pulls' /\ Talks'
    BY <1>5 DEF Pulls, Talks, Reading, Writing, Shows, Shifts, Starts
  <2> QED BY <1>5, <2>1, <2>2 DEF Drive
<1>8. Computer' /\ Ordered'
  BY <1>2, <1>4 DEF IInv, Computer, Ordered, HostSends
<1>9. offer' = NoItem
  <2>1. CASE dev.at \in Writing
    BY <1>4, <2>1
  <2>2. CASE dev.at \notin Writing
    <3>1. dev.at \in Reading
      BY <1>1, <2>2 DEF Polls, Writing
    <3>2. offer = NoItem
      BY <1>2, <1>3, <3>1 DEF IInv, Meets, AtPresent, Called, Reading
    <3> QED BY <1>4, <3>2
  <2> QED BY <2>1, <2>2
<1>10. waited + 0 < PresentWait
  <2>1. waited + Rest < PresentWait
    BY <1>2, <1>3 DEF IInv, Meets, AtPresent, Called
  <2>2. dev.at # "w_next"
    BY <1>1 DEF Polls, Reading
  <2>3. Rest \in Nat
    BY <1>1, <2>2, Times DEF Rest, IInv, Types
  <2> QED BY <2>1, <2>3, Numbers DEF IInv
<1>11. AtPresent'
  BY <1>4, <1>5, <1>9, <1>10 DEF AtPresent, Rest
<1> QED BY <1>2, <1>4, <1>6, <1>7, <1>8, <1>11 DEF IInv, Meets

\* Every step of the drive.
LEMMA DeviceKeeps == ASSUME IInv, Device PROVE IInv'
<1>1. Still /\ dev.at \in DevPlaces /\ Len(dev.bits) \in Nat /\ Bits \in Nat /\ dev.left \in Nat
  BY Numbers DEF Device, Still, IInv, Types, Drives
<1>2. CASE Idle \/ Attention \/ ClockSeen \/ Receive \/ Handle \/ Complete
  BY <1>1, <1>2, IdleKeeps, AttentionKeeps, ClockSeenKeeps, ReceiveKeeps, HandleKeeps, CompleteKeeps
<1>3. CASE ReadReady \/ ReadStart \/ ReadEoi \/ ReadEoiSeen \/ ReadBit
  BY <1>1, <1>3, ReadReadyKeeps, ReadStartKeeps, ReadEoiKeeps, ReadEoiSeenKeeps, ReadBitKeeps
<1>4. CASE WriteReady \/ WriteEoi \/ WriteFree \/ WriteSet \/ WriteValid \/ WriteLow \/ WriteAck \/ Abort
  BY <1>1, <1>4, WriteReadyKeeps, WriteEoiKeeps, WriteFreeKeeps, WriteSetKeeps, WriteValidKeeps,
     WriteLowKeeps, WriteAckKeeps, AbortKeeps
<1>5. CASE ReadTime
  BY <1>1, <1>5, TimeUpKeeps, TimeClockKeeps
<1>6. CASE WriteStart
  <2>1. dev.at \in {"w_ready", "w_eoi_ack"}
    BY <1>6 DEF WriteStart, At
  <2> QED BY <1>1, <1>6, <2>1, StartEoiKeeps, StartByteKeeps, StartAnsweredKeeps
<1>7. CASE WriteRelease
  BY <1>1, <1>7, ReleaseBitKeeps, ReleaseLastKeeps
<1>8. CASE WriteByte
  <2>1. CASE dev.left = 0
    BY <1>1, <1>8, <2>1, BufferSentKeeps
  <2>2. CASE dev.left # 0
    <3>1. PICK b \in Byte : Offers(b, dev.left = 1)
            /\ dev' = [dev EXCEPT !.at = "w_start", !.delay = Ticks(50), !.byte = b, !.bits = <<>>]
      BY <1>8, <2>2 DEF WriteByte
    <3> QED BY <1>1, <1>8, <2>2, <3>1, ByteOfferedKeeps DEF WriteByte
  <2> QED BY <2>1, <2>2
<1>9. CASE Released
  <2>1. At("release") /\ Quiet
    BY <1>9 DEF Released
  <2>2. CASE dev.seq = "HANDLE" /\ dev.role = "LISTEN"
    BY <1>1, <1>9, <2>2, ListensKeeps
  <2>3. CASE dev.seq = "HANDLE" /\ dev.role = "TALK"
    <3>1. PICK n \in 1 .. MaxBytes :
            dev' = [dev EXCEPT !.at = "w_next", !.data = FALSE, !.clock = TRUE, !.left = n]
      BY <1>9, <2>3 DEF Released
    <3> QED BY <1>1, <1>9, <2>1, <2>3, <3>1, TurnsAroundKeeps
  <2>4. CASE dev.seq = "COMPLETE" \/ dev.role = "PASSIVE"
    <3>1. dev' = [dev EXCEPT !.at = "call", !.seq = "COMPLETE"]
      BY <1>9, <2>4 DEF Released
    <3> QED BY <1>1, <1>9, <2>1, <2>4, <3>1, IsDoneKeeps
  <2> QED BY <1>9, <2>2, <2>3, <2>4 DEF Released
<1>10. CASE ReadBitEnd
  <2>1. CASE Len(dev.bits) < Bits
    BY <1>1, <1>10, <2>1, BitEndsKeeps
  <2>2. CASE Len(dev.bits) >= Bits /\ dev.seq # "RECEIVE"
    BY <1>1, <1>10, <2>2, ByteTakenKeeps
  <2>3. CASE Len(dev.bits) >= Bits /\ dev.seq = "RECEIVE"
    <3>1. dev.bits \in Codes
      BY <1>10, <2>3, CodeComes
    <3> QED BY <1>1, <1>10, <2>3, <3>1, RoleTakenKeeps, SecondTakenKeeps, OtherTakenKeeps DEF Codes
  <2> QED BY <1>1, <2>1, <2>2, <2>3
<1> QED BY <1>2, <1>3, <1>4, <1>5, <1>6, <1>7, <1>8, <1>9, <1>10 DEF Device

-----------------------------------------------------------------------------
(* Time *)

\* Time passes only while the drive waits: no place it leaves at once is still there, and
\* what it shows is shown for as long as before, by the computer's count.
LEMMA TickKeeps == ASSUME IInv, Tick PROVE IInv'
<1>1. /\ UNCHANGED <<atn, host, usingVIC20, offer, accepted, taken>>
      /\ dev' = [dev EXCEPT !.delay = IF dev.delay > 0 THEN dev.delay - 1 ELSE 0,
                            !.count = IF dev.at = "r_time" THEN dev.count + 1 ELSE dev.count]
  BY DEF Tick, history
<1>2. /\ dev'.at = dev.at /\ dev'.clock = dev.clock /\ dev'.data = dev.data /\ dev'.seq = dev.seq
      /\ dev'.role = dev.role /\ dev'.eoi = dev.eoi /\ dev'.byte = dev.byte /\ dev'.bits = dev.bits
      /\ dev'.left = dev.left
      /\ dev'.delay = (IF dev.delay > 0 THEN dev.delay - 1 ELSE 0)
      /\ dev'.count = (IF dev.at = "r_time" THEN dev.count + 1 ELSE dev.count)
  BY <1>1 DEF IInv, Types, Drives
<1>3. /\ React' = React /\ ValidFor' = ValidFor
      /\ Bits \in Nat /\ lag \in Nat /\ lag <= React /\ React \in Nat /\ waited \in Nat
      /\ PresentWait \in Nat
      /\ dev.delay \in Nat /\ dev.count \in Nat
      /\ Ticks(14) \in Nat /\ Ticks(50) \in Nat /\ Ticks(59) \in Nat /\ Ticks(66) \in Nat
  BY <1>1, Numbers, Times DEF React, ValidFor, IInv, Types
<1>4. /\ lag' \in Nat /\ lag' <= React /\ waited' \in Nat
      /\ host.at # "present" => lag' = lag + 1
      /\ host.at = "present" => waited' = waited + 1
  BY <1>3 DEF Tick, React
<1>5. dev.delay = 0 => ~Seen[dev.at] /\ ~CheckATN
  BY DEF Tick, Ready
<1>6. dev.at \in {"call", "clock", "release", "r_clock", "r_data", "r_time", "r_first", "r_bit", "r_bit_end",
                  "w_next", "w_ready", "w_eoi", "w_eoi_ack"} => dev.delay = 0
  BY <1>3, PauseAt DEF IInv, Drive
<1>7. Types'
  <2>1. dev' \in Drives
    <3>1. /\ (IF dev.delay > 0 THEN dev.delay - 1 ELSE 0) \in Nat
          /\ (IF dev.at = "r_time" THEN dev.count + 1 ELSE dev.count) \in Nat
      BY <1>3
    <3> QED BY <1>1, <3>1 DEF IInv, Types, Drives
  <2> QED BY <1>1, <1>3, <1>4, <2>1 DEF IInv, Types
<1>8. Drive'
  <2>1. Pause(dev.at)' = Pause(dev.at)
    BY <1>2, <1>3 DEF Pause
  <2>2. dev.delay <= Pause(dev.at) /\ Pause(dev.at) \in Nat
    <3>1. dev.at \in DevPlaces
      BY DEF IInv, Types, Drives
    <3> QED BY <3>1, PauseAt, Times DEF IInv, Types, Drive, DevPlaces, Reading, Writing
  <2>3. dev'.delay <= Pause(dev.at)
    BY <1>2, <1>3, <2>2
  <2> QED BY <1>1, <1>2, <2>1, <2>3 DEF IInv, Drive, Pulls, Talks
<1>9. Computer' /\ Ordered'
  BY <1>1, <1>2 DEF IInv, Computer, Ordered
<1>10. ASSUME NEW m \in Nat, dev.delay > 0, host.at # "present", Lasts(m)
      PROVE  Lasts(m)'
  <2>1. lag' = lag + 1 /\ dev'.delay = dev.delay - 1
    BY <1>2, <1>4, <1>10
  <2>2. lag' + dev'.delay + m = lag + dev.delay + m
    BY <1>3, <2>1
  <2> QED BY <1>3, <1>10, <2>2 DEF Lasts
<1>11. dev.at \in {"r_eoi", "w_next", "w_start", "w_set", "w_valid", "w_low", "w_release"} => dev.delay > 0
  BY <1>3, <1>5, SeenAt
<1>12. dev.at = "w_free" /\ host.at \in {"l_time", "l_first"} => dev.delay > 0
  <2>1. SUFFICES ASSUME dev.at = "w_free", host.at \in {"l_time", "l_first"}, dev.delay = 0 PROVE FALSE
    BY <1>3
  <2>2. ~Data
    BY <2>1, Lines DEF Data
  <2>3. Seen["w_free"] = ~Data
    BY SeenAt
  <2> QED BY <1>5, <2>1, <2>2, <2>3
<1>13. host.at = "idle" => AtIdle'
  <2>1. SUFFICES ASSUME host.at = "idle" PROVE AtIdle'
    OBVIOUS
  <2>2. dev.at # "release"
    BY <1>5, <1>6, <2>1, SeenAt DEF IInv, Computer
  <2> QED BY <1>1, <1>2, <2>1, <2>2 DEF IInv, Meets, AtIdle, Dev, Begun, Hears, Heard
<1>14. host.at = "present" => AtPresent'
  <2>1. SUFFICES ASSUME host.at = "present" PROVE AtPresent'
    OBVIOUS
  <2>2. CASE dev.at = "r_clock" /\ Called
    BY <1>1, <1>2, <2>2 DEF AtPresent, Called
  <2>3. CASE ~(dev.at = "r_clock" /\ Called)
    <3>1. dev.delay > 0
      <4>1. host.clock /\ atn /\ atn = TRUE
        BY <2>1, Lines DEF IInv, Computer, Types
      <4>2. CASE dev.at = "clock"
        <5>1. Clock
          BY <4>1 DEF Clock
        <5>2. Seen["clock"] = Clock
          BY SeenAt
        <5> QED BY <1>3, <1>5, <4>2, <5>1, <5>2
      <4>3. CASE dev.at = "call"
        <5>1. Seen["call"]
          <6>1. Seen["call"] = (dev.seq # "IDLE" \/ atn)
            BY SeenAt
          <6> QED BY <4>1, <6>1, Zenon
        <5> QED BY <1>3, <1>5, <4>3, <5>1
      <4>4. CASE dev.at \in Reading /\ dev.seq = "HANDLE"
        <5>1. dev.at # "r_eoi" => CheckATN
          BY <4>1, <4>4 DEF CheckATN, Polls
        <5> QED BY <1>3, <1>5, <1>11, <5>1
      <4>5. CASE dev.at \in {"w_next", "w_start", "w_release"}
        BY <1>11, <4>5
      <4>6. CASE dev.at \in {"w_ready", "w_ack"}
        <5>1. dev.seq = "HANDLE"
          BY <4>6 DEF IInv, Drive, Talks, Writing
        <5>2. CheckATN
          BY <4>1, <4>6, <5>1 DEF CheckATN, Polls
        <5> QED BY <1>3, <1>5, <5>2
      <4> QED BY <2>1, <2>3, <4>2, <4>3, <4>4, <4>5, <4>6 DEF IInv, Meets, AtPresent
    <3>2. Rest' = Rest - 1 /\ Rest \in Nat
      BY <1>2, <1>3, <3>1 DEF Rest
    <3>3. waited' + Rest' = waited + Rest
      BY <1>3, <1>4, <2>1, <3>2
    <3> QED BY <1>1, <1>2, <2>1, <2>3, <3>3 DEF IInv, Meets, AtPresent, Called
  <2> QED BY <2>2, <2>3
<1>15. host.at = "t_next" => AtNext'
  <2>1. SUFFICES ASSUME host.at = "t_next" PROVE AtNext'
    OBVIOUS
  <2>2. dev.at = "release" => atn
    BY <1>5, <1>6, SeenAt
  <2> QED BY <1>1, <1>2, <2>1, <2>2 DEF IInv, Meets, AtNext, Dev
<1>16. host.at = "t_ready" => AtReady'
  <2>1. SUFFICES ASSUME host.at = "t_ready" PROVE AtReady'
    OBVIOUS
  <2>2. dev.at # "r_clock"
    BY <1>5, <1>6, <2>1, Lines, SeenAt DEF Clock
  <2>3. dev.at # "r_data"
    BY <1>5, <1>6, <2>1, Lines, SeenAt DEF Data
  <2>4. Begun /\ dev.at = "r_time" /\ dev.count = lag
    BY <2>1, <2>2, <2>3 DEF IInv, Meets, AtReady
  <2>5. Begun' /\ dev'.at = "r_time" /\ dev'.count = lag'
    BY <1>1, <1>2, <1>4, <2>1, <2>4 DEF Begun, Hears
  <2> QED BY <2>5 DEF AtReady
<1>17. host.at = "t_eoi" => AtEoi'
  <2>1. SUFFICES ASSUME host.at = "t_eoi" PROVE AtEoi'
    OBVIOUS
  <2>2. Begun' /\ (dev.at = "r_eoi" \/ dev.at = "r_time")
    BY <1>1, <1>2, <2>1 DEF IInv, Meets, AtEoi, Begun, Hears
  <2> QED BY <1>2, <1>10, <1>11, <2>1, <2>2 DEF IInv, Meets, AtEoi
<1>18. host.at = "t_eoi_ack" => AtEoiAck'
  <2>1. SUFFICES ASSUME host.at = "t_eoi_ack" PROVE AtEoiAck'
    OBVIOUS
  <2> QED BY <1>1, <1>2, <2>1 DEF IInv, Meets, AtEoiAck, Dev, Begun, Hears, Heard
<1>19. host.at = "t_set" => AtSet'
  <2>1. SUFFICES ASSUME host.at = "t_set" PROVE AtSet'
    OBVIOUS
  <2>2. dev.at # "r_time"
    BY <1>5, <1>6, <2>1, Lines, SeenAt DEF Clock
  <2>3. dev.at # "r_first"
    BY <1>5, <1>6, <2>1, Lines, SeenAt DEF Clock
  <2>4. dev.at # "r_bit_end"
    BY <1>5, <1>6, <2>1, Lines, SeenAt DEF Clock
  <2> QED BY <1>1, <1>2, <2>1, <2>2, <2>3, <2>4 DEF IInv, Meets, AtSet, Dev, Begun, Hears, SoFar,
           Heard
<1>20. host.at = "t_valid" => AtValid'
  <2>1. SUFFICES ASSUME host.at = "t_valid" PROVE AtValid'
    OBVIOUS
  <2> QED BY <1>1, <1>2, <2>1 DEF IInv, Meets, AtValid, Dev, Begun, Hears, SoFar, Heard
<1>21. host.at = "t_low" => AtLow'
  <2>1. SUFFICES ASSUME host.at = "t_low" PROVE AtLow'
    OBVIOUS
  <2>2. dev.at # "r_bit"
    BY <1>5, <1>6, <2>1, Lines, SeenAt DEF Clock
  <2> QED BY <1>1, <1>2, <2>1, <2>2 DEF IInv, Meets, AtLow, Dev, Begun, Hears, SoFar, Heard
<1>22. host.at = "t_ack" => AtAck'
  <2>1. SUFFICES ASSUME host.at = "t_ack" PROVE AtAck'
    OBVIOUS
  <2>2. Clock
    BY <2>1, Lines DEF Clock
  <2>3. dev.at # "r_bit_end"
    BY <1>5, <1>6, <2>2, SeenAt
  <2>4. dev.at = "call" => dev.seq = "IDLE"
    BY <1>5, <1>6, SeenAt
  <2> QED BY <1>1, <1>2, <2>1, <2>3, <2>4 DEF IInv, Meets, AtAck, Dev
<1>23. host.at = "l_turn" => AtTurn'
  <2>1. SUFFICES ASSUME host.at = "l_turn" PROVE AtTurn'
    OBVIOUS
  <2>2. CASE lag = 0 /\ Dev("release", "HANDLE")
    <3>1. ~atn /\ dev.delay = 0
      BY <1>6, <2>1, <2>2 DEF IInv, Computer, Dev
    <3> QED BY <1>5, <2>2, <3>1, SeenAt DEF Dev
  <2>3. CASE dev.at = "w_next"
    BY <1>3, <1>6, <1>11, <2>3
  <2>4. CASE dev.at = "w_start" /\ ~accepted /\ Lasts(0)
    BY <1>1, <1>2, <1>10, <1>11, <2>1, <2>4 DEF AtTurn
  <2> QED BY <2>1, <2>2, <2>3, <2>4 DEF IInv, Meets, AtTurn
<1>24. host.at = "l_clock" => AtClock'
  <2>1. SUFFICES ASSUME host.at = "l_clock" PROVE AtClock'
    OBVIOUS
  <2> QED BY <1>1, <1>2, <2>1 DEF IInv, Meets, AtClock, Dev, Begun, Hears, Heard
<1>25. host.at = "l_ready" => AtListens'
  <2>1. SUFFICES ASSUME host.at = "l_ready" PROVE AtListens'
    OBVIOUS
  <2> QED BY <1>1, <1>2, <2>1 DEF IInv, Meets, AtListens, Dev, Begun, Hears, Heard
<1>26. host.at = "l_time" => AtTime'
  <2>1. SUFFICES ASSUME host.at = "l_time" PROVE AtTime'
    OBVIOUS
  <2>2. ~(lag = 0 /\ dev.at = "w_ready")
    BY <1>3, <1>5, <1>6, <2>1, Lines, SeenAt DEF Data
  <2>3. Ticks(66) \in Nat /\ ~accepted'
    BY <1>1, <1>3, <2>1 DEF IInv, Meets, AtTime
  <2>4. (dev.at = "w_free" /\ Lasts(Ticks(66)) => Lasts(Ticks(66))') /\ (dev.at = "w_set" /\ Lasts(0) => Lasts(0)')
    BY <1>10, <1>11, <1>12, <2>1, <2>3
  <2> QED BY <1>2, <2>1, <2>2, <2>3, <2>4 DEF IInv, Meets, AtTime
<1>27. host.at = "l_eoi" => AtAnswer'
  <2>1. SUFFICES ASSUME host.at = "l_eoi" PROVE AtAnswer'
    OBVIOUS
  <2>2. dev.at # "w_eoi"
    BY <1>5, <1>6, <2>1, Lines, SeenAt DEF Data
  <2> QED BY <1>1, <1>2, <2>1, <2>2 DEF IInv, Meets, AtAnswer, Dev, Begun, Hears, Heard
<1>28. host.at = "l_first" => AtFirst'
  <2>1. SUFFICES ASSUME host.at = "l_first" PROVE AtFirst'
    OBVIOUS
  <2>2. ~(lag = 0 /\ dev.at = "w_eoi_ack")
    BY <1>3, <1>5, <1>6, <2>1, Lines, SeenAt DEF Data
  <2>3. Ticks(66) \in Nat /\ ~accepted'
    BY <1>1, <1>3, <2>1 DEF IInv, Meets, AtFirst
  <2>4. (dev.at = "w_free" /\ Lasts(Ticks(66)) => Lasts(Ticks(66))') /\ (dev.at = "w_set" /\ Lasts(0) => Lasts(0)')
    BY <1>10, <1>11, <1>12, <2>1, <2>3
  <2> QED BY <1>2, <2>1, <2>2, <2>3, <2>4 DEF IInv, Meets, AtFirst
<1>29. host.at = "l_bit" => AtBit'
  <2>1. SUFFICES ASSUME host.at = "l_bit" PROVE AtBit'
    OBVIOUS
  <2>2. dev.at = "w_low" /\ Lasts(0) => Lasts(0)'
    BY <1>10, <1>11, <2>1
  <2>3. ~accepted' /\ host'.eoi = (dev'.left = 1) /\ Heard(Len(host.bits))' /\ Len(host'.bits) < Bits
    BY <1>1, <1>2, <2>1 DEF IInv, Meets, AtBit, Heard
  <2> QED BY <1>1, <1>2, <2>1, <2>2, <2>3 DEF IInv, Meets, AtBit
<1>30. host.at = "l_bit_end" => AtBitEnd'
  <2>1. SUFFICES ASSUME host.at = "l_bit_end" PROVE AtBitEnd'
    OBVIOUS
  <2>2. (dev.at = "w_release" /\ Lasts(Ticks(59)) => Lasts(Ticks(59))') /\ (dev.at = "w_set" /\ Lasts(0) => Lasts(0)')
    BY <1>3, <1>10, <1>11, <2>1
  <2>3. ~accepted' /\ host'.eoi = (dev'.left = 1) /\ Heard(Len(host.bits))' /\ Len(host.bits) <= Bits
    BY <1>1, <1>2, <2>1 DEF IInv, Meets, AtBitEnd, Heard
  <2> QED BY <1>1, <1>2, <2>1, <2>2, <2>3 DEF IInv, Meets, AtBitEnd
<1>31. host.at = "l_ack" => AtTake'
  <2>1. SUFFICES ASSUME host.at = "l_ack" PROVE AtTake'
    OBVIOUS
  <2> QED BY <1>1, <1>2, <2>1 DEF IInv, Meets, AtTake, Dev, Begun, Hears, Heard
<1> QED BY <1>1, <1>7, <1>8, <1>9, <1>13, <1>14, <1>15, <1>16, <1>17, <1>18, <1>19, <1>20, <1>21,
         <1>22, <1>23, <1>24, <1>25, <1>26, <1>27, <1>28, <1>29, <1>30, <1>31 DEF IInv, Meets

-----------------------------------------------------------------------------
(* The steps of the computer: the same, with the drive standing still.    *)

Looked == lag' = 0 /\ waited' = (IF host'.at = host.at THEN waited ELSE 0) /\ UNCHANGED <<dev, usingVIC20>>

\* What each wait of the computer waits for.
LEMMA SeenByHost ==
  /\ HostSeen["present"] = (waited = PresentWait)
  /\ \A p \in {"t_ready", "t_eoi_ack"} : HostSeen[p] = ~Data
  /\ HostSeen["t_eoi"] = Data
  /\ HostSeen["t_ack"] = (Data \/ host.byte = Other)
  /\ \A p \in {"l_turn", "l_first", "l_bit_end"} : HostSeen[p] = Clock
  /\ \A p \in {"l_clock", "l_bit"} : HostSeen[p] = ~Clock
  /\ HostSeen["l_time"] = (Clock \/ waited >= Ticks(200))
  /\ \A p \in {"idle", "t_next", "t_set", "t_valid", "t_low", "l_ready", "l_ack"} : HostSeen[p] = TRUE
BY DEF HostSeen, HostPlaces, HostSends

LEMMA HostReadyEoiKeeps ==
  ASSUME IInv, HostReady, Looked, UNCHANGED <<atn, history>>, host.at = "t_ready", host.eoi
  PROVE  IInv'
<1>1. /\ host.at = "t_ready" /\ lag > 0
      /\ ~Data /\ host.eoi
      /\ host' = [host EXCEPT !.at = "t_eoi"]
      /\ lag' = 0 /\ UNCHANGED <<atn, dev, usingVIC20, offer, accepted, taken>>
  BY SeenByHost, Numbers DEF IInv, Types, Computer, HostSends, HostHears, HostReady, HostAt, Looked,
     history
<1>2. /\ host'.at = "t_eoi" /\ host'.clock = host.clock /\ host'.data = host.data
      /\ host'.byte = host.byte
      /\ host'.eoi = host.eoi /\ host'.bits = host.bits /\ host'.order = host.order
  BY <1>1 DEF IInv, Types, Hosts
<1>3. React' = React /\ ValidFor' = ValidFor /\ waited' \in Nat /\ Bits \in Nat /\ Bits > 1 /\ React \in Nat
      /\ lag \in Nat /\ lag <= React /\ dev.delay \in Nat /\ dev.left \in Nat /\ dev.count \in Nat
      /\ Len(dev.bits) \in Nat /\ Len(host.bits) \in Nat /\ Len(<<>>) = 0 /\ <<>> \in Seq(BOOLEAN)
      /\ React < Ticks(200) /\ Ticks(200) \in Nat
  BY <1>1, Numbers, Times DEF React, ValidFor, Looked, IInv, Types
<1>4. AtReady
  BY <1>1 DEF IInv, Meets
<1>5. AtEoi'
  BY <1>1, <1>2, <1>3, <1>4, Lines DEF IInv, Types, Drive, Talks, Computer, AtReady, AtEoi, Lasts,
     Hears, Begun, Data, Writing, Starts, NoEoi, InEoi, HostSends, HostHears
<1>6. Types'
  <2>1. host' \in Hosts
    BY <1>1, <1>2, <1>3 DEF IInv, Types, Hosts, HostPlaces, HostSends
  <2>2. atn' \in BOOLEAN /\ accepted' \in BOOLEAN
    BY <1>1, Zenon DEF IInv, Types
  <2>3. offer' \in Items \union {NoItem}
    BY <1>1 DEF IInv, Types
  <2> QED BY <1>1, <1>3, <2>1, <2>2, <2>3 DEF IInv, Types
<1>7. Drive'
  BY <1>1, <1>3, <1>4 DEF IInv, Drive, Pause, Pulls, Talks, AtReady, Begun, Writing, Reading
<1>8. Computer'
  <2>1. ~atn' /\ host'.eoi /\ host'.at = "t_eoi"
    BY <1>1, <1>2 DEF IInv, Computer
  <2>2. offer' = [byte |-> host'.byte, eoi |-> host'.eoi] /\ host'.bits = <<>>
    BY <1>1, <1>2 DEF IInv, Computer, HostSends, Midway
  <2>3. Len(host'.bits) < Bits
    BY <1>3, <2>2
  <2>4. ~host'.clock /\ ~host'.data
    BY <1>1, <1>2, Lines
  <2> QED BY <2>1, <2>2, <2>3, <2>4 DEF Computer, HostHears, HostSends, HostClock, HostShows,
           HostData, Midway, NoEoi, InEoi
<1>9. Ordered'
  BY <1>1, <1>2, <1>3 DEF IInv, Ordered, Computer, HostHears, HostSends
<1> QED BY <1>1, <1>2, <1>5, <1>6, <1>7, <1>8, <1>9 DEF IInv, Meets

LEMMA HostReadyByteKeeps ==
  ASSUME IInv, HostReady, Looked, UNCHANGED <<atn, history>>, host.at = "t_ready", ~host.eoi
  PROVE  IInv'
<1>1. /\ host.at = "t_ready" /\ lag > 0
      /\ ~Data /\ ~host.eoi
      /\ host' = [host EXCEPT !.at = "t_set", !.clock = TRUE]
      /\ lag' = 0 /\ UNCHANGED <<atn, dev, usingVIC20, offer, accepted, taken>>
  BY SeenByHost, Numbers DEF IInv, Types, Computer, HostSends, HostHears, HostReady, HostAt, Looked,
     history
<1>2. /\ host'.at = "t_set" /\ host'.clock = TRUE /\ host'.data = host.data
      /\ host'.byte = host.byte
      /\ host'.eoi = host.eoi /\ host'.bits = host.bits /\ host'.order = host.order
  BY <1>1 DEF IInv, Types, Hosts
<1>3. React' = React /\ ValidFor' = ValidFor /\ waited' \in Nat /\ Bits \in Nat /\ Bits > 1 /\ React \in Nat
      /\ lag \in Nat /\ lag <= React /\ dev.delay \in Nat /\ dev.left \in Nat /\ dev.count \in Nat
      /\ Len(dev.bits) \in Nat /\ Len(host.bits) \in Nat /\ Len(<<>>) = 0 /\ <<>> \in Seq(BOOLEAN)
      /\ React < Ticks(200) /\ Ticks(200) \in Nat
  BY <1>1, Numbers, Times DEF React, ValidFor, Looked, IInv, Types
<1>4. AtReady
  BY <1>1 DEF IInv, Meets
<1>5. AtSet'
  <2>1. Begun /\ dev.at = "r_time" /\ dev.count = lag
    BY <1>1, <1>3, <1>4 DEF AtReady
  <2>2. Begun' /\ dev'.at = "r_time" /\ dev'.count < Ticks(200)
    BY <1>1, <1>3, <2>1 DEF Begun, Hears
  <2>3. ~host'.eoi /\ host'.bits = <<>>
    BY <1>1, <1>2 DEF IInv, Computer, Midway
  <2> QED BY <1>1, <2>2, <2>3 DEF AtSet
<1>6. Types'
  <2>1. host' \in Hosts
    BY <1>1, <1>2, <1>3 DEF IInv, Types, Hosts, HostPlaces, HostSends
  <2>2. atn' \in BOOLEAN /\ accepted' \in BOOLEAN
    BY <1>1, Zenon DEF IInv, Types
  <2>3. offer' \in Items \union {NoItem}
    BY <1>1 DEF IInv, Types
  <2> QED BY <1>1, <1>3, <2>1, <2>2, <2>3 DEF IInv, Types
<1>7. Drive'
  BY <1>1, <1>3, <1>4 DEF IInv, Drive, Pause, Pulls, Talks, AtReady, Begun, Writing, Reading
<1>8. Computer'
  BY <1>1, <1>2, <1>3, <1>4 DEF IInv, Computer, HostHears, HostSends, HostClock, HostShows,
     HostData, Midway, NoEoi, InEoi, AtReady
<1>9. Ordered'
  BY <1>1, <1>2, <1>3 DEF IInv, Ordered, Computer, HostHears, HostSends
<1> QED BY <1>1, <1>2, <1>5, <1>6, <1>7, <1>8, <1>9 DEF IInv, Meets

LEMMA HostAnsweredByteKeeps ==
  ASSUME IInv, HostReady, Looked, UNCHANGED <<atn, history>>, host.at = "t_eoi_ack"
  PROVE  IInv'
<1>1. /\ host.at = "t_eoi_ack" /\ lag > 0
      /\ ~Data
      /\ host' = [host EXCEPT !.at = "t_set", !.clock = TRUE]
      /\ lag' = 0 /\ UNCHANGED <<atn, dev, usingVIC20, offer, accepted, taken>>
  BY SeenByHost, Numbers DEF IInv, Types, Computer, HostSends, HostHears, HostReady, HostAt, Looked,
     history
<1>2. /\ host'.at = "t_set" /\ host'.clock = TRUE /\ host'.data = host.data
      /\ host'.byte = host.byte
      /\ host'.eoi = host.eoi /\ host'.bits = host.bits /\ host'.order = host.order
  BY <1>1 DEF IInv, Types, Hosts
<1>3. React' = React /\ ValidFor' = ValidFor /\ waited' \in Nat /\ Bits \in Nat /\ Bits > 1 /\ React \in Nat
      /\ lag \in Nat /\ lag <= React /\ dev.delay \in Nat /\ dev.left \in Nat /\ dev.count \in Nat
      /\ Len(dev.bits) \in Nat /\ Len(host.bits) \in Nat /\ Len(<<>>) = 0 /\ <<>> \in Seq(BOOLEAN)
      /\ React < Ticks(200) /\ Ticks(200) \in Nat
  BY <1>1, Numbers, Times DEF React, ValidFor, Looked, IInv, Types
<1>4. AtEoiAck
  BY <1>1 DEF IInv, Meets
<1>5. AtSet'
  <2>1. Begun /\ dev.at = "r_first"
    BY <1>1, <1>4, Lines DEF AtEoiAck, Data
  <2>2. Begun' /\ dev'.at = "r_first"
    BY <1>1, <2>1 DEF Begun, Hears
  <2>3. host'.eoi /\ host'.bits = <<>>
    BY <1>1, <1>2 DEF IInv, Computer, Midway, InEoi
  <2> QED BY <1>1, <2>2, <2>3 DEF AtSet
<1>6. Types'
  <2>1. host' \in Hosts
    BY <1>1, <1>2, <1>3 DEF IInv, Types, Hosts, HostPlaces, HostSends
  <2>2. atn' \in BOOLEAN /\ accepted' \in BOOLEAN
    BY <1>1, Zenon DEF IInv, Types
  <2>3. offer' \in Items \union {NoItem}
    BY <1>1 DEF IInv, Types
  <2> QED BY <1>1, <1>3, <2>1, <2>2, <2>3 DEF IInv, Types
<1>7. Drive'
  BY <1>1, <1>3, <1>4 DEF IInv, Drive, Pause, Pulls, Talks, AtEoiAck, Begun, Writing, Reading
<1>8. Computer'
  BY <1>1, <1>2, <1>3, <1>4 DEF IInv, Computer, HostHears, HostSends, HostClock, HostShows,
     HostData, Midway, NoEoi, InEoi, AtEoiAck
<1>9. Ordered'
  BY <1>1, <1>2, <1>3 DEF IInv, Ordered, Computer, HostHears, HostSends
<1> QED BY <1>1, <1>2, <1>5, <1>6, <1>7, <1>8, <1>9 DEF IInv, Meets

LEMMA HostEoiSeenKeeps == ASSUME IInv, HostEoiSeen, Looked, UNCHANGED <<atn, history>> PROVE IInv'
<1>1. /\ host.at = "t_eoi" /\ lag > 0
      /\ Data
      /\ host' = [host EXCEPT !.at = "t_eoi_ack"]
      /\ lag' = 0 /\ UNCHANGED <<atn, dev, usingVIC20, offer, accepted, taken>>
  BY SeenByHost, Numbers DEF IInv, Types, Computer, HostSends, HostHears, HostEoiSeen, HostAt,
     Looked, history
<1>2. /\ host'.at = "t_eoi_ack" /\ host'.clock = host.clock /\ host'.data = host.data
      /\ host'.byte = host.byte
      /\ host'.eoi = host.eoi /\ host'.bits = host.bits /\ host'.order = host.order
  BY <1>1 DEF IInv, Types, Hosts
<1>3. React' = React /\ ValidFor' = ValidFor /\ waited' \in Nat /\ Bits \in Nat /\ Bits > 1 /\ React \in Nat
      /\ lag \in Nat /\ lag <= React /\ dev.delay \in Nat /\ dev.left \in Nat /\ dev.count \in Nat
      /\ Len(dev.bits) \in Nat /\ Len(host.bits) \in Nat /\ Len(<<>>) = 0 /\ <<>> \in Seq(BOOLEAN)
      /\ React < Ticks(200) /\ Ticks(200) \in Nat
  BY <1>1, Numbers, Times DEF React, ValidFor, Looked, IInv, Types
<1>4. AtEoi
  BY <1>1 DEF IInv, Meets
<1>5. AtEoiAck'
  BY <1>1, <1>2, <1>3, <1>4, Lines DEF IInv, Types, Drive, Talks, Computer, AtEoi, AtEoiAck, Lasts,
     Hears, Begun, Data, Writing, Starts, NoEoi, InEoi, HostSends, HostHears
<1>6. Types'
  <2>1. host' \in Hosts
    BY <1>1, <1>2, <1>3 DEF IInv, Types, Hosts, HostPlaces, HostSends
  <2>2. atn' \in BOOLEAN /\ accepted' \in BOOLEAN
    BY <1>1, Zenon DEF IInv, Types
  <2>3. offer' \in Items \union {NoItem}
    BY <1>1 DEF IInv, Types
  <2> QED BY <1>1, <1>3, <2>1, <2>2, <2>3 DEF IInv, Types
<1>7. Drive'
  BY <1>1, <1>3, <1>4 DEF IInv, Drive, Pause, Pulls, Talks, AtEoi, Begun, Writing, Reading
<1>8. Computer'
  BY <1>1, <1>2, <1>3, <1>4 DEF IInv, Computer, HostHears, HostSends, HostClock, HostShows,
     HostData, Midway, NoEoi, InEoi, AtEoi
<1>9. Ordered'
  BY <1>1, <1>2, <1>3 DEF IInv, Ordered, Computer, HostHears, HostSends
<1> QED BY <1>1, <1>2, <1>5, <1>6, <1>7, <1>8, <1>9 DEF IInv, Meets

LEMMA HostBitKeeps == ASSUME IInv, HostBit, Looked, UNCHANGED <<atn, history>> PROVE IInv'
<1>1. /\ host.at = "t_set" /\ lag > 0
      /\ host' = [host EXCEPT !.at = "t_valid", !.data = ~host.byte[Len(host.bits) + 1]]
      /\ lag' = 0 /\ UNCHANGED <<atn, dev, usingVIC20, offer, accepted, taken>>
  BY SeenByHost, Numbers DEF IInv, Types, Computer, HostSends, HostHears, HostBit, HostAt, Looked,
     history
<1>2. /\ host'.at = "t_valid" /\ host'.clock = host.clock
      /\ host'.data = ~host.byte[Len(host.bits) + 1] /\ host'.byte = host.byte
      /\ host'.eoi = host.eoi /\ host'.bits = host.bits /\ host'.order = host.order
  BY <1>1 DEF IInv, Types, Hosts
<1>3. React' = React /\ ValidFor' = ValidFor /\ waited' \in Nat /\ Bits \in Nat /\ Bits > 1 /\ React \in Nat
      /\ lag \in Nat /\ lag <= React /\ dev.delay \in Nat /\ dev.left \in Nat /\ dev.count \in Nat
      /\ Len(dev.bits) \in Nat /\ Len(host.bits) \in Nat /\ Len(<<>>) = 0 /\ <<>> \in Seq(BOOLEAN)
      /\ React < Ticks(200) /\ Ticks(200) \in Nat
  BY <1>1, Numbers, Times DEF React, ValidFor, Looked, IInv, Types
<1>4. AtSet
  BY <1>1 DEF IInv, Meets
<1>5. AtValid'
  BY <1>1, <1>2, <1>3, <1>4, Lines DEF IInv, Types, Drive, Talks, Computer, AtSet, AtValid, Hears,
     SoFar, Begun, Writing, Starts, NoEoi, InEoi, HostSends, HostHears
<1>6. Types'
  <2>1. host' \in Hosts
    BY <1>1, <1>2, <1>3 DEF IInv, Types, Hosts, HostPlaces, HostSends
  <2>2. atn' \in BOOLEAN /\ accepted' \in BOOLEAN
    BY <1>1, Zenon DEF IInv, Types
  <2>3. offer' \in Items \union {NoItem}
    BY <1>1 DEF IInv, Types
  <2> QED BY <1>1, <1>3, <2>1, <2>2, <2>3 DEF IInv, Types
<1>7. Drive'
  BY <1>1, <1>3, <1>4 DEF IInv, Drive, Pause, Pulls, Talks, AtSet, Begun, Writing, Reading
<1>8. Computer'
  BY <1>1, <1>2, <1>3, <1>4 DEF IInv, Computer, HostHears, HostSends, HostClock, HostShows,
     HostData, Midway, NoEoi, InEoi, AtSet
<1>9. Ordered'
  BY <1>1, <1>2, <1>3 DEF IInv, Ordered, Computer, HostHears, HostSends
<1> QED BY <1>1, <1>2, <1>5, <1>6, <1>7, <1>8, <1>9 DEF IInv, Meets

LEMMA HostValidKeeps == ASSUME IInv, HostValid, Looked, UNCHANGED <<atn, history>> PROVE IInv'
<1>1. /\ host.at = "t_valid" /\ lag > 0
      /\ host' = [host EXCEPT !.at = "t_low", !.clock = FALSE]
      /\ lag' = 0 /\ UNCHANGED <<atn, dev, usingVIC20, offer, accepted, taken>>
  BY SeenByHost, Numbers DEF IInv, Types, Computer, HostSends, HostHears, HostValid, HostAt, Looked,
     history
<1>2. /\ host'.at = "t_low" /\ host'.clock = FALSE /\ host'.data = host.data
      /\ host'.byte = host.byte
      /\ host'.eoi = host.eoi /\ host'.bits = host.bits /\ host'.order = host.order
  BY <1>1 DEF IInv, Types, Hosts
<1>3. React' = React /\ ValidFor' = ValidFor /\ waited' \in Nat /\ Bits \in Nat /\ Bits > 1 /\ React \in Nat
      /\ lag \in Nat /\ lag <= React /\ dev.delay \in Nat /\ dev.left \in Nat /\ dev.count \in Nat
      /\ Len(dev.bits) \in Nat /\ Len(host.bits) \in Nat /\ Len(<<>>) = 0 /\ <<>> \in Seq(BOOLEAN)
      /\ React < Ticks(200) /\ Ticks(200) \in Nat
  BY <1>1, Numbers, Times DEF React, ValidFor, Looked, IInv, Types
<1>4. AtValid
  BY <1>1 DEF IInv, Meets
<1>5. AtLow'
  BY <1>1, <1>2, <1>3, <1>4, Lines DEF IInv, Types, Drive, Talks, Computer, AtValid, AtLow, Hears,
     SoFar, Writing, Starts, NoEoi, InEoi, HostSends, HostHears
<1>6. Types'
  <2>1. host' \in Hosts
    BY <1>1, <1>2, <1>3 DEF IInv, Types, Hosts, HostPlaces, HostSends
  <2>2. atn' \in BOOLEAN /\ accepted' \in BOOLEAN
    BY <1>1, Zenon DEF IInv, Types
  <2>3. offer' \in Items \union {NoItem}
    BY <1>1 DEF IInv, Types
  <2> QED BY <1>1, <1>3, <2>1, <2>2, <2>3 DEF IInv, Types
<1>7. Drive'
  BY <1>1, <1>3, <1>4 DEF IInv, Drive, Pause, Pulls, Talks, AtValid, Writing, Reading
<1>8. Computer'
  BY <1>1, <1>2, <1>3, <1>4 DEF IInv, Computer, HostHears, HostSends, HostClock, HostShows,
     HostData, Midway, NoEoi, InEoi, AtValid
<1>9. Ordered'
  BY <1>1, <1>2, <1>3 DEF IInv, Ordered, Computer, HostHears, HostSends
<1> QED BY <1>1, <1>2, <1>5, <1>6, <1>7, <1>8, <1>9 DEF IInv, Meets

LEMMA HostLowBitKeeps ==
  ASSUME IInv, HostLow, Looked, UNCHANGED <<atn, history>>, Len(host.bits) + 1 < Bits
  PROVE  IInv'
<1>1. /\ host.at = "t_low" /\ lag > 0
      /\ Len(host.bits) + 1 < Bits
      /\ host' = [host EXCEPT !.at = "t_set", !.clock = TRUE, !.data = FALSE,
                              !.bits = Append(host.bits, host.byte[Len(host.bits) + 1])]
      /\ lag' = 0 /\ UNCHANGED <<atn, dev, usingVIC20, offer, accepted, taken>>
  <2>1. host.at = "t_low" /\ lag > 0 /\ Len(host.bits) \in Nat /\ Bits \in Nat /\ host.bits \in Seq(BOOLEAN)
    BY Numbers DEF HostLow, HostAt, IInv
  <2>2. host.byte[Len(host.bits) + 1] \in BOOLEAN
    BY <2>1 DEF IInv, Types, Hosts, Byte
  <2>3. Len(Append(host.bits, host.byte[Len(host.bits) + 1])) = Len(host.bits) + 1
    BY <2>1, <2>2
  <2> QED BY <2>1, <2>3 DEF HostLow, Looked, history
<1>2. /\ host'.at = "t_set" /\ host'.clock = TRUE /\ host'.data = FALSE /\ host'.byte = host.byte
      /\ host'.eoi = host.eoi /\ host'.bits = Append(host.bits, host.byte[Len(host.bits) + 1])
      /\ host'.order = host.order
  BY <1>1 DEF IInv, Types, Hosts
<1>3. React' = React /\ ValidFor' = ValidFor /\ waited' \in Nat /\ Bits \in Nat /\ Bits > 1 /\ React \in Nat
      /\ lag \in Nat /\ lag <= React /\ dev.delay \in Nat /\ dev.left \in Nat /\ dev.count \in Nat
      /\ Len(dev.bits) \in Nat /\ Len(host.bits) \in Nat /\ Len(<<>>) = 0 /\ <<>> \in Seq(BOOLEAN)
      /\ React < Ticks(200) /\ Ticks(200) \in Nat
  BY <1>1, Numbers, Times DEF React, ValidFor, Looked, IInv, Types
<1>4. AtLow
  BY <1>1 DEF IInv, Meets
<1>5. AtSet'
  <2>1. ~accepted /\ Hears /\ dev.eoi = host.eoi /\ dev.at = "r_bit_end" /\ SoFar(Len(host.bits) + 1)
    BY <1>1, <1>3, <1>4 DEF AtLow
  <2>2. host.byte \in Byte /\ host.bits \in Seq(BOOLEAN) /\ Len(host.bits) < Bits
    BY <1>1, <1>3, Numbers DEF IInv, Types, Hosts
  <2>3. host.byte[Len(host.bits) + 1] \in BOOLEAN
    BY <1>3, <2>2, BitOfByte
  <2>4. Len(host'.bits) = Len(host.bits) + 1
    BY <1>2, <2>2, <2>3
  <2>5. SoFar(Len(host.bits))'
    BY <1>1, <1>2, <2>1, <2>4 DEF SoFar
  <2>6. Hears'
    BY <1>1, <2>1 DEF Hears
  <2> QED BY <1>1, <1>2, <2>1, <2>5, <2>6 DEF AtSet
<1>6. Types'
  <2>1. host' \in Hosts
    <3>1. host.byte \in Byte /\ Len(host.bits) < Bits
      BY <1>1, <1>3 DEF IInv, Types, Hosts
    <3>2. host.byte[Len(host.bits) + 1] \in BOOLEAN
      BY <1>3, <3>1, BitOfByte
    <3>3. Append(host.bits, host.byte[Len(host.bits) + 1]) \in Seq(BOOLEAN)
      BY <3>2, Numbers DEF IInv
    <3> QED BY <1>1, <3>3 DEF IInv, Types, Hosts, HostPlaces, HostSends
  <2>2. atn' \in BOOLEAN /\ accepted' \in BOOLEAN
    BY <1>1, Zenon DEF IInv, Types
  <2>3. offer' \in Items \union {NoItem}
    BY <1>1 DEF IInv, Types
  <2> QED BY <1>1, <1>3, <2>1, <2>2, <2>3 DEF IInv, Types
<1>7. Drive'
  BY <1>1, <1>3, <1>4 DEF IInv, Drive, Pause, Pulls, Talks, AtLow, Writing, Reading
<1>8. Computer'
  BY <1>1, <1>2, <1>3, <1>4 DEF IInv, Computer, HostHears, HostSends, HostClock, HostShows,
     HostData, Midway, NoEoi, InEoi, AtLow
<1>9. Ordered'
  BY <1>1, <1>2, <1>3 DEF IInv, Ordered, Computer, HostHears, HostSends
<1> QED BY <1>1, <1>2, <1>5, <1>6, <1>7, <1>8, <1>9 DEF IInv, Meets

LEMMA HostLowLastKeeps ==
  ASSUME IInv, HostLow, Looked, UNCHANGED <<atn, history>>, Len(host.bits) + 1 >= Bits
  PROVE  IInv'
<1>1. /\ host.at = "t_low" /\ lag > 0
      /\ Len(host.bits) + 1 = Bits
      /\ host' = [host EXCEPT !.at = "t_ack", !.clock = TRUE, !.data = FALSE, !.bits = <<>>]
      /\ lag' = 0 /\ UNCHANGED <<atn, dev, usingVIC20, offer, accepted, taken>>
  <2> DEFINE sent == Append(host.bits, host.byte[Len(host.bits) + 1])
  <2>1. host.at = "t_low" /\ lag > 0 /\ Len(host.bits) \in Nat /\ Bits \in Nat /\ host.bits \in Seq(BOOLEAN)
    BY Numbers DEF HostLow, HostAt, IInv
  <2>2. host.byte \in Byte /\ Len(host.bits) < Bits
    BY <2>1 DEF IInv, Types, Hosts, Computer, HostSends
  <2>3. host.byte[Len(host.bits) + 1] \in BOOLEAN
    BY <2>1, <2>2, BitOfByte
  <2>4. Len(sent) = Len(host.bits) + 1
    BY <2>1, <2>3
  <2>5. Len(host.bits) + 1 = Bits /\ ~(Len(sent) < Bits)
    BY <2>1, <2>2, <2>4
  <2>6. host' = [host EXCEPT !.at = IF Len(sent) < Bits THEN "t_set" ELSE "t_ack", !.clock = TRUE,
                             !.data = FALSE, !.bits = IF Len(sent) < Bits THEN sent ELSE <<>>]
    BY DEF HostLow
  <2> HIDE DEF sent
  <2> QED BY <2>1, <2>5, <2>6 DEF Looked, history
<1>2. /\ host'.at = "t_ack" /\ host'.clock = TRUE /\ host'.data = FALSE /\ host'.byte = host.byte
      /\ host'.eoi = host.eoi /\ host'.bits = <<>> /\ host'.order = host.order
  BY <1>1 DEF IInv, Types, Hosts
<1>3. React' = React /\ ValidFor' = ValidFor /\ waited' \in Nat /\ Bits \in Nat /\ Bits > 1 /\ React \in Nat
      /\ lag \in Nat /\ lag <= React /\ dev.delay \in Nat /\ dev.left \in Nat /\ dev.count \in Nat
      /\ Len(dev.bits) \in Nat /\ Len(host.bits) \in Nat /\ Len(<<>>) = 0 /\ <<>> \in Seq(BOOLEAN)
      /\ React < Ticks(200) /\ Ticks(200) \in Nat
  BY <1>1, Numbers, Times DEF React, ValidFor, Looked, IInv, Types
<1>4. AtLow
  BY <1>1 DEF IInv, Meets
<1>5. AtAck'
  BY <1>1, <1>2, <1>3, <1>4, Lines DEF IInv, Types, Drive, Talks, Computer, AtLow, AtAck, Dev,
     Hears, SoFar, Writing, Starts, NoEoi, InEoi, HostSends, HostHears
<1>6. Types'
  <2>1. host' \in Hosts
    BY <1>1, <1>2, <1>3 DEF IInv, Types, Hosts, HostPlaces, HostSends
  <2>2. atn' \in BOOLEAN /\ accepted' \in BOOLEAN
    BY <1>1, Zenon DEF IInv, Types
  <2>3. offer' \in Items \union {NoItem}
    BY <1>1 DEF IInv, Types
  <2> QED BY <1>1, <1>3, <2>1, <2>2, <2>3 DEF IInv, Types
<1>7. Drive'
  BY <1>1, <1>3, <1>4 DEF IInv, Drive, Pause, Pulls, Talks, AtLow, Writing, Reading
<1>8. Computer'
  BY <1>1, <1>2, <1>3, <1>4 DEF IInv, Computer, HostHears, HostSends, HostClock, HostShows,
     HostData, Midway, NoEoi, InEoi, AtLow
<1>9. Ordered'
  BY <1>1, <1>2, <1>3 DEF IInv, Ordered, Computer, HostHears, HostSends
<1> QED BY <1>1, <1>2, <1>5, <1>6, <1>7, <1>8, <1>9 DEF IInv, Meets

LEMMA HostAckEoiKeeps == ASSUME IInv, HostAck, Looked, host.eoi PROVE IInv'
<1>1. /\ host.at = "t_ack" /\ lag > 0
      /\ host.eoi /\ (Data \/ host.byte = Other)
      /\ host' = [host EXCEPT !.at = "idle", !.clock = FALSE]
      /\ lag' = 0 /\ UNCHANGED <<atn, dev, usingVIC20>> /\ offer' = NoItem /\ accepted' = FALSE
  BY SeenByHost, Numbers DEF IInv, Types, Computer, HostSends, HostHears, HostAck, HostAt, Looked,
     Ends
<1>2. /\ host'.at = "idle" /\ host'.clock = FALSE /\ host'.data = host.data
      /\ host'.byte = host.byte
      /\ host'.eoi = host.eoi /\ host'.bits = host.bits /\ host'.order = host.order
  BY <1>1 DEF IInv, Types, Hosts
<1>3. React' = React /\ ValidFor' = ValidFor /\ waited' \in Nat /\ Bits \in Nat /\ Bits > 1 /\ React \in Nat
      /\ lag \in Nat /\ lag <= React /\ dev.delay \in Nat /\ dev.left \in Nat /\ dev.count \in Nat
      /\ Len(dev.bits) \in Nat /\ Len(host.bits) \in Nat /\ Len(<<>>) = 0 /\ <<>> \in Seq(BOOLEAN)
      /\ React < Ticks(200) /\ Ticks(200) \in Nat
  BY <1>1, Numbers, Times DEF React, ValidFor, Looked, IInv, Types
<1>4. AtAck
  BY <1>1 DEF IInv, Meets
<1>5. AtIdle'
  <2>1. ~atn
    BY <1>1 DEF IInv, Computer
  <2>2. Dev("r_clock", "HANDLE")
    <3>1. ~(lag = 0)
      BY <1>1, <1>3
    <3> QED BY <1>4, <2>1, <3>1 DEF AtAck
  <2> QED BY <1>1, <2>2 DEF AtIdle, Dev
<1>6. Types'
  <2>1. host' \in Hosts
    BY <1>1, <1>2, <1>3 DEF IInv, Types, Hosts, HostPlaces, HostSends
  <2>2. atn' \in BOOLEAN /\ accepted' \in BOOLEAN
    BY <1>1, Zenon DEF IInv, Types
  <2>3. offer' \in Items \union {NoItem}
    BY <1>1 DEF IInv, Types
  <2> QED BY <1>1, <1>3, <2>1, <2>2, <2>3 DEF IInv, Types
<1>7. Drive'
  BY <1>1, <1>3, <1>4 DEF IInv, Drive, Pause, Pulls, Talks, AtAck, Dev, Writing, Reading
<1>8. Computer'
  BY <1>1, <1>2, <1>3, <1>4 DEF IInv, Computer, HostHears, HostSends, HostClock, HostShows,
     HostData, Midway, NoEoi, InEoi, AtAck
<1>9. Ordered'
  BY <1>1, <1>2, <1>3 DEF IInv, Ordered, Computer, HostHears, HostSends
<1> QED BY <1>1, <1>2, <1>5, <1>6, <1>7, <1>8, <1>9 DEF IInv, Meets

LEMMA HostAckNextKeeps == ASSUME IInv, HostAck, Looked, ~host.eoi PROVE IInv'
<1>1. /\ host.at = "t_ack" /\ lag > 0
      /\ ~host.eoi /\ (Data \/ host.byte = Other)
      /\ host' = [host EXCEPT !.at = "t_next"]
      /\ lag' = 0 /\ UNCHANGED <<atn, dev, usingVIC20>> /\ offer' = NoItem /\ accepted' = FALSE
  BY SeenByHost, Numbers DEF IInv, Types, Computer, HostSends, HostHears, HostAck, HostAt, Looked,
     Ends
<1>2. /\ host'.at = "t_next" /\ host'.clock = host.clock /\ host'.data = host.data
      /\ host'.byte = host.byte
      /\ host'.eoi = host.eoi /\ host'.bits = host.bits /\ host'.order = host.order
  BY <1>1 DEF IInv, Types, Hosts
<1>3. React' = React /\ ValidFor' = ValidFor /\ waited' \in Nat /\ Bits \in Nat /\ Bits > 1 /\ React \in Nat
      /\ lag \in Nat /\ lag <= React /\ dev.delay \in Nat /\ dev.left \in Nat /\ dev.count \in Nat
      /\ Len(dev.bits) \in Nat /\ Len(host.bits) \in Nat /\ Len(<<>>) = 0 /\ <<>> \in Seq(BOOLEAN)
      /\ React < Ticks(200) /\ Ticks(200) \in Nat
  BY <1>1, Numbers, Times DEF React, ValidFor, Looked, IInv, Types
<1>4. AtAck
  BY <1>1 DEF IInv, Meets
<1>5. AtNext'
  BY <1>1, <1>2, <1>3, <1>4, Lines DEF IInv, Types, Drive, Talks, Computer, AtAck, AtNext, Dev,
     Hears, SoFar, Data, Writing, Starts, NoEoi, InEoi, HostSends, HostHears
<1>6. Types'
  <2>1. host' \in Hosts
    BY <1>1, <1>2, <1>3 DEF IInv, Types, Hosts, HostPlaces, HostSends
  <2>2. atn' \in BOOLEAN /\ accepted' \in BOOLEAN
    BY <1>1, Zenon DEF IInv, Types
  <2>3. offer' \in Items \union {NoItem}
    BY <1>1 DEF IInv, Types
  <2> QED BY <1>1, <1>3, <2>1, <2>2, <2>3 DEF IInv, Types
<1>7. Drive'
  BY <1>1, <1>3, <1>4 DEF IInv, Drive, Pause, Pulls, Talks, AtAck, Dev, Writing, Reading
<1>8. Computer'
  BY <1>1, <1>2, <1>3, <1>4 DEF IInv, Computer, HostHears, HostSends, HostClock, HostShows,
     HostData, Midway, NoEoi, InEoi, AtAck
<1>9. Ordered'
  BY <1>1, <1>2, <1>3 DEF IInv, Ordered, Computer, HostHears, HostSends
<1> QED BY <1>1, <1>2, <1>5, <1>6, <1>7, <1>8, <1>9 DEF IInv, Meets

LEMMA HostTurnedKeeps == ASSUME IInv, HostTurned, Looked, UNCHANGED <<atn, history>> PROVE IInv'
<1>1. /\ host.at = "l_turn" /\ lag > 0
      /\ Clock
      /\ host' = [host EXCEPT !.at = "l_clock"]
      /\ lag' = 0 /\ UNCHANGED <<atn, dev, usingVIC20, offer, accepted, taken>>
  BY SeenByHost, Numbers DEF IInv, Types, Computer, HostSends, HostHears, HostTurned, HostAt,
     Looked, history
<1>2. /\ host'.at = "l_clock" /\ host'.clock = host.clock /\ host'.data = host.data
      /\ host'.byte = host.byte
      /\ host'.eoi = host.eoi /\ host'.bits = host.bits /\ host'.order = host.order
  BY <1>1 DEF IInv, Types, Hosts
<1>3. React' = React /\ ValidFor' = ValidFor /\ waited' \in Nat /\ Bits \in Nat /\ Bits > 1 /\ React \in Nat
      /\ lag \in Nat /\ lag <= React /\ dev.delay \in Nat /\ dev.left \in Nat /\ dev.count \in Nat
      /\ Len(dev.bits) \in Nat /\ Len(host.bits) \in Nat /\ Len(<<>>) = 0 /\ <<>> \in Seq(BOOLEAN)
      /\ React < Ticks(200) /\ Ticks(200) \in Nat
  BY <1>1, Numbers, Times DEF React, ValidFor, Looked, IInv, Types
<1>4. AtTurn
  BY <1>1 DEF IInv, Meets
<1>5. AtClock'
  BY <1>1, <1>2, <1>3, <1>4, Lines DEF IInv, Types, Drive, Talks, Computer, AtTurn, AtClock, Dev,
     Lasts, Clock, Writing, Starts, NoEoi, InEoi, HostSends, HostHears
<1>6. Types'
  <2>1. host' \in Hosts
    BY <1>1, <1>2, <1>3 DEF IInv, Types, Hosts, HostPlaces, HostSends
  <2>2. atn' \in BOOLEAN /\ accepted' \in BOOLEAN
    BY <1>1, Zenon DEF IInv, Types
  <2>3. offer' \in Items \union {NoItem}
    BY <1>1 DEF IInv, Types
  <2> QED BY <1>1, <1>3, <2>1, <2>2, <2>3 DEF IInv, Types
<1>7. Drive'
  BY <1>1, <1>3, <1>4 DEF IInv, Drive, Pause, Pulls, Talks, AtTurn, Dev, Writing, Reading
<1>8. Computer'
  BY <1>1, <1>2, <1>3, <1>4 DEF IInv, Computer, HostHears, HostSends, HostClock, HostShows,
     HostData, Midway, NoEoi, InEoi, AtTurn
<1>9. Ordered'
  BY <1>1, <1>2, <1>3 DEF IInv, Ordered, Computer, HostHears, HostSends
<1> QED BY <1>1, <1>2, <1>5, <1>6, <1>7, <1>8, <1>9 DEF IInv, Meets

LEMMA HostTalkerKeeps == ASSUME IInv, HostTalker, Looked, UNCHANGED <<atn, history>> PROVE IInv'
<1>1. /\ host.at = "l_clock" /\ lag > 0
      /\ ~Clock /\ ~host.eoi
      /\ host' = [host EXCEPT !.at = "l_ready"]
      /\ lag' = 0 /\ UNCHANGED <<atn, dev, usingVIC20, offer, accepted, taken>>
  BY SeenByHost, Numbers DEF IInv, Types, Computer, HostSends, HostHears, HostTalker, HostAt,
     Looked, history
<1>2. /\ host'.at = "l_ready" /\ host'.clock = host.clock /\ host'.data = host.data
      /\ host'.byte = host.byte
      /\ host'.eoi = host.eoi /\ host'.bits = host.bits /\ host'.order = host.order
  BY <1>1 DEF IInv, Types, Hosts
<1>3. React' = React /\ ValidFor' = ValidFor /\ waited' \in Nat /\ Bits \in Nat /\ Bits > 1 /\ React \in Nat
      /\ lag \in Nat /\ lag <= React /\ dev.delay \in Nat /\ dev.left \in Nat /\ dev.count \in Nat
      /\ Len(dev.bits) \in Nat /\ Len(host.bits) \in Nat /\ Len(<<>>) = 0 /\ <<>> \in Seq(BOOLEAN)
      /\ React < Ticks(200) /\ Ticks(200) \in Nat
  BY <1>1, Numbers, Times DEF React, ValidFor, Looked, IInv, Types
<1>4. AtClock
  BY <1>1 DEF IInv, Meets
<1>5. AtListens'
  BY <1>1, <1>2, <1>3, <1>4, Lines DEF IInv, Types, Drive, Talks, Computer, AtClock, AtListens,
     Clock, Writing, Starts, NoEoi, InEoi, HostSends, HostHears
<1>6. Types'
  <2>1. host' \in Hosts
    BY <1>1, <1>2, <1>3 DEF IInv, Types, Hosts, HostPlaces, HostSends
  <2>2. atn' \in BOOLEAN /\ accepted' \in BOOLEAN
    BY <1>1, Zenon DEF IInv, Types
  <2>3. offer' \in Items \union {NoItem}
    BY <1>1 DEF IInv, Types
  <2> QED BY <1>1, <1>3, <2>1, <2>2, <2>3 DEF IInv, Types
<1>7. Drive'
  BY <1>1, <1>3, <1>4 DEF IInv, Drive, Pause, Pulls, Talks, AtClock, Writing, Reading
<1>8. Computer'
  BY <1>1, <1>2, <1>3, <1>4 DEF IInv, Computer, HostHears, HostSends, HostClock, HostShows,
     HostData, Midway, NoEoi, InEoi, AtClock
<1>9. Ordered'
  BY <1>1, <1>2, <1>3 DEF IInv, Ordered, Computer, HostHears, HostSends
<1> QED BY <1>1, <1>2, <1>5, <1>6, <1>7, <1>8, <1>9 DEF IInv, Meets

LEMMA HostTimeBitKeeps ==
  ASSUME IInv, HostTime, Looked, UNCHANGED <<atn, history>>, Clock
  PROVE  IInv'
<1>1. /\ host.at = "l_time" /\ lag > 0
      /\ Clock
      /\ host' = [host EXCEPT !.at = "l_bit"]
      /\ lag' = 0 /\ UNCHANGED <<atn, dev, usingVIC20, offer, accepted, taken>>
  BY SeenByHost, Numbers DEF IInv, Types, Computer, HostSends, HostHears, HostTime, HostAt, Looked,
     history
<1>2. /\ host'.at = "l_bit" /\ host'.clock = host.clock /\ host'.data = host.data
      /\ host'.byte = host.byte
      /\ host'.eoi = host.eoi /\ host'.bits = host.bits /\ host'.order = host.order
  BY <1>1 DEF IInv, Types, Hosts
<1>3. React' = React /\ ValidFor' = ValidFor /\ waited' \in Nat /\ Bits \in Nat /\ Bits > 1 /\ React \in Nat
      /\ lag \in Nat /\ lag <= React /\ dev.delay \in Nat /\ dev.left \in Nat /\ dev.count \in Nat
      /\ Len(dev.bits) \in Nat /\ Len(host.bits) \in Nat /\ Len(<<>>) = 0 /\ <<>> \in Seq(BOOLEAN)
      /\ React < Ticks(200) /\ Ticks(200) \in Nat
  BY <1>1, Numbers, Times DEF React, ValidFor, Looked, IInv, Types
<1>4. AtTime
  BY <1>1 DEF IInv, Meets
<1>5. AtBit'
  <2>1. dev.left > 1 /\ ~accepted /\ dev.at \in {"w_free", "w_set"}
    BY <1>1, <1>3, <1>4, Lines DEF AtTime, Clock
  <2>2. dev.bits = <<>>
    BY <1>1, <1>3, <1>4, <2>1 DEF AtTime, IInv, Drive, Talks, Starts
  <2>3. host.bits = <<>> /\ ~host.eoi /\ host.eoi \in BOOLEAN
    BY <1>1 DEF IInv, Computer, Midway, NoEoi, Types, Hosts
  <2>4. Heard(0)'
    BY <1>2, <1>3, <2>3 DEF Heard
  <2>5. ~accepted' /\ host'.eoi = (dev'.left = 1)
    BY <1>1, <1>2, <1>3, <2>1, <2>3
  <2> QED BY <1>1, <1>2, <1>3, <2>1, <2>2, <2>3, <2>4, <2>5 DEF AtBit
<1>6. Types'
  <2>1. host' \in Hosts
    BY <1>1, <1>2, <1>3 DEF IInv, Types, Hosts, HostPlaces, HostSends
  <2>2. atn' \in BOOLEAN /\ accepted' \in BOOLEAN
    BY <1>1, Zenon DEF IInv, Types
  <2>3. offer' \in Items \union {NoItem}
    BY <1>1 DEF IInv, Types
  <2> QED BY <1>1, <1>3, <2>1, <2>2, <2>3 DEF IInv, Types
<1>7. Drive'
  BY <1>1, <1>3, <1>4 DEF IInv, Drive, Pause, Pulls, Talks, AtTime, Writing, Reading
<1>8. Computer'
  BY <1>1, <1>2, <1>3, <1>4 DEF IInv, Computer, HostHears, HostSends, HostClock, HostShows,
     HostData, Midway, NoEoi, InEoi, AtTime
<1>9. Ordered'
  BY <1>1, <1>2, <1>3 DEF IInv, Ordered, Computer, HostHears, HostSends
<1> QED BY <1>1, <1>2, <1>5, <1>6, <1>7, <1>8, <1>9 DEF IInv, Meets

LEMMA HostTimeEoiKeeps ==
  ASSUME IInv, HostTime, Looked, UNCHANGED <<atn, history>>, ~Clock
  PROVE  IInv'
<1>1. /\ host.at = "l_time" /\ lag > 0
      /\ ~Clock
      /\ host' = [host EXCEPT !.at = "l_eoi", !.data = TRUE, !.eoi = TRUE]
      /\ lag' = 0 /\ UNCHANGED <<atn, dev, usingVIC20, offer, accepted, taken>>
  BY SeenByHost, Numbers DEF IInv, Types, Computer, HostSends, HostHears, HostTime, HostAt, Looked,
     history
<1>2. /\ host'.at = "l_eoi" /\ host'.clock = host.clock /\ host'.data = TRUE
      /\ host'.byte = host.byte
      /\ host'.eoi = TRUE /\ host'.bits = host.bits /\ host'.order = host.order
  BY <1>1 DEF IInv, Types, Hosts
<1>3. React' = React /\ ValidFor' = ValidFor /\ waited' \in Nat /\ Bits \in Nat /\ Bits > 1 /\ React \in Nat
      /\ lag \in Nat /\ lag <= React /\ dev.delay \in Nat /\ dev.left \in Nat /\ dev.count \in Nat
      /\ Len(dev.bits) \in Nat /\ Len(host.bits) \in Nat /\ Len(<<>>) = 0 /\ <<>> \in Seq(BOOLEAN)
      /\ React < Ticks(200) /\ Ticks(200) \in Nat
  BY <1>1, Numbers, Times DEF React, ValidFor, Looked, IInv, Types
<1>4. AtTime
  BY <1>1 DEF IInv, Meets
<1>5. AtAnswer'
  BY <1>1, <1>2, <1>3, <1>4, Lines DEF IInv, Types, Drive, Talks, Computer, AtTime, AtAnswer, Lasts,
     Clock, Writing, Starts, NoEoi, InEoi, HostSends, HostHears
<1>6. Types'
  <2>1. host' \in Hosts
    BY <1>1, <1>2, <1>3 DEF IInv, Types, Hosts, HostPlaces, HostSends
  <2>2. atn' \in BOOLEAN /\ accepted' \in BOOLEAN
    BY <1>1, Zenon DEF IInv, Types
  <2>3. offer' \in Items \union {NoItem}
    BY <1>1 DEF IInv, Types
  <2> QED BY <1>1, <1>3, <2>1, <2>2, <2>3 DEF IInv, Types
<1>7. Drive'
  BY <1>1, <1>3, <1>4 DEF IInv, Drive, Pause, Pulls, Talks, AtTime, Writing, Reading
<1>8. Computer'
  BY <1>1, <1>2, <1>3, <1>4 DEF IInv, Computer, HostHears, HostSends, HostClock, HostShows,
     HostData, Midway, NoEoi, InEoi, AtTime
<1>9. Ordered'
  BY <1>1, <1>2, <1>3 DEF IInv, Ordered, Computer, HostHears, HostSends
<1> QED BY <1>1, <1>2, <1>5, <1>6, <1>7, <1>8, <1>9 DEF IInv, Meets

LEMMA HostEoiKeeps == ASSUME IInv, HostEoi, Looked, UNCHANGED <<atn, history>> PROVE IInv'
<1>1. /\ host.at = "l_eoi" /\ lag > 0
      /\ host' = [host EXCEPT !.at = "l_first", !.data = FALSE]
      /\ lag' = 0 /\ UNCHANGED <<atn, dev, usingVIC20, offer, accepted, taken>>
  BY SeenByHost, Numbers DEF IInv, Types, Computer, HostSends, HostHears, HostEoi, HostAt, Looked,
     history
<1>2. /\ host'.at = "l_first" /\ host'.clock = host.clock /\ host'.data = FALSE
      /\ host'.byte = host.byte
      /\ host'.eoi = host.eoi /\ host'.bits = host.bits /\ host'.order = host.order
  BY <1>1 DEF IInv, Types, Hosts
<1>3. React' = React /\ ValidFor' = ValidFor /\ waited' \in Nat /\ Bits \in Nat /\ Bits > 1 /\ React \in Nat
      /\ lag \in Nat /\ lag <= React /\ dev.delay \in Nat /\ dev.left \in Nat /\ dev.count \in Nat
      /\ Len(dev.bits) \in Nat /\ Len(host.bits) \in Nat /\ Len(<<>>) = 0 /\ <<>> \in Seq(BOOLEAN)
      /\ React < Ticks(200) /\ Ticks(200) \in Nat
  BY <1>1, Numbers, Times DEF React, ValidFor, Looked, IInv, Types
<1>4. AtAnswer
  BY <1>1 DEF IInv, Meets
<1>5. AtFirst'
  BY <1>1, <1>2, <1>3, <1>4, Lines DEF IInv, Types, Drive, Talks, Computer, AtAnswer, AtFirst,
     Lasts, Writing, Starts, NoEoi, InEoi, HostSends, HostHears
<1>6. Types'
  <2>1. host' \in Hosts
    BY <1>1, <1>2, <1>3 DEF IInv, Types, Hosts, HostPlaces, HostSends
  <2>2. atn' \in BOOLEAN /\ accepted' \in BOOLEAN
    BY <1>1, Zenon DEF IInv, Types
  <2>3. offer' \in Items \union {NoItem}
    BY <1>1 DEF IInv, Types
  <2> QED BY <1>1, <1>3, <2>1, <2>2, <2>3 DEF IInv, Types
<1>7. Drive'
  BY <1>1, <1>3, <1>4 DEF IInv, Drive, Pause, Pulls, Talks, AtAnswer, Writing, Reading
<1>8. Computer'
  BY <1>1, <1>2, <1>3, <1>4 DEF IInv, Computer, HostHears, HostSends, HostClock, HostShows,
     HostData, Midway, NoEoi, InEoi, AtAnswer
<1>9. Ordered'
  BY <1>1, <1>2, <1>3 DEF IInv, Ordered, Computer, HostHears, HostSends
<1> QED BY <1>1, <1>2, <1>5, <1>6, <1>7, <1>8, <1>9 DEF IInv, Meets

LEMMA HostFirstKeeps == ASSUME IInv, HostFirst, Looked, UNCHANGED <<atn, history>> PROVE IInv'
<1>1. /\ host.at = "l_first" /\ lag > 0
      /\ Clock
      /\ host' = [host EXCEPT !.at = "l_bit"]
      /\ lag' = 0 /\ UNCHANGED <<atn, dev, usingVIC20, offer, accepted, taken>>
  BY SeenByHost, Numbers DEF IInv, Types, Computer, HostSends, HostHears, HostFirst, HostAt, Looked,
     history
<1>2. /\ host'.at = "l_bit" /\ host'.clock = host.clock /\ host'.data = host.data
      /\ host'.byte = host.byte
      /\ host'.eoi = host.eoi /\ host'.bits = host.bits /\ host'.order = host.order
  BY <1>1 DEF IInv, Types, Hosts
<1>3. React' = React /\ ValidFor' = ValidFor /\ waited' \in Nat /\ Bits \in Nat /\ Bits > 1 /\ React \in Nat
      /\ lag \in Nat /\ lag <= React /\ dev.delay \in Nat /\ dev.left \in Nat /\ dev.count \in Nat
      /\ Len(dev.bits) \in Nat /\ Len(host.bits) \in Nat /\ Len(<<>>) = 0 /\ <<>> \in Seq(BOOLEAN)
      /\ React < Ticks(200) /\ Ticks(200) \in Nat
  BY <1>1, Numbers, Times DEF React, ValidFor, Looked, IInv, Types
<1>4. AtFirst
  BY <1>1 DEF IInv, Meets
<1>5. AtBit'
  <2>1. dev.left = 1 /\ ~accepted /\ dev.at \in {"w_free", "w_set"}
    BY <1>1, <1>3, <1>4, Lines DEF AtFirst, Clock
  <2>2. dev.bits = <<>>
    BY <1>1, <1>3, <1>4, <2>1 DEF AtFirst, IInv, Drive, Talks, Starts
  <2>3. host.bits = <<>> /\ host.eoi /\ host.eoi \in BOOLEAN
    BY <1>1 DEF IInv, Computer, Midway, InEoi, Types, Hosts
  <2>4. Heard(0)'
    BY <1>2, <1>3, <2>3 DEF Heard
  <2>5. ~accepted' /\ host'.eoi = (dev'.left = 1)
    BY <1>1, <1>2, <1>3, <2>1, <2>3
  <2> QED BY <1>1, <1>2, <1>3, <2>1, <2>2, <2>3, <2>4, <2>5 DEF AtBit
<1>6. Types'
  <2>1. host' \in Hosts
    BY <1>1, <1>2, <1>3 DEF IInv, Types, Hosts, HostPlaces, HostSends
  <2>2. atn' \in BOOLEAN /\ accepted' \in BOOLEAN
    BY <1>1, Zenon DEF IInv, Types
  <2>3. offer' \in Items \union {NoItem}
    BY <1>1 DEF IInv, Types
  <2> QED BY <1>1, <1>3, <2>1, <2>2, <2>3 DEF IInv, Types
<1>7. Drive'
  BY <1>1, <1>3, <1>4 DEF IInv, Drive, Pause, Pulls, Talks, AtFirst, Writing, Reading
<1>8. Computer'
  BY <1>1, <1>2, <1>3, <1>4 DEF IInv, Computer, HostHears, HostSends, HostClock, HostShows,
     HostData, Midway, NoEoi, InEoi, AtFirst
<1>9. Ordered'
  BY <1>1, <1>2, <1>3 DEF IInv, Ordered, Computer, HostHears, HostSends
<1> QED BY <1>1, <1>2, <1>5, <1>6, <1>7, <1>8, <1>9 DEF IInv, Meets

LEMMA HostHearKeeps == ASSUME IInv, HostHear, Looked, UNCHANGED <<atn, history>> PROVE IInv'
<1>1. /\ host.at = "l_bit" /\ lag > 0
      /\ ~Clock
      /\ host' = [host EXCEPT !.at = "l_bit_end", !.bits = Append(host.bits, ~Data)]
      /\ lag' = 0 /\ UNCHANGED <<atn, dev, usingVIC20, offer, accepted, taken>>
  BY SeenByHost, Numbers DEF IInv, Types, Computer, HostSends, HostHears, HostHear, HostAt, Looked,
     history
<1>2. /\ host'.at = "l_bit_end" /\ host'.clock = host.clock /\ host'.data = host.data
      /\ host'.byte = host.byte
      /\ host'.eoi = host.eoi /\ host'.bits = Append(host.bits, ~Data) /\ host'.order = host.order
  BY <1>1 DEF IInv, Types, Hosts
<1>3. React' = React /\ ValidFor' = ValidFor /\ waited' \in Nat /\ Bits \in Nat /\ Bits > 1 /\ React \in Nat
      /\ lag \in Nat /\ lag <= React /\ dev.delay \in Nat /\ dev.left \in Nat /\ dev.count \in Nat
      /\ Len(dev.bits) \in Nat /\ Len(host.bits) \in Nat /\ Len(<<>>) = 0 /\ <<>> \in Seq(BOOLEAN)
      /\ React < Ticks(200) /\ Ticks(200) \in Nat
  BY <1>1, Numbers, Times DEF React, ValidFor, Looked, IInv, Types
<1>4. AtBit
  BY <1>1 DEF IInv, Meets
<1>5. AtBitEnd'
  <2> DEFINE n == Len(host.bits)
             x == dev.byte[n + 1]
  <2>1. dev.at = "w_low" /\ Len(dev.bits) = n
    BY <1>1, <1>3, <1>4, Lines DEF AtBit, Clock
  <2>2. /\ ~accepted /\ host.eoi = (dev.left = 1) /\ n < Bits /\ n \in Nat
        /\ host.bits \in Seq(BOOLEAN)
        /\ \A i \in 1 .. n : host.bits[i] = dev.byte[i]
    BY <1>3, <1>4, Numbers DEF AtBit, Heard, IInv
  <2>3. x \in BOOLEAN
    <3>1. dev.byte \in Byte
      BY DEF IInv, Types, Drives
    <3> QED BY <2>2, <3>1, BitOfByte
  <2>4. Data = ~x
    BY <1>1, <2>1, <2>3, Lines DEF Data, IInv, Drive, Pulls, Shows
  <2>5. host'.bits = Append(host.bits, x)
    BY <1>2, <2>3, <2>4
  <2>6. Len(host'.bits) = n + 1 /\ host'.bits[n + 1] = x /\ \A i \in 1 .. n : host'.bits[i] = host.bits[i]
    BY <2>2, <2>3, <2>5
  <2>7. \A i \in 1 .. n + 1 : host'.bits[i] = dev.byte[i]
    <3>1. TAKE i \in 1 .. n + 1
    <3>2. CASE i = n + 1
      BY <2>6, <3>2
    <3>3. CASE i # n + 1
      <4>1. i \in 1 .. n
        BY <2>2, <3>3
      <4> QED BY <2>2, <2>6, <4>1
    <3> QED BY <3>2, <3>3
  <2>8. Heard(Len(host.bits))'
    BY <1>1, <2>6, <2>7 DEF Heard
  <2> QED BY <1>1, <1>2, <1>3, <2>1, <2>2, <2>6, <2>8 DEF AtBitEnd
<1>6. Types'
  <2>1. host' \in Hosts
    <3>1. Append(host.bits, ~Data) \in Seq(BOOLEAN)
      BY Numbers DEF IInv
    <3> QED BY <1>1, <3>1 DEF IInv, Types, Hosts, HostPlaces, HostSends
  <2>2. atn' \in BOOLEAN /\ accepted' \in BOOLEAN
    BY <1>1, Zenon DEF IInv, Types
  <2>3. offer' \in Items \union {NoItem}
    BY <1>1 DEF IInv, Types
  <2> QED BY <1>1, <1>3, <2>1, <2>2, <2>3 DEF IInv, Types
<1>7. Drive'
  BY <1>1, <1>3, <1>4 DEF IInv, Drive, Pause, Pulls, Talks, AtBit, Writing, Reading
<1>8. Computer'
  BY <1>1, <1>2, <1>3, <1>4 DEF IInv, Computer, HostHears, HostSends, HostClock, HostShows,
     HostData, Midway, NoEoi, InEoi, AtBit
<1>9. Ordered'
  BY <1>1, <1>2, <1>3 DEF IInv, Ordered, Computer, HostHears, HostSends
<1> QED BY <1>1, <1>2, <1>5, <1>6, <1>7, <1>8, <1>9 DEF IInv, Meets

LEMMA HostBitEndsMoreKeeps ==
  ASSUME IInv, HostBitEnd, Looked, UNCHANGED <<atn, history>>, Len(host.bits) < Bits
  PROVE  IInv'
<1>1. /\ host.at = "l_bit_end" /\ lag > 0
      /\ Clock
      /\ host' = [host EXCEPT !.at = "l_bit"]
      /\ lag' = 0 /\ UNCHANGED <<atn, dev, usingVIC20, offer, accepted, taken>>
  BY SeenByHost, Numbers DEF IInv, Types, Computer, HostSends, HostHears, HostBitEnd, HostAt,
     Looked, history
<1>2. /\ host'.at = "l_bit" /\ host'.clock = host.clock /\ host'.data = host.data
      /\ host'.byte = host.byte
      /\ host'.eoi = host.eoi /\ host'.bits = host.bits /\ host'.order = host.order
  BY <1>1 DEF IInv, Types, Hosts
<1>3. React' = React /\ ValidFor' = ValidFor /\ waited' \in Nat /\ Bits \in Nat /\ Bits > 1 /\ React \in Nat
      /\ lag \in Nat /\ lag <= React /\ dev.delay \in Nat /\ dev.left \in Nat /\ dev.count \in Nat
      /\ Len(dev.bits) \in Nat /\ Len(host.bits) \in Nat /\ Len(<<>>) = 0 /\ <<>> \in Seq(BOOLEAN)
      /\ React < Ticks(200) /\ Ticks(200) \in Nat
  BY <1>1, Numbers, Times DEF React, ValidFor, Looked, IInv, Types
<1>4. AtBitEnd
  BY <1>1 DEF IInv, Meets
<1>5. AtBit'
  BY <1>1, <1>2, <1>3, <1>4, Lines DEF IInv, Types, Drive, Talks, Computer, AtBitEnd, AtBit, Lasts,
     Heard, Clock, Writing, Starts, NoEoi, InEoi, HostSends, HostHears
<1>6. Types'
  <2>1. host' \in Hosts
    BY <1>1, <1>2, <1>3 DEF IInv, Types, Hosts, HostPlaces, HostSends
  <2>2. atn' \in BOOLEAN /\ accepted' \in BOOLEAN
    BY <1>1, Zenon DEF IInv, Types
  <2>3. offer' \in Items \union {NoItem}
    BY <1>1 DEF IInv, Types
  <2> QED BY <1>1, <1>3, <2>1, <2>2, <2>3 DEF IInv, Types
<1>7. Drive'
  BY <1>1, <1>3, <1>4 DEF IInv, Drive, Pause, Pulls, Talks, AtBitEnd, Writing, Reading
<1>8. Computer'
  BY <1>1, <1>2, <1>3, <1>4 DEF IInv, Computer, HostHears, HostSends, HostClock, HostShows,
     HostData, Midway, NoEoi, InEoi, AtBitEnd
<1>9. Ordered'
  BY <1>1, <1>2, <1>3 DEF IInv, Ordered, Computer, HostHears, HostSends
<1> QED BY <1>1, <1>2, <1>5, <1>6, <1>7, <1>8, <1>9 DEF IInv, Meets

LEMMA HostBitEndsLastKeeps ==
  ASSUME IInv, HostBitEnd, Looked, UNCHANGED <<atn, history>>, Len(host.bits) >= Bits
  PROVE  IInv'
<1>1. /\ host.at = "l_bit_end" /\ lag > 0
      /\ Clock
      /\ host' = [host EXCEPT !.at = "l_ack"]
      /\ lag' = 0 /\ UNCHANGED <<atn, dev, usingVIC20, offer, accepted, taken>>
  BY SeenByHost, Numbers DEF IInv, Types, Computer, HostSends, HostHears, HostBitEnd, HostAt,
     Looked, history
<1>2. /\ host'.at = "l_ack" /\ host'.clock = host.clock /\ host'.data = host.data
      /\ host'.byte = host.byte
      /\ host'.eoi = host.eoi /\ host'.bits = host.bits /\ host'.order = host.order
  BY <1>1 DEF IInv, Types, Hosts
<1>3. React' = React /\ ValidFor' = ValidFor /\ waited' \in Nat /\ Bits \in Nat /\ Bits > 1 /\ React \in Nat
      /\ lag \in Nat /\ lag <= React /\ dev.delay \in Nat /\ dev.left \in Nat /\ dev.count \in Nat
      /\ Len(dev.bits) \in Nat /\ Len(host.bits) \in Nat /\ Len(<<>>) = 0 /\ <<>> \in Seq(BOOLEAN)
      /\ React < Ticks(200) /\ Ticks(200) \in Nat
  BY <1>1, Numbers, Times DEF React, ValidFor, Looked, IInv, Types
<1>4. AtBitEnd
  BY <1>1 DEF IInv, Meets
<1>5. AtTake'
  <2>1. Len(host.bits) = Bits /\ Heard(Bits) /\ ~accepted /\ host.eoi = (dev.left = 1)
    BY <1>3, <1>4 DEF AtBitEnd, Heard
  <2>2. dev.at \in Shifts => Len(dev.bits) < Bits
    BY DEF IInv, Drive, Talks
  <2>3. dev.at = "w_ack" \/ (dev.at = "w_release" /\ Len(dev.bits) + 1 = Bits)
    BY <1>1, <1>3, <1>4, <2>1, <2>2, Lines DEF AtBitEnd, Clock, Shifts
  <2>4. Heard(Bits)'
    BY <1>1, <1>2, <2>1 DEF Heard
  <2> QED BY <1>1, <1>2, <2>1, <2>3, <2>4 DEF AtTake
<1>6. Types'
  <2>1. host' \in Hosts
    BY <1>1, <1>2, <1>3 DEF IInv, Types, Hosts, HostPlaces, HostSends
  <2>2. atn' \in BOOLEAN /\ accepted' \in BOOLEAN
    BY <1>1, Zenon DEF IInv, Types
  <2>3. offer' \in Items \union {NoItem}
    BY <1>1 DEF IInv, Types
  <2> QED BY <1>1, <1>3, <2>1, <2>2, <2>3 DEF IInv, Types
<1>7. Drive'
  BY <1>1, <1>3, <1>4 DEF IInv, Drive, Pause, Pulls, Talks, AtBitEnd, Writing, Reading
<1>8. Computer'
  BY <1>1, <1>2, <1>3, <1>4 DEF IInv, Computer, HostHears, HostSends, HostClock, HostShows,
     HostData, Midway, NoEoi, InEoi, AtBitEnd
<1>9. Ordered'
  BY <1>1, <1>2, <1>3 DEF IInv, Ordered, Computer, HostHears, HostSends
<1> QED BY <1>1, <1>2, <1>5, <1>6, <1>7, <1>8, <1>9 DEF IInv, Meets

LEMMA HostTakeKeeps == ASSUME IInv, HostTake, Looked PROVE IInv'
<1>1. /\ host.at = "l_ack" /\ lag > 0
      /\ host' = [host EXCEPT !.at = "l_clock", !.data = TRUE, !.bits = <<>>]
      /\ lag' = 0 /\ UNCHANGED <<atn, dev, usingVIC20, offer>> /\ accepted' = TRUE
  BY SeenByHost, Numbers DEF IInv, Types, Computer, HostSends, HostHears, HostTake, HostAt, Looked,
     Takes
<1>2. /\ host'.at = "l_clock" /\ host'.clock = host.clock /\ host'.data = TRUE
      /\ host'.byte = host.byte
      /\ host'.eoi = host.eoi /\ host'.bits = <<>> /\ host'.order = host.order
  BY <1>1 DEF IInv, Types, Hosts
<1>3. React' = React /\ ValidFor' = ValidFor /\ waited' \in Nat /\ Bits \in Nat /\ Bits > 1 /\ React \in Nat
      /\ lag \in Nat /\ lag <= React /\ dev.delay \in Nat /\ dev.left \in Nat /\ dev.count \in Nat
      /\ Len(dev.bits) \in Nat /\ Len(host.bits) \in Nat /\ Len(<<>>) = 0 /\ <<>> \in Seq(BOOLEAN)
      /\ React < Ticks(200) /\ Ticks(200) \in Nat
  BY <1>1, Numbers, Times DEF React, ValidFor, Looked, IInv, Types
<1>4. AtTake
  BY <1>1 DEF IInv, Meets
<1>5. AtClock'
  BY <1>1, <1>2, <1>3, <1>4, Lines DEF IInv, Types, Drive, Talks, Computer, AtTake, AtClock, Heard,
     Writing, Starts, NoEoi, InEoi, HostSends, HostHears
<1>6. Types'
  <2>1. host' \in Hosts
    BY <1>1, <1>2, <1>3 DEF IInv, Types, Hosts, HostPlaces, HostSends
  <2>2. atn' \in BOOLEAN /\ accepted' \in BOOLEAN
    BY <1>1, Zenon DEF IInv, Types
  <2>3. offer' \in Items \union {NoItem}
    BY <1>1 DEF IInv, Types
  <2> QED BY <1>1, <1>3, <2>1, <2>2, <2>3 DEF IInv, Types
<1>7. Drive'
  BY <1>1, <1>3, <1>4 DEF IInv, Drive, Pause, Pulls, Talks, AtTake, Writing, Reading
<1>8. Computer'
  BY <1>1, <1>2, <1>3, <1>4 DEF IInv, Computer, HostHears, HostSends, HostClock, HostShows,
     HostData, Midway, NoEoi, InEoi, AtTake
<1>9. Ordered'
  BY <1>1, <1>2, <1>3 DEF IInv, Ordered, Computer, HostHears, HostSends
<1> QED BY <1>1, <1>2, <1>5, <1>6, <1>7, <1>8, <1>9 DEF IInv, Meets

LEMMA HostDoneKeeps == ASSUME IInv, HostDone, Looked, UNCHANGED <<atn, history>> PROVE IInv'
<1>1. /\ host.at = "l_clock" /\ lag > 0
      /\ ~Clock /\ host.eoi
      /\ host' = [host EXCEPT !.at = "idle", !.data = FALSE]
      /\ lag' = 0 /\ UNCHANGED <<atn, dev, usingVIC20, offer, accepted, taken>>
  BY SeenByHost, Numbers DEF IInv, Types, Computer, HostSends, HostHears, HostDone, HostAt, Looked,
     history
<1>2. /\ host'.at = "idle" /\ host'.clock = host.clock /\ host'.data = FALSE
      /\ host'.byte = host.byte
      /\ host'.eoi = host.eoi /\ host'.bits = host.bits /\ host'.order = host.order
  BY <1>1 DEF IInv, Types, Hosts
<1>3. React' = React /\ ValidFor' = ValidFor /\ waited' \in Nat /\ Bits \in Nat /\ Bits > 1 /\ React \in Nat
      /\ lag \in Nat /\ lag <= React /\ dev.delay \in Nat /\ dev.left \in Nat /\ dev.count \in Nat
      /\ Len(dev.bits) \in Nat /\ Len(host.bits) \in Nat /\ Len(<<>>) = 0 /\ <<>> \in Seq(BOOLEAN)
      /\ React < Ticks(200) /\ Ticks(200) \in Nat
  BY <1>1, Numbers, Times DEF React, ValidFor, Looked, IInv, Types
<1>4. AtClock
  BY <1>1 DEF IInv, Meets
<1>5. AtIdle'
  BY <1>1, <1>2, <1>3, <1>4, Lines DEF IInv, Types, Drive, Talks, Computer, AtClock, AtIdle, Dev,
     Clock, Writing, Starts, NoEoi, InEoi, HostSends, HostHears
<1>6. Types'
  <2>1. host' \in Hosts
    BY <1>1, <1>2, <1>3 DEF IInv, Types, Hosts, HostPlaces, HostSends
  <2>2. atn' \in BOOLEAN /\ accepted' \in BOOLEAN
    BY <1>1, Zenon DEF IInv, Types
  <2>3. offer' \in Items \union {NoItem}
    BY <1>1 DEF IInv, Types
  <2> QED BY <1>1, <1>3, <2>1, <2>2, <2>3 DEF IInv, Types
<1>7. Drive'
  BY <1>1, <1>3, <1>4 DEF IInv, Drive, Pause, Pulls, Talks, AtClock, Writing, Reading
<1>8. Computer'
  <2>1. offer' = NoItem
    BY <1>1, <1>4, Lines DEF AtClock, Clock
  <2>2. ~atn /\ host'.bits = <<>>
    BY <1>1, <1>2 DEF IInv, Computer, HostHears, Midway
  <2> QED BY <1>1, <1>2, <1>3, <2>1, <2>2 DEF IInv, Computer, HostHears, HostSends, HostClock,
           HostShows, HostData, Midway, NoEoi, InEoi
<1>9. Ordered'
  BY <1>1, <1>2, <1>3 DEF IInv, Ordered, Computer, HostHears, HostSends
<1> QED BY <1>1, <1>2, <1>5, <1>6, <1>7, <1>8, <1>9 DEF IInv, Meets

LEMMA HostListensKeeps == ASSUME IInv, HostListens, Looked, UNCHANGED <<atn, history>> PROVE IInv'
<1>1. /\ host.at = "l_ready" /\ lag > 0
      /\ host' = [host EXCEPT !.at = "l_time", !.data = FALSE]
      /\ lag' = 0 /\ UNCHANGED <<atn, dev, usingVIC20, offer, accepted, taken>>
  BY SeenByHost, Numbers DEF IInv, Types, Computer, HostSends, HostHears, HostListens, HostAt,
     Looked, history
<1>2. /\ host'.at = "l_time" /\ host'.clock = host.clock /\ host'.data = FALSE
      /\ host'.byte = host.byte
      /\ host'.eoi = host.eoi /\ host'.bits = host.bits /\ host'.order = host.order
  BY <1>1 DEF IInv, Types, Hosts
<1>3. React' = React /\ ValidFor' = ValidFor /\ waited' \in Nat /\ Bits \in Nat /\ Bits > 1 /\ React \in Nat
      /\ lag \in Nat /\ lag <= React /\ dev.delay \in Nat /\ dev.left \in Nat /\ dev.count \in Nat
      /\ Len(dev.bits) \in Nat /\ Len(host.bits) \in Nat /\ Len(<<>>) = 0 /\ <<>> \in Seq(BOOLEAN)
      /\ React < Ticks(200) /\ Ticks(200) \in Nat
  BY <1>1, Numbers, Times DEF React, ValidFor, Looked, IInv, Types
<1>4. AtListens
  BY <1>1 DEF IInv, Meets
<1>5. AtTime'
  BY <1>1, <1>2, <1>3, <1>4, Lines DEF IInv, Types, Drive, Talks, Computer, AtListens, AtTime,
     Lasts, Writing, Starts, NoEoi, InEoi, HostSends, HostHears
<1>6. Types'
  <2>1. host' \in Hosts
    BY <1>1, <1>2, <1>3 DEF IInv, Types, Hosts, HostPlaces, HostSends
  <2>2. atn' \in BOOLEAN /\ accepted' \in BOOLEAN
    BY <1>1, Zenon DEF IInv, Types
  <2>3. offer' \in Items \union {NoItem}
    BY <1>1 DEF IInv, Types
  <2> QED BY <1>1, <1>3, <2>1, <2>2, <2>3 DEF IInv, Types
<1>7. Drive'
  BY <1>1, <1>3, <1>4 DEF IInv, Drive, Pause, Pulls, Talks, AtListens, Writing, Reading
<1>8. Computer'
  BY <1>1, <1>2, <1>3, <1>4 DEF IInv, Computer, HostHears, HostSends, HostClock, HostShows,
     HostData, Midway, NoEoi, InEoi, AtListens
<1>9. Ordered'
  BY <1>1, <1>2, <1>3 DEF IInv, Ordered, Computer, HostHears, HostSends
<1> QED BY <1>1, <1>2, <1>5, <1>6, <1>7, <1>8, <1>9 DEF IInv, Meets

LEMMA HostReleaseTalkKeeps == ASSUME IInv, HostRelease, Looked, host.order = Talk PROVE IInv'
<1>1. /\ host.at = "t_next" /\ lag > 0
      /\ atn /\ host.byte \in {Second, Other} /\ host.order = Talk
      /\ host' = [host EXCEPT !.at = "l_turn", !.clock = FALSE, !.data = TRUE]
      /\ lag' = 0 /\ UNCHANGED <<dev, usingVIC20, offer, accepted, taken>> /\ atn' = FALSE
  BY SeenByHost, Numbers, CodesDiffer DEF IInv, Types, Computer, HostSends, HostHears, HostRelease,
     HostAt, Looked, history, Quiet
<1>2. /\ host'.at = "l_turn" /\ host'.clock = FALSE /\ host'.data = TRUE /\ host'.byte = host.byte
      /\ host'.eoi = host.eoi /\ host'.bits = host.bits /\ host'.order = host.order
  BY <1>1 DEF IInv, Types, Hosts
<1>3. React' = React /\ ValidFor' = ValidFor /\ waited' \in Nat /\ Bits \in Nat /\ Bits > 1 /\ React \in Nat
      /\ lag \in Nat /\ lag <= React /\ dev.delay \in Nat /\ dev.left \in Nat /\ dev.count \in Nat
      /\ Len(dev.bits) \in Nat /\ Len(host.bits) \in Nat /\ Len(<<>>) = 0 /\ <<>> \in Seq(BOOLEAN)
      /\ React < Ticks(200) /\ Ticks(200) \in Nat
  BY <1>1, Numbers, Times DEF React, ValidFor, Looked, IInv, Types
<1>4. AtNext
  BY <1>1 DEF IInv, Meets
<1>5. AtTurn'
  <2>1. host.byte = Second
    BY <1>1, CodesDiffer DEF IInv, Ordered
  <2>2. dev.role = "TALK"
    BY <1>1, <2>1, CodesDiffer DEF IInv, Ordered, RoleOf
  <2>3. Dev("release", "HANDLE")
    BY <1>1, <1>4, <2>1, CodesDiffer DEF AtNext
  <2>4. offer = NoItem
    BY <1>1 DEF IInv, Computer
  <2> QED BY <1>1, <2>2, <2>3, <2>4 DEF AtTurn, Dev
<1>6. Types'
  <2>1. host' \in Hosts
    BY <1>1, <1>2, <1>3 DEF IInv, Types, Hosts, HostPlaces, HostSends
  <2>2. atn' \in BOOLEAN /\ accepted' \in BOOLEAN
    BY <1>1, Zenon DEF IInv, Types
  <2>3. offer' \in Items \union {NoItem}
    BY <1>1 DEF IInv, Types
  <2> QED BY <1>1, <1>3, <2>1, <2>2, <2>3 DEF IInv, Types
<1>7. Drive'
  BY <1>1, <1>3, <1>4 DEF IInv, Drive, Pause, Pulls, Talks, AtNext, Dev, Writing, Reading
<1>8. Computer'
  BY <1>1, <1>2, <1>3, <1>4 DEF IInv, Computer, HostHears, HostSends, HostClock, HostShows,
     HostData, Midway, NoEoi, InEoi, AtNext
<1>9. Ordered'
  BY <1>1, <1>2, <1>3 DEF IInv, Ordered, Computer, HostHears, HostSends
<1> QED BY <1>1, <1>2, <1>5, <1>6, <1>7, <1>8, <1>9 DEF IInv, Meets

LEMMA HostReleaseDoneKeeps ==
  ASSUME IInv, HostRelease, Looked, host.order \notin {Listen, Talk}
  PROVE  IInv'
<1>1. /\ host.at = "t_next" /\ lag > 0
      /\ atn /\ host.byte \in {Second, Other} /\ host.order \notin {Listen, Talk}
      /\ host' = [host EXCEPT !.at = "idle", !.clock = FALSE]
      /\ lag' = 0 /\ UNCHANGED <<dev, usingVIC20, offer, accepted, taken>> /\ atn' = FALSE
  BY SeenByHost, Numbers, CodesDiffer DEF IInv, Types, Computer, HostSends, HostHears, HostRelease,
     HostAt, Looked, history, Quiet
<1>2. /\ host'.at = "idle" /\ host'.clock = FALSE /\ host'.data = host.data
      /\ host'.byte = host.byte
      /\ host'.eoi = host.eoi /\ host'.bits = host.bits /\ host'.order = host.order
  BY <1>1 DEF IInv, Types, Hosts
<1>3. React' = React /\ ValidFor' = ValidFor /\ waited' \in Nat /\ Bits \in Nat /\ Bits > 1 /\ React \in Nat
      /\ lag \in Nat /\ lag <= React /\ dev.delay \in Nat /\ dev.left \in Nat /\ dev.count \in Nat
      /\ Len(dev.bits) \in Nat /\ Len(host.bits) \in Nat /\ Len(<<>>) = 0 /\ <<>> \in Seq(BOOLEAN)
      /\ React < Ticks(200) /\ Ticks(200) \in Nat
  BY <1>1, Numbers, Times DEF React, ValidFor, Looked, IInv, Types
<1>4. AtNext
  BY <1>1 DEF IInv, Meets
<1>5. AtIdle'
  <2>1. CASE host.byte = Second
    <3>1. dev.role = "PASSIVE"
      BY <1>1, <2>1 DEF IInv, Ordered, RoleOf
    <3>2. Dev("release", "HANDLE")
      BY <1>1, <1>4, <2>1, CodesDiffer DEF AtNext
    <3> QED BY <1>1, <3>1, <3>2 DEF AtIdle, Dev
  <2>2. CASE host.byte = Other
    <3>1. Dev("release", "COMPLETE")
      BY <1>1, <1>4, <2>2, CodesDiffer DEF AtNext
    <3> QED BY <1>1, <3>1 DEF AtIdle, Dev
  <2> QED BY <1>1, <2>1, <2>2
<1>6. Types'
  <2>1. host' \in Hosts
    BY <1>1, <1>2, <1>3 DEF IInv, Types, Hosts, HostPlaces, HostSends
  <2>2. atn' \in BOOLEAN /\ accepted' \in BOOLEAN
    BY <1>1, Zenon DEF IInv, Types
  <2>3. offer' \in Items \union {NoItem}
    BY <1>1 DEF IInv, Types
  <2> QED BY <1>1, <1>3, <2>1, <2>2, <2>3 DEF IInv, Types
<1>7. Drive'
  BY <1>1, <1>3, <1>4 DEF IInv, Drive, Pause, Pulls, Talks, AtNext, Dev, Writing, Reading
<1>8. Computer'
  BY <1>1, <1>2, <1>3, <1>4 DEF IInv, Computer, HostHears, HostSends, HostClock, HostShows,
     HostData, Midway, NoEoi, InEoi, AtNext
<1>9. Ordered'
  BY <1>1, <1>2, <1>3 DEF IInv, Ordered, Computer, HostHears, HostSends
<1> QED BY <1>1, <1>2, <1>5, <1>6, <1>7, <1>8, <1>9 DEF IInv, Meets

LEMMA HostReleaseListenKeeps == ASSUME IInv, HostRelease, Looked, host.order = Listen PROVE IInv'
<1>1. /\ host.at = "t_next" /\ lag > 0
      /\ atn /\ host.byte \in {Second, Other} /\ host.order = Listen
      /\ host' = host
      /\ lag' = 0 /\ UNCHANGED <<dev, usingVIC20, offer, accepted, taken>> /\ atn' = FALSE
  BY SeenByHost, Numbers, CodesDiffer DEF IInv, Types, Computer, HostSends, HostHears, HostRelease,
     HostAt, Looked, history, Quiet
<1>2. /\ host'.at = host.at /\ host'.clock = host.clock /\ host'.data = host.data
      /\ host'.byte = host.byte
      /\ host'.eoi = host.eoi /\ host'.bits = host.bits /\ host'.order = host.order
  BY <1>1 DEF IInv, Types, Hosts
<1>3. React' = React /\ ValidFor' = ValidFor /\ waited' \in Nat /\ Bits \in Nat /\ Bits > 1 /\ React \in Nat
      /\ lag \in Nat /\ lag <= React /\ dev.delay \in Nat /\ dev.left \in Nat /\ dev.count \in Nat
      /\ Len(dev.bits) \in Nat /\ Len(host.bits) \in Nat /\ Len(<<>>) = 0 /\ <<>> \in Seq(BOOLEAN)
      /\ React < Ticks(200) /\ Ticks(200) \in Nat
  BY <1>1, Numbers, Times DEF React, ValidFor, Looked, IInv, Types
<1>4. AtNext
  BY <1>1 DEF IInv, Meets
<1>5. AtNext'
  <2>1. host.byte = Second
    BY <1>1, CodesDiffer DEF IInv, Ordered
  <2>2. dev.role = "LISTEN"
    BY <1>1, <2>1, CodesDiffer DEF IInv, Ordered, RoleOf
  <2>3. Dev("release", "HANDLE") /\ ~dev.eoi
    BY <1>1, <1>4, <2>1, CodesDiffer DEF AtNext
  <2> QED BY <1>1, <2>2, <2>3 DEF AtNext, Dev
<1>6. Types'
  <2>1. host' \in Hosts
    BY <1>1, <1>2, <1>3 DEF IInv, Types, Hosts, HostPlaces, HostSends
  <2>2. atn' \in BOOLEAN /\ accepted' \in BOOLEAN
    BY <1>1, Zenon DEF IInv, Types
  <2>3. offer' \in Items \union {NoItem}
    BY <1>1 DEF IInv, Types
  <2> QED BY <1>1, <1>3, <2>1, <2>2, <2>3 DEF IInv, Types
<1>7. Drive'
  BY <1>1, <1>3, <1>4 DEF IInv, Drive, Pause, Pulls, Talks, AtNext, Dev, Writing, Reading
<1>8. Computer'
  BY <1>1, <1>2, <1>3, <1>4 DEF IInv, Computer, HostHears, HostSends, HostClock, HostShows,
     HostData, Midway, NoEoi, InEoi, AtNext
<1>9. Ordered'
  BY <1>1, <1>2, <1>3 DEF IInv, Ordered, Computer, HostHears, HostSends
<1> QED BY <1>1, <1>2, <1>5, <1>6, <1>7, <1>8, <1>9 DEF IInv, Meets

\* The time left before the drive looks at ATN is a number.
LEMMA RestType == ASSUME Types PROVE Rest \in Nat
<1>1. dev.delay \in Nat
  BY Numbers
<1>2. Ticks(50) \in Nat /\ Ticks(14) \in Nat
  BY Times DEF Types
<1> QED BY <1>1, <1>2 DEF Rest

\* The computer pulls ATN: the drive is where it answers within the time it has.
LEMMA HostAttentionKeeps == ASSUME IInv, HostAttention, Looked PROVE IInv'
<1>1. /\ ~atn /\ lag > 0 /\ atn'
      /\ host.at \in HostSends \union {"idle", "absent", "t_next", "l_turn", "l_clock", "l_ready"}
      /\ host' = [at |-> "present", clock |-> TRUE, data |-> FALSE, byte |-> Other, eoi |-> FALSE,
                  bits |-> <<>>, order |-> Other]
      /\ lag' = 0 /\ UNCHANGED <<dev, usingVIC20>>
      /\ host.at \in HostSends => offer' = NoItem /\ accepted' = FALSE
      /\ host.at \notin HostSends => UNCHANGED <<offer, accepted>>
  BY DEF HostAttention, Looked, Ends, Quiet, history
<1>2. /\ host'.at = "present" /\ host'.clock /\ ~host'.data /\ ~host'.eoi
      /\ host'.bits = <<>> /\ host'.order = Other
  BY <1>1
<1>3. /\ React' = React /\ lag \in Nat /\ dev.delay \in Nat /\ waited' = 0 /\ dev.at \in DevPlaces
      /\ Len(dev.bits) \in Nat
  <2>1. host.at # "present"
    BY <1>1 DEF HostSends
  <2> QED BY <1>1, <1>2, <2>1, Numbers DEF React, Looked, IInv, Types, Drives
<1>4. Types'
  <2>1. host' \in Hosts
    <3>1. Other \in Byte /\ <<>> \in Seq(BOOLEAN)
      BY DEF Other, Byte
    <3> QED BY <1>1, <3>1 DEF Hosts, HostPlaces
  <2>2. atn' \in BOOLEAN
    BY DEF HostAttention
  <2>3. accepted' \in BOOLEAN
    BY DEF HostAttention, Ends, Quiet, history, IInv, Types
  <2>4. offer' \in Items \union {NoItem}
    BY <1>1 DEF IInv, Types
  <2>5. lag' \in 0 .. React' /\ waited' \in Nat
    BY <1>1, <1>3, Times DEF IInv, Types
  <2> QED BY <1>1, <2>1, <2>2, <2>3, <2>4, <2>5 DEF IInv, Types
<1>5. dev.at \in {"call", "r_clock", "r_data", "r_time", "r_eoi", "r_first", "r_bit", "r_bit_end",
                  "w_next", "w_start", "w_ready", "w_ack", "w_release"}
  <2>1. dev.at # "release" /\ dev.at # "clock"
    BY <1>1, <1>3, HostWhere DEF IInv, Meets, AtIdle, AtNext, AtAck, AtTurn, Dev, HostSends
  <2> QED BY <1>1, <1>3, <2>1, HostWhere DEF DevPlaces, Reading, Writing, HostSends
<1>6. dev.at \in Reading => offer' = NoItem /\ dev.seq = "HANDLE"
  <2>1. SUFFICES ASSUME dev.at \in Reading PROVE offer' = NoItem /\ dev.seq = "HANDLE"
    OBVIOUS
  <2>2. CASE host.at \in {"idle", "t_next"}
    BY <1>1, <1>3, <2>1, <2>2 DEF IInv, Computer, Meets, AtIdle, AtNext, Dev, Reading, HostSends
  <2>3. CASE host.at \in HostSends
    <3>1. dev.seq = "HANDLE"
      BY <1>1, <1>3, <2>1, <2>3 DEF IInv, Meets, AtReady, AtEoi, AtEoiAck, AtSet, AtValid, AtLow,
         AtAck, Begun, Hears, Dev, Reading, HostSends
    <3> QED BY <1>1, <2>3, <3>1
  <2> QED BY <1>1, <2>1, <2>2, <2>3, HostWhere DEF Reading
<1>7. dev.at = "call" => offer' = NoItem /\ dev.seq \in {"IDLE", "COMPLETE"}
  <2>1. SUFFICES ASSUME dev.at = "call" PROVE offer' = NoItem /\ dev.seq \in {"IDLE", "COMPLETE"}
    OBVIOUS
  <2>2. host.at \in {"idle", "l_clock"}
    <3>1. host.at # "t_ack"
      <4>1. host.at = "t_ack" => AtAck
        BY DEF IInv, Meets
      <4>2. ~AtAck
        BY <1>1, <2>1 DEF AtAck, Dev
      <4> QED BY <4>1, <4>2
    <3> QED BY <1>1, <2>1, <3>1, HostWhere DEF HostSends
  <2> QED BY <1>1, <1>3, <2>1, <2>2 DEF IInv, Computer, Meets, AtIdle, AtClock, Dev, HostSends
<1>8. dev.at \in Writing => offer' = offer
  <2>1. dev.at \in Writing => host.at \notin HostSends
    BY HostWhere DEF Writing, HostSends
  <2> QED BY <1>1, <2>1
<1>9. Drive'
  BY <1>1, <1>3, <1>8 DEF IInv, Drive, Pause, ValidFor, Pulls, Talks, Writing
<1>10. Rest \in Nat /\ Rest <= Ticks(73)
  <2>1. dev.delay <= Pause(dev.at)
    BY DEF IInv, Drive
  <2>2. dev.at \notin {"w_next", "w_release"} => Pause(dev.at) <= Ticks(73) /\ Pause(dev.at) \in Nat
    BY <1>5, PauseAt, Times DEF IInv, Types
  <2>3. dev.at = "w_next" => Pause(dev.at) = 0
    BY PauseAt
  <2>4. dev.at = "w_release" => Pause(dev.at) = Ticks(22)
    BY PauseAt
  <2>5. CASE dev.at \notin {"w_next", "w_release"}
    <3>1. Rest = dev.delay + 0
      BY <2>5 DEF Rest
    <3>2. Ticks(73) \in Nat
      BY Times DEF IInv, Types
    <3> QED BY <1>3, <2>1, <2>2, <2>5, <3>1, <3>2
  <2>6. CASE dev.at = "w_next"
    <3>1. Rest = dev.delay + Ticks(50)
      BY <2>6 DEF Rest
    <3>2. Ticks(73) \in Nat /\ Ticks(50) \in Nat /\ Ticks(50) <= Ticks(73)
      BY Times DEF IInv, Types
    <3> QED BY <1>3, <2>1, <2>3, <2>6, <3>1, <3>2
  <2>7. CASE dev.at = "w_release"
    <3>1. Rest = dev.delay + Ticks(14)
      BY <2>7 DEF Rest
    <3>2. Ticks(73) \in Nat /\ Ticks(22) \in Nat /\ Ticks(14) \in Nat /\ Ticks(22) + Ticks(14) <= Ticks(73)
      BY Times DEF IInv, Types
    <3> QED BY <1>3, <2>1, <2>4, <2>7, <3>1, <3>2
  <2> QED BY <2>5, <2>6, <2>7
<1>11. waited' + Rest' < PresentWait
  <2>1. Rest' = Rest
    BY <1>1 DEF Rest
  <2>2. Ticks(73) \in Nat /\ PresentWait \in Nat /\ Ticks(73) < PresentWait
    BY Times DEF IInv, Types
  <2>3. Rest < PresentWait
    BY <1>10, <2>2
  <2> QED BY <1>3, <1>10, <2>1, <2>3
<1>12. dev.at = "w_release" => Len(dev.bits) + 1 = Bits
  BY <1>1, <1>3, HostWhere DEF IInv, Meets, AtClock, HostSends
<1>13. AtPresent'
  <2>1. UNCHANGED dev
    BY <1>1
  <2> QED BY <1>5, <1>6, <1>7, <1>11, <1>12, <2>1 DEF AtPresent, Reading
<1>14. Computer'
  BY <1>1, <1>2 DEF Computer, HostHears, HostSends, HostClock, HostShows, HostData, Midway, NoEoi,
     InEoi
<1> QED BY <1>2, <1>4, <1>9, <1>13, <1>14 DEF IInv, Ordered, Meets

\* When the computer looks for the drive, or has a byte for it, it is there and waits.
LEMMA SendsToThere ==
  ASSUME IInv, NEW b, NEW e, HostSend(b, e)
  PROVE  /\ Data /\ dev.at = "r_clock" /\ Hears /\ ~dev.eoi /\ dev.bits = <<>> /\ offer = NoItem
         /\ atn => b \in Codes /\ (b = Second => dev.role = RoleOf(host.order))
                   /\ (b = Second => host.order \in {Listen, Talk, Other})
                   /\ (b = Other => host.order = Other)
<1>1. lag > 0 /\ lag \in Nat /\ b \in NextBytes /\ host.at \in {"present", "t_next"}
  BY Numbers DEF HostSend, HostAt, IInv
<1>2. dev.at = "r_clock" /\ Hears /\ ~dev.eoi /\ offer = NoItem
  <2>1. CASE host.at = "present"
    <3>1. waited = PresentWait
      BY <2>1, SeenByHost DEF HostSend, HostAt
    <3>2. ~(waited + Rest < PresentWait)
      <4>1. Rest \in Nat
        BY RestType DEF IInv
      <4> QED BY <3>1, <4>1, Numbers DEF IInv
    <3> QED BY <2>1, <3>2 DEF IInv, Meets, AtPresent, Called, Computer, Hears
  <2>2. CASE host.at = "t_next" /\ atn
    <3>1. host.byte \in {Listen, Talk}
      BY <1>1, <2>2 DEF NextBytes
    <3> QED BY <2>2, <3>1, CodesDiffer DEF IInv, Meets, AtNext, Dev, Hears, Computer
  <2>3. CASE host.at = "t_next" /\ ~atn
    BY <1>1, <2>3 DEF IInv, Meets, AtNext, Dev, Hears, Computer
  <2> QED BY <1>1, <2>1, <2>2, <2>3
<1>3. Data /\ dev.bits = <<>>
  BY <1>2, Lines DEF Data, IInv, Drive, Talks, Starts
<1>4. ASSUME atn
     PROVE  /\ b \in Codes /\ (b = Second => dev.role = RoleOf(host.order))
            /\ (b = Second => host.order \in {Listen, Talk, Other})
            /\ (b = Other => host.order = Other)
  <2>1. CASE host.at = "present"
    <3>1. b \in Codes /\ host.order = Other
      BY <1>1, <2>1 DEF NextBytes, Codes, IInv, Computer
    <3>2. dev.role = "PASSIVE"
      <4>1. waited = PresentWait
        BY <2>1, SeenByHost DEF HostSend, HostAt
      <4>2. ~(waited + Rest < PresentWait)
        <5>1. Rest \in Nat
          BY RestType DEF IInv
        <5> QED BY <4>1, <5>1, Numbers DEF IInv
      <4> QED BY <2>1, <4>2 DEF IInv, Meets, AtPresent, Called
    <3> QED BY <3>1, <3>2, CodesDiffer DEF RoleOf
  <2>2. CASE host.at = "t_next"
    <3>1. host.byte \in {Listen, Talk} /\ b = Second
      BY <1>1, <1>4, <2>2 DEF NextBytes
    <3>2. dev.role = RoleOf(host.byte)
      BY <1>4, <2>2, <3>1, CodesDiffer DEF IInv, Meets, AtNext
    <3>3. host.order = host.byte
      BY <1>4, <2>2, <3>1 DEF IInv, Ordered
    <3> QED BY <3>1, <3>2, <3>3, CodesDiffer DEF Codes
  <2> QED BY <1>1, <2>1, <2>2
<1> QED BY <1>2, <1>3, <1>4

LEMMA HostSendKeeps ==
  ASSUME IInv, Looked, NEW b \in Byte, NEW e \in BOOLEAN, HostSend(b, e)
  PROVE  IInv'
<1>1. /\ host.at \in {"present", "t_next"} /\ (e => ~atn) /\ lag' = 0
      /\ UNCHANGED <<atn, dev, usingVIC20>>
      /\ offer' = [byte |-> b, eoi |-> e] /\ accepted' = FALSE
      /\ host' = [host EXCEPT !.at = "t_ready", !.clock = FALSE, !.byte = b, !.eoi = e,
                              !.order = IF atn /\ b \in {Listen, Talk} THEN b ELSE host.order]
  BY SendsToThere DEF HostSend, HostAt, Offers, Looked
<1>2. /\ host'.at = "t_ready" /\ ~host'.clock /\ host'.data = host.data /\ host'.byte = b
      /\ host'.eoi = e /\ host'.bits = host.bits
      /\ host'.order = IF atn /\ b \in {Listen, Talk} THEN b ELSE host.order
  BY <1>1 DEF IInv, Types, Hosts
<1>3. React' = React /\ waited' \in Nat /\ React \in Nat /\ Bits \in Nat /\ Bits > 1 /\ Len(<<>>) = 0
  BY <1>1, Numbers DEF React, Looked, IInv
<1>4. Types'
  <2>1. host' \in Hosts
    BY <1>1 DEF IInv, Types, Hosts, HostPlaces, HostSends
  <2>2. offer' \in Items \union {NoItem}
    BY <1>1 DEF Items
  <2>3. accepted' \in BOOLEAN /\ atn' \in BOOLEAN
    BY <1>1, Zenon DEF IInv, Types
  <2> QED BY <1>1, <1>3, <2>1, <2>2, <2>3 DEF IInv, Types
<1>5. dev.at = "r_clock" /\ Hears /\ ~dev.eoi /\ dev.bits = <<>>
  BY SendsToThere
<1>6. Drive'
  BY <1>1, <1>5 DEF IInv, Drive, Pause, Pulls, Talks, Writing
<1>7. ~host'.data /\ host'.bits = <<>>
  BY <1>1, <1>2, Lines DEF IInv, Computer, Midway
<1>8. Computer'
  <2>1. Len(host'.bits) < Bits /\ offer' = [byte |-> host'.byte, eoi |-> host'.eoi]
    BY <1>1, <1>2, <1>3, <1>7
  <2>2. atn' => ~host'.eoi
    BY <1>1, <1>2
  <2> QED BY <1>2, <1>7, <2>1, <2>2 DEF Computer, HostHears, HostSends, HostClock, HostShows,
           HostData, Midway, NoEoi, InEoi
<1>9. Ordered'
  <2>1. SUFFICES ASSUME atn
                 PROVE  /\ b \in Codes
                        /\ b \in {Listen, Talk} => host'.order = b
                        /\ b = Second => dev.role = RoleOf(host'.order) /\ host'.order \in {Listen, Talk, Other}
                        /\ b = Other => host'.order = Other
    BY <1>1, <1>2 DEF Ordered
  <2> QED BY <1>2, <2>1, SendsToThere, CodesDiffer
<1>10. AtReady'
  <2>1. ~accepted'
    BY <1>1
  <2> QED BY <1>1, <1>5, <2>1 DEF AtReady, Begun, Hears
<1> QED BY <1>2, <1>4, <1>6, <1>8, <1>9, <1>10 DEF IInv, Meets

\* Looking in vain costs no more than the time it had: what the drive shows then is seen.
LEMMA LookKeeps == ASSUME IInv, Look, Looked PROVE IInv'
<1>1. /\ lag > 0 /\ host.at # "present" /\ (host.at \in MayStay \/ ~HostSeen[host.at])
      /\ UNCHANGED <<atn, host, offer, accepted, taken, dev, usingVIC20, waited>> /\ lag' = 0
  BY DEF Look, Looked, history
<1>2. /\ React' = React /\ lag \in Nat /\ React \in Nat
      /\ ValidFor' = ValidFor
  BY <1>1, Numbers DEF React, ValidFor, IInv
<1>3. Types' /\ Drive' /\ Computer' /\ Ordered'
  BY <1>1, <1>2 DEF IInv, Types, Drive, Pause, Pulls, Talks, Computer, Ordered
<1>4. host.at \notin {"t_set", "t_valid", "t_low", "l_ack"}
  BY <1>1, SeenByHost DEF MayStay
<1>5. host.at = "idle" => AtIdle'
  BY <1>1, <1>2 DEF IInv, Meets, AtIdle, Dev
<1>6. host.at = "t_next" => AtNext'
  BY <1>1, <1>2 DEF IInv, Meets, AtNext, Dev
<1>7. host.at = "t_ready" => AtReady'
  <2>1. SUFFICES ASSUME host.at = "t_ready" PROVE FALSE
    OBVIOUS
  <2>2. Data
    BY <1>1, <2>1, SeenByHost DEF MayStay
  <2> QED BY <1>1, <1>2, <2>1, <2>2, Lines DEF Data, IInv, Meets, AtReady
<1>8. host.at = "t_eoi" => AtEoi'
  <2>1. SUFFICES ASSUME host.at = "t_eoi" PROVE AtEoi'
    OBVIOUS
  <2>2. ~Data
    BY <1>1, <2>1, SeenByHost DEF MayStay
  <2>3. Begun /\ dev.at = "r_time"
    BY <2>1, <2>2, Lines DEF Data, IInv, Meets, AtEoi
  <2> QED BY <1>1, <2>3 DEF AtEoi, Begun, Hears
<1>9. host.at = "t_eoi_ack" => AtEoiAck'
  BY <1>1 DEF IInv, Meets, AtEoiAck, Begun, Hears
<1>10. host.at = "t_ack" => AtAck'
  BY <1>1, <1>2 DEF IInv, Meets, AtAck, Dev
<1>11. host.at = "l_turn" => AtTurn'
  <2>1. SUFFICES ASSUME host.at = "l_turn" PROVE FALSE
    OBVIOUS
  <2>2. ~Clock
    BY <1>1, <2>1, SeenByHost DEF MayStay
  <2> QED BY <1>1, <1>2, <2>1, <2>2, Lines DEF Clock, IInv, Meets, AtTurn
<1>12. host.at = "l_clock" => AtClock'
  BY <1>1 DEF IInv, Meets, AtClock
<1>13. host.at = "l_ready" => AtListens'
  BY <1>1 DEF IInv, Meets, AtListens
<1>14. host.at = "l_time" => AtTime'
  <2>1. SUFFICES ASSUME host.at = "l_time" PROVE AtTime'
    OBVIOUS
  <2>2. ~Clock
    BY <1>1, <2>1, SeenByHost DEF MayStay
  <2>3. ~accepted /\ dev.left = 1 /\ dev.at = "w_eoi"
    BY <1>1, <1>2, <2>1, <2>2, Lines DEF Clock, IInv, Meets, AtTime
  <2> QED BY <1>1, <2>3 DEF AtTime
<1>15. host.at = "l_eoi" => AtAnswer'
  BY <1>1, <1>2 DEF IInv, Meets, AtAnswer
<1>16. host.at = "l_first" => AtFirst'
  <2>1. SUFFICES ASSUME host.at = "l_first" PROVE FALSE
    OBVIOUS
  <2>2. ~Clock
    BY <1>1, <2>1, SeenByHost DEF MayStay
  <2> QED BY <1>1, <1>2, <2>1, <2>2, Lines DEF Clock, IInv, Meets, AtFirst
<1>17. host.at = "l_bit" => AtBit'
  <2>1. SUFFICES ASSUME host.at = "l_bit" PROVE AtBit'
    OBVIOUS
  <2>2. Clock
    BY <1>1, <2>1, SeenByHost DEF MayStay
  <2>3. dev.at # "w_low"
    BY <2>1, <2>2, Lines DEF Clock
  <2> QED BY <1>1, <2>1, <2>3 DEF IInv, Meets, AtBit, Heard
<1>18. host.at = "l_bit_end" => AtBitEnd'
  <2>1. SUFFICES ASSUME host.at = "l_bit_end" PROVE AtBitEnd'
    OBVIOUS
  <2>2. ~Clock
    BY <1>1, <2>1, SeenByHost DEF MayStay
  <2>3. dev.at = "w_low"
    BY <2>1, <2>2, Lines, HostWhere DEF Clock, IInv, Meets, AtBitEnd
  <2> QED BY <1>1, <2>1, <2>3 DEF IInv, Meets, AtBitEnd, Heard
<1> QED BY <1>1, <1>3, <1>4, <1>5, <1>6, <1>7, <1>8, <1>9, <1>10, <1>11, <1>12, <1>13, <1>14, <1>15,
           <1>16, <1>17, <1>18 DEF IInv, Meets

-----------------------------------------------------------------------------
(* The whole *)

\* Every step of the computer.
LEMMA HostKeeps == ASSUME IInv, Host PROVE IInv'
<1>1. Looked /\ Len(host.bits) \in Nat /\ Bits \in Nat
  BY Numbers DEF Host, Looked, IInv
<1>2. CASE Look
  BY <1>1, <1>2, LookKeeps
<1>3. CASE HostListens
  BY <1>1, <1>3, HostListensKeeps DEF HostListens
<1>4. CASE HostAttention
  BY <1>1, <1>4, HostAttentionKeeps
<1>5. CASE \E b \in Byte, e \in BOOLEAN : HostSend(b, e)
  BY <1>1, <1>5, HostSendKeeps
<1>6. CASE HostAck
  BY <1>1, <1>6, HostAckEoiKeeps, HostAckNextKeeps
<1>7. CASE HostRelease
  BY <1>1, <1>7, HostReleaseTalkKeeps, HostReleaseDoneKeeps, HostReleaseListenKeeps
<1>8. CASE HostTake
  BY <1>1, <1>8, HostTakeKeeps
<1>9. ASSUME UNCHANGED <<atn, history>>,
             HostReady \/ HostEoiSeen \/ HostBit \/ HostValid \/ HostLow
      PROVE  IInv'
  <2>1. HostReady => host.at \in {"t_ready", "t_eoi_ack"}
    BY DEF HostReady, HostAt
  <2>2. CASE HostReady
    BY <1>1, <1>9, <2>1, <2>2, HostReadyEoiKeeps, HostReadyByteKeeps, HostAnsweredByteKeeps
  <2>3. CASE HostLow
    BY <1>1, <1>9, <2>3, HostLowBitKeeps, HostLowLastKeeps
  <2> QED BY <1>1, <1>9, <2>2, <2>3, HostEoiSeenKeeps, HostBitKeeps, HostValidKeeps
<1>10. ASSUME UNCHANGED <<atn, history>>,
              \/ HostTurned \/ HostTalker \/ HostTime \/ HostEoi
              \/ HostFirst \/ HostHear \/ HostBitEnd \/ HostDone
       PROVE  IInv'
  <2>1. CASE HostTime
    BY <1>1, <1>10, <2>1, HostTimeBitKeeps, HostTimeEoiKeeps
  <2>2. CASE HostBitEnd
    BY <1>1, <1>10, <2>2, HostBitEndsMoreKeeps, HostBitEndsLastKeeps
  <2> QED BY <1>1, <1>10, <2>1, <2>2, HostTurnedKeeps, HostTalkerKeeps, HostEoiKeeps,
           HostFirstKeeps, HostHearKeeps, HostDoneKeeps
<1>11. CASE HostGoes
  BY <1>6, <1>7, <1>8, <1>9, <1>10, <1>11 DEF HostGoes
<1> QED BY <1>2, <1>3, <1>4, <1>5, <1>11 DEF Host

\* At power-on both are idle.
LEMMA InitHolds == ASSUME Init PROVE IInv
<1>1. Other \in Byte /\ <<>> \in Seq(BOOLEAN)
  BY DEF Other, Byte
<1>2. Types
  <2>1. host \in Hosts
    BY <1>1 DEF Init, Hosts, HostPlaces
  <2>2. dev \in Drives
    BY <1>1 DEF Init, Drives, DevPlaces, Seqs, Roles
  <2>3. usingVIC20 \in DOMAIN Reaction
    BY DEF Init
  <2>4. atn \in BOOLEAN /\ accepted \in BOOLEAN
    BY Zenon DEF Init
  <2>5. lag \in 0 .. React /\ waited \in Nat
    BY <2>3, Times DEF Init
  <2> QED BY <2>1, <2>2, <2>3, <2>4, <2>5 DEF Init, Types
<1>3. dev.at = "call" /\ dev.seq = "IDLE" /\ dev.delay = 0 /\ host.at = "idle" /\ ~atn
  BY DEF Init
<1>4. Drive
  <2>1. Pause("call") = 0
    BY PauseAt
  <2> QED BY <1>3, <2>1 DEF Drive, Pulls, Talks, Reading, Writing, Shows, Shifts, Starts
<1>5. ~host.clock /\ ~host.data /\ ~host.eoi /\ host.bits = <<>> /\ offer = NoItem
  BY DEF Init
<1>6. Computer
  BY <1>3, <1>5 DEF Computer, HostHears, HostSends, HostClock, HostShows, HostData, Midway, NoEoi,
     InEoi
<1> QED BY <1>2, <1>3, <1>4, <1>6 DEF IInv, Ordered, Meets, AtIdle

LEMMA NextKeeps == ASSUME IInv, Next PROVE IInv'
BY DeviceKeeps, HostKeeps, TickKeeps DEF Next

LEMMA StutterKeeps == ASSUME IInv, UNCHANGED vars PROVE IInv'
<1>1. /\ UNCHANGED <<atn, host, lag, waited, dev, usingVIC20, offer, accepted, taken>>
      /\ React' = React /\ ValidFor' = ValidFor /\ Rest' = Rest
  BY DEF vars, history, React, ValidFor, Rest
<1>2. Types' /\ Drive' /\ Computer' /\ Ordered'
  BY <1>1 DEF IInv, Types, Drive, Pause, Pulls, Talks, Computer, Ordered
<1>3. Meets'
  BY <1>1 DEF IInv, Meets, AtIdle, AtPresent, AtNext, AtReady, AtEoi, AtEoiAck, AtSet, AtValid,
     AtLow, AtAck, AtTurn, AtClock, AtListens, AtTime, AtAnswer, AtFirst, AtBit, AtBitEnd, AtTake,
     Dev, Lasts, Hears, SoFar, Heard, Called, Begun
<1> QED BY <1>2, <1>3 DEF IInv

\* Wherever the two ends are, the drive is where the computer needs it to be and holds
\* what it shows longer than the computer takes to look (iec_commands.cpp 302-520).
THEOREM Meeting == Spec => []IInv
<1>1. Init => IInv
  BY InitHolds
<1>2. IInv /\ [Next]_vars => IInv'
  BY NextKeeps, StutterKeeps
<1> QED BY <1>1, <1>2, PTL DEF Spec

\* The computer never finds the bus empty, however it interrupts the drive and as long
\* as it waits for more than 73 microseconds (iec_commands.cpp 440-461, 383).
THEOREM Present == Spec => []DevicePresent
<1>1. IInv => DevicePresent
  BY DEF IInv, Computer, DevicePresent
<1> QED BY <1>1, Meeting, PTL

-----------------------------------------------------------------------------
(* A byte over the lines is a step of the link *)

\* An offered byte is never taken for none.
LEMMA ItemIsSome ==
  ASSUME NEW b \in Byte, NEW e
  PROVE  [byte |-> b, eoi |-> e] # NoItem
<1>1. b # <<>>
  <2>1. DOMAIN b = 1 .. Bits /\ 1 \in 1 .. Bits
    BY SerialAssumption DEF Byte
  <2>2. DOMAIN <<>> = {}
    OBVIOUS
  <2> QED BY <2>1, <2>2
<1>2. [byte |-> b, eoi |-> e].byte = b /\ NoItem.byte = <<>>
  BY DEF NoItem
<1> QED BY <1>1, <1>2

\* The steps of the link: nothing, an offer, its end, and its taking.
LEMMA QuietLinks == ASSUME Quiet PROVE UNCHANGED Link!vars
BY DEF Quiet, history, Link!vars, phase

LEMMA OffersLinks ==
  ASSUME offer = NoItem, NEW b \in Byte, NEW e \in BOOLEAN, Offers(b, e)
  PROVE  Link!Next
<1>1. offer' # NoItem /\ offer' \in Items
  BY ItemIsSome DEF Offers, Items
<1>2. phase = "idle" /\ phase' = "offered"
  BY <1>1 DEF phase, Offers
<1> QED BY <1>1, <1>2 DEF Link!Next, Link!Offer, Offers

LEMMA EndsLinks == ASSUME offer # NoItem, Ends PROVE Link!Next
<1>1. phase \in {"offered", "taken"} /\ phase' = "idle"
  BY DEF phase, Ends
<1> QED BY <1>1 DEF Link!Next, Link!Done, Link!Break, Ends

LEMMA TakesLinks ==
  ASSUME ~accepted, NEW b \in Byte, NEW e, offer = [byte |-> b, eoi |-> e], Takes(b, e)
  PROVE  Link!Next
<1>1. offer # NoItem
  BY ItemIsSome
<1>2. phase = "offered" /\ phase' = "taken"
  BY <1>1 DEF phase, Takes
<1> QED BY <1>2 DEF Link!Next, Link!Take, Takes

\* What a step of the drive is to the link.
LEMMA DeviceLinks == ASSUME IInv, Device PROVE [Link!Next]_(Link!vars)
<1>1. /\ Len(dev.bits) \in Nat /\ Bits \in Nat /\ dev.byte \in Byte /\ host.byte \in Byte
  BY Numbers DEF IInv, Types, Drives, Hosts
<1>2. \/ Quiet
      \/ ReadBitEnd /\ Len(dev.bits) >= Bits
      \/ WriteByte /\ dev.left # 0
      \/ WriteAck
      \/ Abort /\ dev.at \in Writing
  <2>1. Idle \/ Attention \/ ClockSeen \/ Receive \/ Handle \/ Released \/ Complete => Quiet
    BY DEF Idle, Attention, ClockSeen, Receive, Handle, Released, Complete, Goes
  <2>2. ReadReady \/ ReadStart \/ ReadTime \/ ReadEoi \/ ReadEoiSeen \/ ReadBit => Quiet
    BY DEF ReadReady, ReadStart, ReadTime, ReadEoi, ReadEoiSeen, ReadBit
  <2>3. WriteReady \/ WriteStart \/ WriteEoi \/ WriteFree => Quiet
    BY DEF WriteReady, WriteStart, WriteEoi, WriteFree, Goes
  <2>4. WriteSet \/ WriteValid \/ WriteLow \/ WriteRelease => Quiet
    BY DEF WriteSet, WriteValid, WriteLow, WriteRelease
  <2>5. ReadBitEnd /\ ~(Len(dev.bits) >= Bits) => Quiet
    BY <1>1 DEF ReadBitEnd, Goes
  <2>6. (WriteByte /\ dev.left = 0 => Quiet) /\ (Abort /\ dev.at \notin Writing => Quiet)
    BY DEF WriteByte, Abort
  <2> QED BY <2>1, <2>2, <2>3, <2>4, <2>5, <2>6 DEF Device
<1>3. CASE Quiet
  BY <1>3, QuietLinks
<1>4. CASE ReadBitEnd /\ Len(dev.bits) >= Bits
  <2>1. Takes(host.byte, host.eoi) /\ ~accepted /\ offer = [byte |-> host.byte, eoi |-> host.eoi]
    BY <1>1, <1>4, CodeComes DEF ReadBitEnd
  <2> QED BY <1>1, <2>1, TakesLinks
<1>5. CASE WriteByte /\ dev.left # 0
  <2>1. offer = NoItem
    BY <1>5 DEF WriteByte, At, IInv, Drive, Talks
  <2>2. PICK b \in Byte : Offers(b, dev.left = 1)
    BY <1>5 DEF WriteByte
  <2> QED BY <2>1, <2>2, OffersLinks
<1>6. CASE WriteAck \/ (Abort /\ dev.at \in Writing)
  <2>1. dev.at \in Writing \ {"w_next"} /\ Ends
    BY <1>6 DEF WriteAck, Abort, At, CheckATN, Polls, Reading, Writing
  <2>2. offer = [byte |-> dev.byte, eoi |-> dev.left = 1]
    BY <2>1 DEF IInv, Drive, Talks
  <2> QED BY <1>1, <2>1, <2>2, ItemIsSome, EndsLinks
<1> QED BY <1>2, <1>3, <1>4, <1>5, <1>6

\* What a step of the computer is to the link.
LEMMA HostLinks == ASSUME IInv, Host PROVE [Link!Next]_(Link!vars)
<1>1. host.byte \in Byte /\ dev.byte \in Byte
  BY DEF IInv, Types, Drives, Hosts
<1>2. \/ UNCHANGED history
      \/ HostAck \/ HostTake
      \/ HostAttention /\ host.at \in HostSends
      \/ \E b \in Byte, e \in BOOLEAN : HostSend(b, e)
  BY DEF Host, HostGoes, Look, HostListens, HostAttention, HostRelease, Quiet
<1>3. CASE UNCHANGED history
  BY <1>3, QuietLinks DEF Quiet
<1>4. CASE HostAck \/ (HostAttention /\ host.at \in HostSends)
  <2>1. Ends /\ host.at \in HostSends
    BY <1>4 DEF HostAck, HostAt, HostAttention, HostSends
  <2>2. offer = [byte |-> host.byte, eoi |-> host.eoi]
    BY <2>1 DEF IInv, Computer
  <2> QED BY <1>1, <2>1, <2>2, ItemIsSome, EndsLinks
<1>5. CASE HostTake
  <2>1. host.at = "l_ack" /\ Takes(host.bits, host.eoi)
    BY <1>5 DEF HostTake, HostAt
  <2>2. ~accepted /\ host.eoi = (dev.left = 1) /\ Heard(Bits) /\ dev.at \in Writing \ {"w_next"}
    BY <2>1 DEF IInv, Meets, AtTake, Writing
  <2>3. offer = [byte |-> dev.byte, eoi |-> dev.left = 1]
    BY <2>2 DEF IInv, Drive, Talks
  <2>4. host.bits = dev.byte
    <3>1. host.bits \in Seq(BOOLEAN) /\ Bits \in Nat
      BY Numbers DEF IInv
    <3>2. host.bits \in [1 .. Bits -> BOOLEAN]
      BY <2>2, <3>1 DEF Heard
    <3> QED BY <1>1, <2>2, <3>2 DEF Heard, Byte
  <2> QED BY <1>1, <2>1, <2>2, <2>3, <2>4, TakesLinks
<1>6. CASE \E b \in Byte, e \in BOOLEAN : HostSend(b, e)
  <2>1. PICK b \in Byte, e \in BOOLEAN : HostSend(b, e)
    BY <1>6
  <2>2. Data /\ offer = NoItem
    BY <2>1, SendsToThere
  <2>3. Offers(b, e)
    BY <2>1, <2>2 DEF HostSend
  <2> QED BY <2>1, <2>2, <2>3, OffersLinks
<1> QED BY <1>2, <1>3, <1>4, <1>5, <1>6

\* A byte exchanged over the lines is one step of the link: the listener takes what the
\* talker offered, bit for bit and with its end mark, once, and neither end is left to
\* believe otherwise, for bytes of any length and wherever ATN comes
\* (iec_commands.cpp 305-384).
THEOREM ExchangesBytes == Spec => KeepsBytes
<1>1. Init => Link!Init
  BY DEF Init, Link!Init, phase
<1>2. IInv /\ [Next]_vars => [Link!Next]_(Link!vars)
  <2>1. SUFFICES ASSUME IInv, [Next]_vars PROVE [Link!Next]_(Link!vars)
    OBVIOUS
  <2>2. CASE Device
    BY <2>1, <2>2, DeviceLinks
  <2>3. CASE Host
    BY <2>1, <2>3, HostLinks
  <2>4. CASE Tick
    BY <2>4, QuietLinks DEF Tick, Quiet
  <2>5. CASE UNCHANGED vars
    BY <2>5, QuietLinks DEF vars, Quiet
  <2> QED BY <2>1, <2>2, <2>3, <2>4, <2>5 DEF Next
<1> QED BY <1>1, <1>2, Meeting, PTL DEF Spec, KeepsBytes,
         Link!Spec
=============================================================================
