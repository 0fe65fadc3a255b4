------------------------------- MODULE Numbers -------------------------------
(***************************************************************************)
(* The two number types everything else in Mercury is built on: the big    *)
(* integers that are identifiers, keys and attribute values (MercuryID.cpp)*)
(* with the bytes they travel as, and the moments of the scheduler         *)
(* (TimeVal.cpp).  A byte has ByteBits bits and a limb LimbBytes bytes, so *)
(* that numbers of several limbs are small enough to try them all.         *)
(***************************************************************************)
EXTENDS Integers, Sequences, FiniteSetsExt

CONSTANTS
    ByteBits, LimbBytes,
    MsecInSec, UsecInMsec,
    Scenarios       \* [ids: numbers to send, start: a moment, delays: delays to add, in usec]

VARIABLES
    conf,           \* the scenario
    buffer,         \* sg_mpz_buffer, which every number passes through
    pkt,            \* the packet: a sequence of [size, bytes]
    given,          \* the numbers read out of packets
    clock           \* [at: the moment reached, due: the delays added so far, next: one to add]

vars == <<conf, buffer, pkt, given, clock>>

LimbBits == ByteBits * LimbBytes
ByteBase == 2 ^ ByteBits
LimbBase == 2 ^ LimbBits

-----------------------------------------------------------------------------
(* A number is a sign and its magnitude in limbs, the lowest first and the highest never zero. *)

\* _mpz_fixsize
FixSize(d) == SubSeq(d, 1, Max({0} \cup {i \in 1 .. Len(d) : d[i] # 0}))

LimbsOf(m) == FixSize([i \in 1 .. 4 |-> (m \div LimbBase ^ (i - 1)) % LimbBase])

Id(v) == [neg |-> v < 0, d |-> LimbsOf(IF v < 0 THEN -v ELSE v)]

ValueOf(x) ==
    LET m == MapThenSumSet(LAMBDA i : x.d[i] * LimbBase ^ (i - 1), DOMAIN x.d)
    IN  IF x.neg THEN -m ELSE m

\* bytemsb: the place of the highest bit set in a byte
ByteMsb(b) == Max({0} \cup {i \in 1 .. ByteBits : (b \div 2 ^ (i - 1)) % 2 = 1})

\* The byte n of a limb, the lowest is 0.
ByteOf(limb, n) == (limb \div ByteBase ^ n) % ByteBase

\* fls32
Fls(limb) ==
    LET top == Max({0} \cup {n \in 1 .. LimbBytes - 1 : ByteOf(limb, n) # 0})
    IN  top * ByteBits + ByteMsb(ByteOf(limb, top))

\* mpz_sizeinbase2
SizeInBase2(x) ==
    IF \A i \in DOMAIN x.d : x.d[i] = 0 THEN 0
    ELSE LET i == Max({j \in DOMAIN x.d : x.d[j] # 0})
         IN  LimbBits * (i - 1) + Fls(x.d[i])

\* mpz_umod_2exp: x modulo 2^b, by two's complement when x is negative
Umod2Exp(x, b) ==
    LET nlimbs == (b + LimbBits - 1) \div LimbBits
        ae     == Min({Len(x.d), nlimbs})
        carry  == {i \in 1 .. ae : x.d[i] # 0}
        top(i) == IF i = nlimbs THEN 2 ^ (b - (nlimbs - 1) * LimbBits) ELSE LimbBase
        r      == [i \in 1 .. nlimbs |->
                      LET limb == IF i > ae THEN LimbBase - 1
                                  ELSE IF i < Min(carry) THEN 0
                                  ELSE IF i = Min(carry) THEN LimbBase - x.d[i]
                                  ELSE LimbBase - 1 - x.d[i]
                      IN  limb % top(i)]
    IN  IF ~x.neg THEN Id(ValueOf(x) % 2 ^ b)
        ELSE [neg |-> FALSE, d |-> IF carry = {} THEN <<>> ELSE FixSize(r)]

\* mpz_getbit: bit number "bit" of two's complement
GetBit(x, bit) ==
    LET limb   == bit \div LimbBits
        carry  == IF \A i \in 1 .. limb : x.d[i] = 0 THEN 1 ELSE 0
        e      == IF x.neg THEN (LimbBase - 1 - x.d[limb + 1]) + carry ELSE x.d[limb + 1]
    IN  IF limb >= Len(x.d) THEN (IF x.neg THEN 1 ELSE 0)
        ELSE (e \div 2 ^ (bit % LimbBits)) % 2

\* mpz_get_rawmag_be: whole limbs from the end of the buffer, then the rest of one or zeros
GetRawMag(x, size) ==
    LET whole == Min({size \div LimbBytes, Len(x.d)})
        n     == size - whole * LimbBytes
        part  == n < LimbBytes /\ whole < Len(x.d)
    IN  [i \in 1 .. size |->
            LET at   == size - i
                limb == at \div LimbBytes
            IN  IF limb < whole \/ part THEN ByteOf(x.d[limb + 1], at % LimbBytes) ELSE 0]

\* mpz_get_raw
GetRaw(x, size) ==
    GetRawMag(IF x.neg THEN Umod2Exp(x, size * ByteBits) ELSE x, size)

\* mpz_set_rawmag_be
SetRawMag(buf, size) ==
    LET byte(at) == IF at < size THEN buf[size - at] * ByteBase ^ (at % LimbBytes) ELSE 0
        limb(i)  == MapThenSumSet(LAMBDA n : byte((i - 1) * LimbBytes + n), 0 .. LimbBytes - 1)
    IN  [neg |-> FALSE, d |-> FixSize([i \in 1 .. (size + LimbBytes) \div LimbBytes |-> limb(i)])]

\* mpz_set_raw: the sign is the top bit of the buffer's first byte, whatever the size
SetRaw(buf, size) ==
    LET mag == SetRawMag(buf, size)
        neg == Umod2Exp([mag EXCEPT !.neg = mag.d # <<>>], ByteBits * size)
    IN  IF buf[1] >= ByteBase \div 2 THEN [neg EXCEPT !.neg = neg.d # <<>>] ELSE mag

\* Faulty: the bits are rounded up to whole bytes and none is left for the sign.
LengthRounded(x) == (SizeInBase2(x) + ByteBits - 1) \div ByteBits

\* GetLength without the four bytes of the length itself: a bit is kept for the sign
LengthOf(x) == IF SizeInBase2(x) = 0 THEN 0 ELSE SizeInBase2(x) \div ByteBits + 1

\* mpz_get_s64 and mpz_set_s64, for numbers of up to two limbs
Word64 == LimbBase ^ 2
SetS64(val) ==
    LET u == IF val < 0 THEN (-val) % Word64 ELSE val
    IN  [neg |-> val < 0, d |-> LimbsOf(u)]
GetS64(x) ==
    LET ret == ValueOf([x EXCEPT !.neg = FALSE]) % Word64
        u   == IF x.neg THEN (Word64 - ret) % Word64 ELSE ret
    IN  IF u >= Word64 \div 2 THEN u - Word64 ELSE u

-----------------------------------------------------------------------------
(* Moments: whole seconds and the microseconds beyond them. *)

UsecInSec == MsecInSec * UsecInMsec

\* C++ division, which drops the fraction
Quotient(a, b) == IF a < 0 THEN -((-a) \div b) ELSE a \div b

Before(a, b) == a.sec < b.sec \/ (a.sec = b.sec /\ a.usec < b.usec)

\* operator+ with a delay of "usec" microseconds: a carry only above a whole second
Later(a, usec) ==
    LET sec  == Quotient(usec, UsecInSec)
        rest == a.usec + (usec - sec * UsecInSec)
    IN  IF rest > UsecInSec THEN [sec |-> a.sec + sec + 1, usec |-> rest % UsecInSec]
        ELSE IF rest < 0 THEN [sec |-> a.sec + sec - 1, usec |-> UsecInSec + rest]
        ELSE [sec |-> a.sec + sec, usec |-> rest]

\* operator-, in milliseconds
Elapsed(a, b) ==
    (a.sec - b.sec) * MsecInSec + Quotient(a.usec - b.usec, UsecInMsec)

-----------------------------------------------------------------------------

Init ==
    /\ conf \in Scenarios
    /\ buffer = [i \in 1 .. 8 |-> ByteBase - 1]
    /\ pkt = <<>>
    /\ given = <<>>
    /\ clock = [at |-> conf.start, due |-> 0, next |-> 1]

\* MercuryID::Serialize, of the next number to send
Serialize ==
    LET n    == Len(given) + Len(pkt) + 1
        x    == Id(conf.ids[n])
        size == LengthOf(x)
    IN  /\ n <= Len(conf.ids)
        /\ buffer' = GetRaw(x, size) \o SubSeq(buffer, size + 1, Len(buffer))
        /\ pkt' = Append(pkt, [size |-> size, bytes |-> SubSeq(buffer', 1, size)])
        /\ UNCHANGED <<conf, given, clock>>

\* MercuryID::MercuryID(Packet *)
Deserialize ==
    /\ pkt # <<>>
    /\ buffer' = Head(pkt).bytes \o SubSeq(buffer, Head(pkt).size + 1, Len(buffer))
    /\ given' = Append(given, SetRaw(buffer', Head(pkt).size))
    /\ pkt' = Tail(pkt)
    /\ UNCHANGED <<conf, clock>>

\* The next delay is added to the moment reached, as Scheduler::RaiseEvent does.
AddDelay ==
    /\ clock.next <= Len(conf.delays)
    /\ clock' = [at   |-> Later(clock.at, conf.delays[clock.next]),
                 due  |-> clock.due + conf.delays[clock.next],
                 next |-> clock.next + 1]
    /\ UNCHANGED <<conf, buffer, pkt, given>>

Next == Serialize \/ Deserialize \/ AddDelay

Spec == Init /\ [][Next]_vars

-----------------------------------------------------------------------------
(***************************************************************************)
(* A number that crossed the network is the number that was sent, sign     *)
(* included, whatever the shared buffer held before; it is in the same     *)
(* form, its bits are those of two's complement, and so is its 64-bit      *)
(* value.                                                                  *)
(***************************************************************************)
IdsKept ==
    \A i \in DOMAIN given :
        LET v == conf.ids[i]
        IN  /\ given[i] = Id(v)
            /\ ValueOf(given[i]) = v
            /\ \A b \in 0 .. 3 * LimbBits :
                   GetBit(given[i], b) = (v \div 2 ^ b) % 2
            /\ v \in -(Word64 \div 2) .. Word64 \div 2 - 1 => GetS64(SetS64(v)) = v

(***************************************************************************)
(* Delays added up, forwards and backwards, lead to the moment they add up *)
(* to; what lies between two moments is told to the millisecond and never  *)
(* with the wrong sign; and of two moments the later one is told from the  *)
(* earlier, but for a whole second, which has two forms.                   *)
(***************************************************************************)
MomentsKept ==
    LET at == clock.at  start == conf.start
    IN  /\ at.sec * UsecInSec + at.usec = start.sec * UsecInSec + start.usec + clock.due
        /\ at.usec \in 0 .. UsecInSec
        /\ Elapsed(at, start) * UsecInMsec \in clock.due - UsecInMsec + 1 .. clock.due + UsecInMsec - 1
        /\ (clock.due > 0 => Elapsed(at, start) >= 0) /\ (clock.due < 0 => Elapsed(at, start) <= 0)
        /\ at.usec < UsecInSec => (Before(at, start) <=> clock.due < 0)

NumbersKept == IdsKept /\ MomentsKept
=============================================================================
