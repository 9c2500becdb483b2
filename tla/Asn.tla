--------------------------------- MODULE Asn ---------------------------------
(***************************************************************************)
(* The BER coding of asn.cpp, which every SNMP message goes through: the   *)
(* null-buffer pass that computes lengths, the marshalling, and the        *)
(* demarshalling of what arrives.  An octet holds Base values instead of   *)
(* 256; everything that depends on its width is scaled with it.            *)
(***************************************************************************)
EXTENDS Integers, Sequences, FiniteSets

CONSTANTS
    Base,           \* values of an octet; 256 in the code
    Objects         \* objects that are marshalled

ASSUME AsnAssumption == Base \in Nat /\ Base > 7 /\ Base % 2 = 0

VARIABLES
    message,        \* the object that was marshalled
    octets,         \* what is left to read
    whole,          \* nothing is missing at the end of octets
    object          \* what was read; NoObject if refused; Unread before

asnVars == <<message, octets, whole, object>>

Half == Base \div 2                     \* the weight of an octet's top bit
Word == Base * Base * Base * Base       \* values of an unsigned int

(* The type codes (one octet each, whatever their class bits).             *)
INTEGER == 2
OCTETSTRING == 4
NULLL == 5
OBJECTID == 6
SEQUENCE == 7

NoObject == [type |-> 0]
Unread == [type |-> 1]

AsnInit == message = NoObject /\ octets = <<>> /\ whole = TRUE /\ object = Unread

---------------------------------------------------------------------------
(* The digits of v to a base, most significant first, at least one.        *)
RECURSIVE Digits(_, _)
Digits(v, base) == IF v < base THEN <<v>> ELSE Append(Digits(v \div base, base), v % base)

(* marshalLength(): short form below Half, else the number of octets       *)
(* with the top bit set and the octets.                                    *)
ShortForm_256(len) == len < Base         \* mutant: one octet as long as it fits
ShortForm(len) == len < Half
marshalLength(len) ==
    IF ShortForm(len) THEN <<len>>
    ELSE <<Half + Len(Digits(len, Base))>> \o Digits(len, Base)

(* Integer::Marshal(): leading octets are left out while the top nine bits *)
(* of what remains are all sign; one is added to an unsigned value with    *)
(* the top bit set.  [v: 0..Word-1, signed]                                *)
Octet(v, k) == (v \div (CASE k = 1 -> 1 [] k = 2 -> Base [] k = 3 -> Base * Base [] k = 4 -> Base * Base * Base)) % Base
Redundant_zero(o, k) ==                  \* mutant: the sign bit of the rest is not looked at
    Octet(o.v, k) = IF o.signed THEN Base - 1 ELSE 0
Redundant(o, k) ==
    IF o.signed THEN Octet(o.v, k) = Base - 1 /\ Octet(o.v, k - 1) >= Half
    ELSE Octet(o.v, k) = 0 /\ Octet(o.v, k - 1) < Half
IntegerLen(o) ==
    IF ~o.signed /\ Octet(o.v, 4) >= Half THEN 5
    ELSE CHOOSE n \in 1..4 : /\ \A k \in (n + 1)..4 : Redundant(o, k)
                             /\ n = 1 \/ ~Redundant(o, n)
IntegerOctets(o) ==
    [j \in 1..IntegerLen(o) |-> IF IntegerLen(o) - j + 1 = 5 THEN 0 ELSE Octet(o.v, IntegerLen(o) - j + 1)]

(* ObjectId::Marshal(): the first two identifiers are one value; seven     *)
(* bits to an octet, the top bit set in all but the last.                  *)
Arcs(o) == <<o.v[1] * 40 + o.v[2]>> \o SubSeq(o.v, 3, Len(o.v))
Septets(v) == LET d == Digits(v, Half) IN [j \in DOMAIN d |-> IF j < Len(d) THEN d[j] + Half ELSE d[j]]
RECURSIVE Flatten(_)
Flatten(ss) == IF ss = <<>> THEN <<>> ELSE Head(ss) \o Flatten(Tail(ss))
ObjectIdOctets(o) == Flatten([j \in DOMAIN Arcs(o) |-> Septets(Arcs(o)[j])])

(* Marshal() with a null buffer, which adds up the octets that the second  *)
(* pass will write: ...                                                    *)
RECURSIVE Sum(_), Length(_)
Sum(ns) == IF ns = <<>> THEN 0 ELSE Head(ns) + Sum(Tail(ns))
Contents(o) ==
    CASE o.type = INTEGER     -> IntegerLen(o)
      [] o.type = OCTETSTRING -> Len(o.v)
      [] o.type = OBJECTID    -> Sum([j \in DOMAIN Arcs(o) |-> Len(Digits(Arcs(o)[j], Half))])
      [] o.type = NULLL       -> 0
      [] o.type = SEQUENCE    -> Sum([j \in DOMAIN o.v |-> Length(o.v[j])])
Length(o) == 1 + Len(marshalLength(Contents(o))) + Contents(o)

(* ... and the second pass.                                                *)
RECURSIVE Marshal(_)
Marshal(o) ==
    <<o.type>> \o marshalLength(Contents(o)) \o
    CASE o.type = INTEGER     -> IntegerOctets(o)
      [] o.type = OCTETSTRING -> o.v
      [] o.type = OBJECTID    -> ObjectIdOctets(o)
      [] o.type = NULLL       -> <<>>
      [] o.type = SEQUENCE    -> Flatten([j \in DOMAIN o.v |-> Marshal(o.v[j])])

---------------------------------------------------------------------------
(* demarshalLength(): [ok, len, rest].                                     *)
RECURSIVE Number(_, _)
Number(ds, base) == IF ds = <<>> THEN 0 ELSE Number(SubSeq(ds, 1, Len(ds) - 1), base) * base + ds[Len(ds)]
Refused == [ok |-> FALSE, len |-> 0, rest |-> <<>>]
demarshalLength(b) ==
    IF b = <<>> THEN Refused
    ELSE IF Head(b) < Half THEN [ok |-> TRUE, len |-> Head(b), rest |-> Tail(b)]
    ELSE LET n == Head(b) - Half
         IN IF Len(b) - 1 < n THEN Refused
            ELSE [ok |-> TRUE, len |-> Number(SubSeq(b, 2, n + 1), Base), rest |-> SubSeq(b, n + 2, Len(b))]

(* Integer::demarshal(): the value is sign-extended, and signed if so.     *)
FromOctets(d) ==
    LET negative == d[1] >= Half
        low == Number(d, Base)
        width == CASE Len(d) = 1 -> Base [] Len(d) = 2 -> Base * Base [] Len(d) = 3 -> Base * Base * Base [] Len(d) = 4 -> Word
    IN [type |-> INTEGER, signed |-> negative, v |-> IF negative THEN Word - width + low ELSE low]

(* ObjectId::demarshal().                                                  *)
RECURSIVE Identifiers(_, _)
Identifiers(d, acc) ==
    IF d = <<>> THEN <<>>
    ELSE LET v == acc * Half + (Head(d) % Half)
         IN IF Head(d) >= Half /\ Len(d) > 1 THEN Identifiers(Tail(d), v)
            ELSE <<v>> \o Identifiers(Tail(d), 0)
FromSeptets(d) ==
    LET a == Identifiers(d, 0)
    IN [type |-> OBJECTID, v |-> <<a[1] \div 40, a[1] % 40>> \o Tail(a)]

FromString(d) == [type |-> OCTETSTRING, v |-> d]        \* OctetString::demarshal()

(* Object::Demarshal(): [obj, rest]; an object whose length runs past the  *)
(* end, or which is empty (but for the null), is refused, and with it the  *)
(* sequence that it is in.                                                 *)
RECURSIVE Demarshal(_), Parts(_)
Bad == [obj |-> NoObject, rest |-> <<>>]
DemarshalNull(l) == IF l.len = 0 THEN [obj |-> [type |-> NULLL], rest |-> l.rest] ELSE Bad
Demarshal(b) ==
    IF b = <<>> \/ Head(b) \notin {INTEGER, OCTETSTRING, NULLL, OBJECTID, SEQUENCE} THEN Bad
    ELSE LET l == demarshalLength(Tail(b))
             d == SubSeq(l.rest, 1, l.len)
             after == SubSeq(l.rest, l.len + 1, Len(l.rest))
             type == Head(b)
         IN IF ~l.ok THEN Bad
            ELSE IF type = NULLL THEN DemarshalNull(l)
            ELSE IF l.len < 1 \/ Len(l.rest) < l.len THEN Bad
            ELSE IF type = INTEGER
                 THEN IF l.len > 4 THEN Bad ELSE [obj |-> FromOctets(d), rest |-> after]
            ELSE IF type = OCTETSTRING THEN [obj |-> FromString(d), rest |-> after]
            ELSE IF type = OBJECTID THEN [obj |-> FromSeptets(d), rest |-> after]
            ELSE LET p == Parts(d)
                 IN IF NoObject \in {p[j] : j \in DOMAIN p} THEN Bad
                    ELSE [obj |-> [type |-> type, v |-> p], rest |-> after]
Parts(d) ==
    IF d = <<>> THEN <<>>
    ELSE LET r == Demarshal(d)
         IN IF r.obj = NoObject THEN <<NoObject>> ELSE <<r.obj>> \o Parts(r.rest)

---------------------------------------------------------------------------
AsnMarshal ==
    /\ message = NoObject
    /\ \E o \in Objects : message' = o /\ octets' = Marshal(o)
    /\ UNCHANGED <<whole, object>>

(* A datagram that is longer than the buffer of the receiver is cut.       *)
AsnCut ==
    /\ message # NoObject /\ object = Unread /\ whole
    /\ \E n \in 0..(Len(octets) - 1) : octets' = SubSeq(octets, 1, n)
    /\ whole' = FALSE
    /\ UNCHANGED <<message, object>>

AsnDemarshal ==
    /\ message # NoObject /\ object = Unread
    /\ LET r == Demarshal(octets)
       IN object' = r.obj /\ octets' = r.rest
    /\ UNCHANGED <<message, whole>>

AsnNext == AsnMarshal \/ AsnCut \/ AsnDemarshal

---------------------------------------------------------------------------
(* Objects that cannot be read back: an unsigned value of 2^31 and more is *)
(* written with five octets, of which demarshal() takes four at most, and  *)
(* an empty string or sequence is refused.                                 *)
RECURSIVE Readable(_)
Readable(o) ==
    CASE o.type = INTEGER  -> o.signed \/ o.v < Word \div 2
      [] o.type = OCTETSTRING -> o.v # <<>>
      [] o.type = SEQUENCE -> o.v # <<>> /\ \A j \in DOMAIN o.v : Readable(o.v[j])
      [] OTHER             -> TRUE

(* Every other object that Marshal() writes is what Demarshal() reads, to  *)
(* its last octet, whatever widths its lengths and values take; a message  *)
(* that was cut anywhere is refused, never read as another one; and the    *)
(* two passes of Marshal() agree on the length.                            *)
RoundTrip ==
    /\ object # Unread =>
         object = IF whole /\ Readable(message) THEN message ELSE NoObject
    /\ object # Unread /\ object # NoObject => octets = <<>>
    /\ message # NoObject /\ object = Unread /\ whole => Len(octets) = Length(message)
=============================================================================
