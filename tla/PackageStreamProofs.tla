------------------------- MODULE PackageStreamProofs -------------------------
(***************************************************************************)
(* What is read is what was written.                                       *)
(*                                                                         *)
(* Deserialize is shown to be the inverse of Serialize, for every package  *)
(* and every two machines, with Holds(view, offset, piece): what one       *)
(* Serialize appended is at the offset where the Deserialize of the same   *)
(* member looks.  For the stream, the buffers that write_package has       *)
(* written are laid out one after the other (Laid, with the position of    *)
(* each as a function of its number, so that nothing needs to be summed    *)
(* up), and the invariant says that the reader's buffer and the bytes in   *)
(* the connection come next in it (Unread).                                *)
(***************************************************************************)
EXTENDS PackageStream, SequenceTheorems, TLAPS

-----------------------------------------------------------------------------

Bytes == Seq(Byte)

(* piece is in view, from offset on.                                       *)
Holds(view, offset, piece) ==
    /\ offset + Len(piece) <= Len(view)
    /\ \A i \in 1..Len(piece) : view[offset + i] = piece[i]

LEMMA HoldsItself ==
  ASSUME NEW view \in Bytes
  PROVE  Holds(view, 0, view)
  BY DEF Holds, Bytes, Byte

(* The pieces of a piece.                                                  *)
LEMMA HoldsParts ==
  ASSUME NEW view \in Bytes, NEW offset \in Nat, NEW a \in Bytes, NEW b \in Bytes,
         Holds(view, offset, a \o b)
  PROVE  /\ Holds(view, offset, a)
         /\ Holds(view, offset + Len(a), b)
  <1>1. /\ a \o b \in Bytes /\ Len(a \o b) = Len(a) + Len(b)
        /\ \A i \in 1..Len(a) + Len(b) : (a \o b)[i] = IF i <= Len(a) THEN a[i] ELSE b[i - Len(a)]
    BY ConcatProperties DEF Bytes
  <1>2. Len(a) \in Nat /\ Len(b) \in Nat /\ Len(view) \in Nat
    BY DEF Bytes
  <1>3. offset + (Len(a) + Len(b)) <= Len(view)
    BY <1>1 DEF Holds
  <1>4. ASSUME NEW i \in 1..Len(a) PROVE view[offset + i] = a[i]
    <2>1. i \in 1..Len(a) + Len(b)
      BY <1>2
    <2> QED BY <1>1, <2>1 DEF Holds
  <1>5. ASSUME NEW i \in 1..Len(b) PROVE view[offset + Len(a) + i] = b[i]
    <2>1. Len(a) + i \in 1..Len(a) + Len(b) /\ ~(Len(a) + i <= Len(a)) /\ (Len(a) + i) - Len(a) = i
          /\ offset + (Len(a) + i) = offset + Len(a) + i
      BY <1>2
    <2>2. (a \o b)[Len(a) + i] = b[i]
      BY <1>1, <2>1
    <2>3. view[offset + (Len(a) + i)] = (a \o b)[Len(a) + i]
      BY <1>1, <2>1 DEF Holds
    <2> QED BY <2>1, <2>2, <2>3
  <1> QED BY <1>2, <1>3, <1>4, <1>5 DEF Holds

(* What view holds is a part of it.                                        *)
LEMMA HeldIsSubSeq ==
  ASSUME NEW view \in Bytes, NEW offset \in Nat, NEW piece \in Bytes, Holds(view, offset, piece)
  PROVE  SubSeq(view, offset + 1, offset + Len(piece)) = piece
  <1>1. Len(piece) \in Nat /\ Len(view) \in Nat /\ offset + Len(piece) <= Len(view)
    BY DEF Bytes, Holds
  <1>2. \A i \in offset + 1 .. offset + Len(piece) : view[i] \in Byte
    BY <1>1 DEF Bytes
  <1>3. /\ SubSeq(view, offset + 1, offset + Len(piece)) \in Seq(Byte)
        /\ Len(SubSeq(view, offset + 1, offset + Len(piece)))
           = IF offset + 1 <= offset + Len(piece) THEN offset + Len(piece) - (offset + 1) + 1 ELSE 0
        /\ \A i \in 1 .. offset + Len(piece) - (offset + 1) + 1 :
               SubSeq(view, offset + 1, offset + Len(piece))[i] = view[offset + 1 + i - 1]
    <2>1. offset + 1 \in Int /\ offset + Len(piece) \in Int
      BY <1>1
    <2> QED BY <1>2, <2>1, SubSeqProperties
  <1>4. Len(SubSeq(view, offset + 1, offset + Len(piece))) = Len(piece)
    BY <1>1, <1>3
  <1>5. ASSUME NEW i \in 1..Len(piece)
        PROVE  SubSeq(view, offset + 1, offset + Len(piece))[i] = piece[i]
    <2>1. i \in 1 .. offset + Len(piece) - (offset + 1) + 1 /\ offset + 1 + i - 1 = offset + i
      BY <1>1
    <2>2. SubSeq(view, offset + 1, offset + Len(piece))[i] = view[offset + i]
      BY <1>3, <2>1
    <2> QED BY <2>2 DEF Holds
  <1> QED BY <1>3, <1>4, <1>5, SeqEqual DEF Bytes

-----------------------------------------------------------------------------

LEMMA WordIsBytes ==
  ASSUME NEW x \in Word
  PROVE  x \in Bytes /\ Len(x) = 4 /\ DOMAIN x = 1..4
         /\ x[1] \in Byte /\ x[2] \in Byte /\ x[3] \in Byte /\ x[4] \in Byte
  BY DEF Word, Size, Bytes

(* An integer of 32 bits is its four bytes.                                *)
LEMMA NumberOfInteger ==
  ASSUME NEW n \in Nat, Fits(n)
  PROVE  Integer(n) \in Word /\ Number(Integer(n)) = n
  <1>1. PICK a, b, c, d : a = n \div 16777216 /\ b = (n \div 65536) % 256
                          /\ c = (n \div 256) % 256 /\ d = n % 256
    OBVIOUS
  <1>2. a \in Byte /\ b \in Byte /\ c \in Byte /\ d \in Byte
    BY <1>1, SMT DEF Byte, Fits
  <1>3. Integer(n) = <<a, b, c, d>>
    BY <1>1, SMT DEF Integer
  <1>4. Integer(n) \in Word
    BY <1>2, <1>3 DEF Word, Size
  <1>5. Number(Integer(n)) = 256 * (256 * (256 * a + b) + c) + d
    BY <1>3 DEF Number
  <1>6. n \div 256 = 256 * (n \div 65536) + c /\ n = 256 * (n \div 256) + d
        /\ n \div 65536 = 256 * a + b
    BY ONLY <1>1, n \in Nat, SMT
  <1> QED BY ONLY <1>1, <1>2, <1>4, <1>5, <1>6, n \in Nat, SMT DEF Byte

(* Endian finds out which machine it is on.                                *)
LEMMA EndianType ==
  ASSUME NEW m \in Machine
  PROVE  GetEndianType(m) = m
  <1>1. Integer(1) = <<0, 0, 0, 1>>
    BY SMT DEF Integer
  <1>2. CASE m = "Big"
    BY <1>1, <1>2 DEF GetEndianType, Memory
  <1>3. CASE m = "Little"
    <2>1. PICK one : one = Integer(1)
      OBVIOUS
    <2>2. Len(one) = 4 /\ one[4] = 1
      BY <1>1, <2>1
    <2>3. Reverse(one)[1] = one[4]
      <3>1. 1 \in 1..Len(one) /\ (Len(one) - 1) + 1 = 4
        BY ONLY <2>2
      <3> QED BY ONLY <3>1 DEF Reverse
    <2>4. Reverse(one)[1] = 1
      BY ONLY <2>2, <2>3
    <2> QED BY <1>3, <2>1, <2>4 DEF GetEndianType, Memory
  <1> QED BY <1>2, <1>3 DEF Machine

(* What is written has the most significant byte first on any machine.     *)
LEMMA SerializedInteger ==
  ASSUME NEW m \in Machine, NEW x \in Word
  PROVE  SerializeInteger(m, x) = x
  <1>1. CASE m = "Big"
    BY <1>1, EndianType DEF SerializeInteger, Memory
  <1>2. CASE m = "Little"
    <2>1. SerializeInteger(m, x) = Reverse(flipByByte(x))
      BY <1>2, EndianType DEF SerializeInteger, Memory
    <2>2. PICK y : y = flipByByte(x)
      OBVIOUS
    <2>3. y = [i \in 1..4 |-> x[5 - i]]
      <3>1. DOMAIN x = 1..4 /\ Len(x) = 4
        BY WordIsBytes
      <3>2. y = [i \in 1..4 |-> x[4 + 1 - i]]
        BY ONLY <2>2, <3>1 DEF flipByByte
      <3>3. \A i \in 1..4 : 4 + 1 - i = 5 - i
        OBVIOUS
      <3> QED BY ONLY <3>2, <3>3
    <2>4. y \in Seq(Byte) /\ Len(y) = 4
      <3>1. \A i \in 1..4 : x[5 - i] \in Byte
        BY WordIsBytes
      <3> QED BY <2>3, <3>1
    <2>5. Reverse(y) = [i \in 1..4 |-> y[(4 - i) + 1]]
      BY <2>4 DEF Reverse
    <2>6. \A i \in 1..4 : y[(4 - i) + 1] = x[i]
      BY <2>3
    <2>7. Reverse(y) = [i \in 1..4 |-> x[i]]
      BY <2>5, <2>6
    <2>8. x = [i \in 1..4 |-> x[i]]
      BY WordIsBytes DEF Word, Size
    <2> QED BY <2>1, <2>2, <2>7, <2>8
  <1> QED BY <1>1, <1>2 DEF Machine

LEMMA DeserializedInteger ==
  ASSUME NEW m \in Machine, NEW view \in Bytes, NEW offset \in Nat, NEW x \in Word,
         Holds(view, offset, x)
  PROVE  DeserializeInteger(m, view, offset) = [v |-> x, offset |-> offset + 4]
  <1>1. SubSeq(view, offset + 1, offset + 4) = x
    BY WordIsBytes, HeldIsSubSeq
  <1>2. (IF GetEndianType(m) = "Little" THEN flipByByte(Memory(m, x)) ELSE Memory(m, x)) = x
    <2>1. CASE m = "Big"
      BY <2>1, EndianType DEF Memory
    <2>2. CASE m = "Little"
      <3>1. PICK y : y = Reverse(x)
        OBVIOUS
      <3>2. y = [i \in 1..4 |-> x[(4 - i) + 1]]
        BY <3>1, WordIsBytes DEF Reverse
      <3>3. y \in Seq(Byte) /\ Len(y) = 4 /\ DOMAIN y = 1..4
        <4>1. \A i \in 1..4 : x[(4 - i) + 1] \in Byte
          BY WordIsBytes
        <4> QED BY <3>2, <4>1
      <3>4. flipByByte(y) = [i \in 1..4 |-> y[4 + 1 - i]]
        BY <3>3 DEF flipByByte
      <3>5. \A i \in 1..4 : y[4 + 1 - i] = x[i]
        BY <3>2
      <3>6. x = [i \in 1..4 |-> x[i]]
        BY WordIsBytes DEF Word, Size
      <3>7. flipByByte(y) = x
        BY <3>4, <3>5, <3>6
      <3> QED BY <2>2, <3>1, <3>7, EndianType DEF Memory
    <2> QED BY <2>1, <2>2 DEF Machine
  <1> QED BY <1>1, <1>2 DEF DeserializeInteger, Size

LEMMA Together ==
  ASSUME NEW a \in Bytes, NEW b \in Bytes
  PROVE  a \o b \in Bytes /\ Len(a \o b) = Len(a) + Len(b)
  BY DEF Bytes

LEMMA SerializedString ==
  ASSUME NEW m \in Machine, NEW s \in String
  PROVE  /\ SerializeString(m, s) = Integer(Len(s)) \o s
         /\ Integer(Len(s)) \in Word /\ Integer(Len(s)) \in Bytes /\ Len(Integer(Len(s))) = 4
         /\ SerializeString(m, s) \in Bytes /\ Len(SerializeString(m, s)) = 4 + Len(s)
  <1>1. Len(s) \in Nat /\ Fits(Len(s)) /\ s \in Bytes
    BY DEF String, Bytes
  <1>2. Integer(Len(s)) \in Word
    BY <1>1, NumberOfInteger
  <1>3. Integer(Len(s)) \in Bytes /\ Len(Integer(Len(s))) = 4
    BY <1>2, WordIsBytes
  <1>4. SerializeString(m, s) = Integer(Len(s)) \o s
    <2>1. SerializeInteger(m, Integer(Len(s))) = Integer(Len(s))
      BY <1>2, SerializedInteger
    <2> QED BY <2>1 DEF SerializeString
  <1>5. Integer(Len(s)) \o s \in Bytes /\ Len(Integer(Len(s)) \o s) = 4 + Len(s)
    <2>1. PICK x : x = Integer(Len(s))
      OBVIOUS
    <2>2. x \in Bytes /\ Len(x) = 4
      BY <1>3, <2>1
    <2>3. x \o s \in Bytes /\ Len(x \o s) = 4 + Len(s)
      BY <1>1, <2>2, Together
    <2> QED BY <2>1, <2>3
  <1> QED BY <1>2, <1>3, <1>4, <1>5

LEMMA DeserializedString ==
  ASSUME NEW m \in Machine, NEW w \in Machine, NEW view \in Bytes, NEW offset \in Nat, NEW s \in String,
         Holds(view, offset, SerializeString(w, s))
  PROVE  DeserializeString(m, view, offset) = [v |-> s, offset |-> offset + Len(SerializeString(w, s))]
  <1>1. Len(s) \in Nat /\ Fits(Len(s)) /\ s \in Bytes
    BY DEF String, Bytes
  <1>2. PICK x : x = Integer(Len(s))
    OBVIOUS
  <1>3. x \in Word /\ x \in Bytes /\ Len(x) = 4 /\ SerializeString(w, s) = x \o s
        /\ Len(SerializeString(w, s)) = 4 + Len(s) /\ Number(x) = Len(s)
    <2>1. Number(x) = Len(s)
      BY <1>1, <1>2, NumberOfInteger
    <2> QED BY <1>2, <2>1, SerializedString
  <1>4. Holds(view, offset, x) /\ Holds(view, offset + 4, s)
    BY <1>1, <1>3, HoldsParts
  <1>5. DeserializeInteger(m, view, offset) = [v |-> x, offset |-> offset + 4]
    BY <1>3, <1>4, DeserializedInteger
  <1>6. SubSeq(view, offset + 4 + 1, offset + 4 + Len(s)) = s
    BY <1>1, <1>4, HeldIsSubSeq
  <1>7. DeserializeString(m, view, offset)
        = [v |-> SubSeq(view, offset + 4 + 1, offset + 4 + Len(s)), offset |-> offset + 4 + Len(s)]
    <2>1. PICK len : len = DeserializeInteger(m, view, offset)
      OBVIOUS
    <2>2. len.v = x /\ len.offset = offset + 4
      BY ONLY <1>5, <2>1
    <2>3. DeserializeString(m, view, offset)
          = [v |-> SubSeq(view, len.offset + 1, len.offset + Number(len.v)),
             offset |-> len.offset + Number(len.v)]
      BY ONLY <2>1 DEF DeserializeString
    <2> QED BY ONLY <1>3, <2>2, <2>3
  <1>8. offset + 4 + Len(s) = offset + (4 + Len(s))
    BY <1>1
  <1> QED BY <1>3, <1>6, <1>7, <1>8

LEMMA DeserializedChar ==
  ASSUME NEW view \in Bytes, NEW offset \in Nat, NEW b \in BOOLEAN,
         NEW yes \in Byte, NEW no \in Byte, yes # no, Holds(view, offset, <<IF b THEN yes ELSE no>>)
  PROVE  DeserializeChar(yes, no, view, offset) = [v |-> b, offset |-> offset + 1]
  <1>1. PICK c : c = IF b THEN yes ELSE no
    OBVIOUS
  <1>2. view[offset + 1] = c
    <2>1. Holds(view, offset, <<c>>)
      BY <1>1
    <2>2. Len(<<c>>) = 1 /\ <<c>>[1] = c
      OBVIOUS
    <2> QED BY <2>1, <2>2 DEF Holds
  <1>3. (IF c \in {yes, no} THEN c = yes ELSE "invalid") = b
    BY <1>1
  <1> QED BY <1>2, <1>3 DEF DeserializeChar

(* The characters that stand for bools.                                    *)
LEMMA OneChar ==
  ASSUME NEW b \in BOOLEAN, NEW yes \in Byte, NEW no \in Byte
  PROVE  << IF b THEN yes ELSE no >> \in Bytes /\ Len(<< IF b THEN yes ELSE no >>) = 1
  <1>1. PICK c \in Byte : c = IF b THEN yes ELSE no
    OBVIOUS
  <1>2. <<c>> \in Bytes /\ Len(<<c>>) = 1
    BY DEF Bytes
  <1> QED BY <1>1, <1>2

LEMMA CharsDiffer == CharE \in Byte /\ CharN \in Byte /\ CharE # CharN
                     /\ CharT \in Byte /\ CharF \in Byte /\ CharT # CharF
  BY DEF CharE, CharN, CharT, CharF, Byte

-----------------------------------------------------------------------------

(* Package by package: where its members are, and what they are read as.   *)
LEMMA PackageBack ==
  ASSUME NEW w \in Machine, NEW m \in Machine, NEW v \in [eof : BOOLEAN, bin_data : String]
  PROVE  /\ SerializePackage(w, v) \in Bytes /\ SerializePackage(w, v) # <<>>
         /\ DeserializePackage(m, SerializePackage(w, v))
            = [v |-> v, offset |-> Len(SerializePackage(w, v))]
  <1>1. PICK a, b, view : /\ a = << IF v.eof THEN CharE ELSE CharN >> /\ b = SerializeString(w, v.bin_data)
                          /\ view = SerializePackage(w, v)
    OBVIOUS
  <1>2. v.eof \in BOOLEAN /\ v.bin_data \in String
    OBVIOUS
  <1>3. a \in Bytes /\ Len(a) = 1 /\ b \in Bytes
    BY <1>1, <1>2, CharsDiffer, OneChar, SerializedString
  <1>4. view = a \o b /\ view \in Bytes /\ Len(view) = 1 + Len(b)
    <2>1. view = a \o b
      BY <1>1 DEF SerializePackage
    <2> QED BY <1>3, <2>1, Together
  <1>5. Holds(view, 0, a) /\ Holds(view, 1, b)
    <2>1. Holds(view, 0, a \o b)
      BY <1>4, HoldsItself
    <2> QED BY <1>3, <1>4, <2>1, HoldsParts
  <1>6. PICK eof, bin_data : eof = DeserializeChar(CharE, CharN, view, 0)
                             /\ bin_data = DeserializeString(m, view, eof.offset)
    OBVIOUS
  <1>7. eof = [v |-> v.eof, offset |-> 1]
    BY <1>1, <1>2, <1>4, <1>5, <1>6, CharsDiffer, DeserializedChar
  <1>8. bin_data = [v |-> v.bin_data, offset |-> 1 + Len(b)]
    <2>1. eof.offset = 1
      BY ONLY <1>7
    <2> QED BY <1>1, <1>2, <1>4, <1>5, <1>6, <2>1, DeserializedString
  <1>9. DeserializePackage(m, view)
        = [v |-> [eof |-> eof.v, bin_data |-> bin_data.v], offset |-> bin_data.offset]
    BY <1>6 DEF DeserializePackage
  <1>10. eof.v = v.eof /\ bin_data.v = v.bin_data /\ bin_data.offset = Len(view)
    BY ONLY <1>4, <1>7, <1>8
  <1>11. v = [eof |-> v.eof, bin_data |-> v.bin_data]
    OBVIOUS
  <1>12. view # <<>>
    BY ONLY <1>3, <1>4 DEF Bytes
  <1> QED BY <1>1, <1>4, <1>9, <1>10, <1>11, <1>12

LEMMA ThreeParts ==
  ASSUME NEW a \in Bytes, NEW b \in Bytes, NEW c \in Bytes, NEW view \in {a \o b \o c}
  PROVE  /\ view \in Bytes /\ Len(view) = Len(a) + Len(b) + Len(c)
         /\ Holds(view, 0, a) /\ Holds(view, Len(a), b) /\ Holds(view, Len(a) + Len(b), c)
  <1>1. PICK d : d = a \o b
    OBVIOUS
  <1>2. d \in Bytes /\ Len(d) = Len(a) + Len(b)
    BY <1>1, Together
  <1>3. view = d \o c
    BY <1>1
  <1>4. view \in Bytes /\ Len(view) = Len(d) + Len(c)
    BY <1>2, <1>3, Together
  <1>5. Holds(view, 0, d \o c)
    BY <1>3, <1>4, HoldsItself
  <1>6. Holds(view, 0, d) /\ Holds(view, 0 + Len(d), c)
    BY <1>2, <1>4, <1>5, HoldsParts
  <1>7. Holds(view, 0, a) /\ Holds(view, 0 + Len(a), b)
    BY <1>1, <1>4, <1>6, HoldsParts
  <1>8. 0 + Len(a) = Len(a) /\ 0 + Len(d) = Len(d)
    BY <1>2 DEF Bytes
  <1> QED BY <1>2, <1>4, <1>6, <1>7, <1>8

LEMMA FourParts ==
  ASSUME NEW a \in Bytes, NEW b \in Bytes, NEW c \in Bytes, NEW d \in Bytes,
         NEW view \in {a \o b \o c \o d}
  PROVE  /\ view \in Bytes /\ Len(view) = Len(a) + Len(b) + Len(c) + Len(d)
         /\ Holds(view, 0, a) /\ Holds(view, Len(a), b) /\ Holds(view, Len(a) + Len(b), c)
         /\ Holds(view, Len(a) + Len(b) + Len(c), d)
  <1>1. PICK e : e = a \o b
    OBVIOUS
  <1>2. e \in Bytes /\ Len(e) = Len(a) + Len(b)
    BY <1>1, Together
  <1>3. view = e \o c \o d
    BY <1>1
  <1>4. /\ view \in Bytes /\ Len(view) = Len(e) + Len(c) + Len(d)
        /\ Holds(view, 0, e) /\ Holds(view, Len(e), c) /\ Holds(view, Len(e) + Len(c), d)
    BY <1>2, <1>3, ThreeParts
  <1>5. Holds(view, 0, a) /\ Holds(view, 0 + Len(a), b)
    BY <1>1, <1>4, HoldsParts
  <1>6. 0 + Len(a) = Len(a)
    BY DEF Bytes
  <1> QED BY <1>2, <1>4, <1>5, <1>6

LEMMA RequestBack ==
  ASSUME NEW w \in Machine, NEW m \in Machine,
         NEW v \in [topic : String, type : Word, timeout_ms : Word]
  PROVE  /\ SerializeRequest(w, v) \in Bytes /\ SerializeRequest(w, v) # <<>>
         /\ DeserializeRequest(m, SerializeRequest(w, v))
            = [v |-> v, offset |-> Len(SerializeRequest(w, v))]
  <1>1. PICK a, b, c, view :
            /\ a = SerializeString(w, v.topic)
            /\ b = SerializeInteger(w, v.type)
            /\ c = SerializeInteger(w, v.timeout_ms)
            /\ view = SerializeRequest(w, v)
    OBVIOUS
  <1>2. v.topic \in String /\ v.type \in Word /\ v.timeout_ms \in Word
    OBVIOUS
  <1>3. a \in Bytes /\ b \in Bytes /\ c \in Bytes /\ Len(a) >= 4
    <2>1. a \in Bytes /\ Len(a) >= 4
      BY <1>1, <1>2, SerializedString DEF String
    <2>2. b \in Bytes
      BY <1>1, <1>2, SerializedInteger, WordIsBytes
    <2>3. c \in Bytes
      BY <1>1, <1>2, SerializedInteger, WordIsBytes
    <2> QED BY <2>1, <2>2, <2>3
  <1>4. /\ view \in Bytes /\ Len(view) = Len(a) + Len(b) + Len(c)
        /\ Holds(view, 0, a) /\ Holds(view, Len(a), b) /\ Holds(view, Len(a) + Len(b), c)
    <2>1. view = a \o b \o c
      BY <1>1 DEF SerializeRequest
    <2>2. a \in Bytes /\ b \in Bytes /\ c \in Bytes /\ view = a \o b \o c
      BY ONLY <1>3, <2>1
    <2> QED BY ONLY <2>2, ThreeParts
  <1>5. 0 \in Nat /\ Len(a) \in Nat /\ Len(a) + Len(b) \in Nat
    BY <1>3 DEF Bytes
  <1>6. PICK topic, type, timeout_ms :
            /\ topic = DeserializeString(m, view, 0)
            /\ type = DeserializeInteger(m, view, topic.offset)
            /\ timeout_ms = DeserializeInteger(m, view, type.offset)
    OBVIOUS
  <1>7. topic.v = v.topic /\ topic.offset = Len(a)
    <2>1. topic = DeserializeString(m, view, 0)
      BY ONLY <1>6
    <2>2. topic = [v |-> v.topic, offset |-> 0 + Len(a)]
      BY <1>1, <1>2, <1>4, <1>5, <2>1, DeserializedString
    <2> QED BY ONLY <1>3, <1>5, <2>2 DEF Bytes
  <1>8. type.v = v.type /\ type.offset = Len(a) + Len(b)
    <2>1. type = DeserializeInteger(m, view, Len(a))
      BY ONLY <1>6, <1>7
    <2>2. type = [v |-> v.type, offset |-> Len(a) + 4] /\ Len(b) = 4
      <3>1. b = v.type /\ Len(b) = 4
        BY <1>1, <1>2, SerializedInteger, WordIsBytes
      <3> QED BY <1>2, <1>4, <1>5, <2>1, <3>1, DeserializedInteger
    <2> QED BY ONLY <1>3, <1>5, <2>2 DEF Bytes
  <1>9. timeout_ms.v = v.timeout_ms /\ timeout_ms.offset = Len(a) + Len(b) + Len(c)
    <2>1. timeout_ms = DeserializeInteger(m, view, Len(a) + Len(b))
      BY ONLY <1>6, <1>8
    <2>2. timeout_ms = [v |-> v.timeout_ms, offset |-> Len(a) + Len(b) + 4] /\ Len(c) = 4
      <3>1. c = v.timeout_ms /\ Len(c) = 4
        BY <1>1, <1>2, SerializedInteger, WordIsBytes
      <3> QED BY <1>2, <1>4, <1>5, <2>1, <3>1, DeserializedInteger
    <2> QED BY ONLY <1>3, <1>5, <2>2 DEF Bytes
  <1>10. DeserializeRequest(m, view) = [v |-> [topic |-> topic.v, type |-> type.v, timeout_ms |-> timeout_ms.v],
          offset |-> timeout_ms.offset]
    BY ONLY <1>6, Zenon DEF DeserializeRequest
  <1>11. v = [topic |-> v.topic, type |-> v.type, timeout_ms |-> v.timeout_ms]
    OBVIOUS
  <1>12. view # <<>>
    BY ONLY <1>3, <1>4 DEF Bytes
  <1>13. [topic |-> topic.v, type |-> type.v, timeout_ms |-> timeout_ms.v] = v
    BY ONLY <1>7, <1>8, <1>9, <1>11
  <1>14. timeout_ms.offset = Len(view)
    BY ONLY <1>4, <1>9
  <1>15. DeserializeRequest(m, view) = [v |-> v, offset |-> Len(view)]
    BY ONLY <1>10, <1>13, <1>14
  <1> QED BY ONLY <1>1, <1>4, <1>12, <1>15

LEMMA ResponseBack ==
  ASSUME NEW w \in Machine, NEW m \in Machine,
         NEW v \in [topic : String, wait_ms : Word, peer_addr : String, response_code : Word]
  PROVE  /\ SerializeResponse(w, v) \in Bytes /\ SerializeResponse(w, v) # <<>>
         /\ DeserializeResponse(m, SerializeResponse(w, v))
            = [v |-> v, offset |-> Len(SerializeResponse(w, v))]
  <1>1. PICK a, b, c, d, view :
            /\ a = SerializeString(w, v.topic)
            /\ b = SerializeInteger(w, v.wait_ms)
            /\ c = SerializeString(w, v.peer_addr)
            /\ d = SerializeInteger(w, v.response_code)
            /\ view = SerializeResponse(w, v)
    OBVIOUS
  <1>2. v.topic \in String /\ v.wait_ms \in Word /\ v.peer_addr \in String /\ v.response_code \in Word
    OBVIOUS
  <1>3. a \in Bytes /\ b \in Bytes /\ c \in Bytes /\ d \in Bytes /\ Len(a) >= 4
    <2>1. a \in Bytes /\ Len(a) >= 4
      BY <1>1, <1>2, SerializedString DEF String
    <2>2. b \in Bytes
      BY <1>1, <1>2, SerializedInteger, WordIsBytes
    <2>3. c \in Bytes
      BY <1>1, <1>2, SerializedString
    <2>4. d \in Bytes
      BY <1>1, <1>2, SerializedInteger, WordIsBytes
    <2> QED BY <2>1, <2>2, <2>3, <2>4
  <1>4. /\ view \in Bytes /\ Len(view) = Len(a) + Len(b) + Len(c) + Len(d)
        /\ Holds(view, 0, a) /\ Holds(view, Len(a), b) /\ Holds(view, Len(a) + Len(b), c)
        /\ Holds(view, Len(a) + Len(b) + Len(c), d)
    <2>1. view = a \o b \o c \o d
      BY <1>1 DEF SerializeResponse
    <2>2. a \in Bytes /\ b \in Bytes /\ c \in Bytes /\ d \in Bytes /\ view = a \o b \o c \o d
      BY ONLY <1>3, <2>1
    <2> QED BY ONLY <2>2, FourParts
  <1>5. 0 \in Nat /\ Len(a) \in Nat /\ Len(a) + Len(b) \in Nat /\ Len(a) + Len(b) + Len(c) \in Nat
    BY <1>3 DEF Bytes
  <1>6. PICK topic, wait_ms, peer_addr, response_code :
            /\ topic = DeserializeString(m, view, 0)
            /\ wait_ms = DeserializeInteger(m, view, topic.offset)
            /\ peer_addr = DeserializeString(m, view, wait_ms.offset)
            /\ response_code = DeserializeInteger(m, view, peer_addr.offset)
    OBVIOUS
  <1>7. topic.v = v.topic /\ topic.offset = Len(a)
    <2>1. topic = DeserializeString(m, view, 0)
      BY ONLY <1>6
    <2>2. topic = [v |-> v.topic, offset |-> 0 + Len(a)]
      BY <1>1, <1>2, <1>4, <1>5, <2>1, DeserializedString
    <2> QED BY ONLY <1>3, <1>5, <2>2 DEF Bytes
  <1>8. wait_ms.v = v.wait_ms /\ wait_ms.offset = Len(a) + Len(b)
    <2>1. wait_ms = DeserializeInteger(m, view, Len(a))
      BY ONLY <1>6, <1>7
    <2>2. wait_ms = [v |-> v.wait_ms, offset |-> Len(a) + 4] /\ Len(b) = 4
      <3>1. b = v.wait_ms /\ Len(b) = 4
        BY <1>1, <1>2, SerializedInteger, WordIsBytes
      <3> QED BY <1>2, <1>4, <1>5, <2>1, <3>1, DeserializedInteger
    <2> QED BY ONLY <1>3, <1>5, <2>2 DEF Bytes
  <1>9. peer_addr.v = v.peer_addr /\ peer_addr.offset = Len(a) + Len(b) + Len(c)
    <2>1. peer_addr = DeserializeString(m, view, Len(a) + Len(b))
      BY ONLY <1>6, <1>8
    <2>2. peer_addr = [v |-> v.peer_addr, offset |-> Len(a) + Len(b) + Len(c)]
      BY <1>1, <1>2, <1>4, <1>5, <2>1, DeserializedString
    <2> QED BY ONLY <1>3, <1>5, <2>2 DEF Bytes
  <1>10. response_code.v = v.response_code /\ response_code.offset = Len(a) + Len(b) + Len(c) + Len(d)
    <2>1. response_code = DeserializeInteger(m, view, Len(a) + Len(b) + Len(c))
      BY ONLY <1>6, <1>9
    <2>2. response_code = [v |-> v.response_code, offset |-> Len(a) + Len(b) + Len(c) + 4] /\ Len(d) = 4
      <3>1. d = v.response_code /\ Len(d) = 4
        BY <1>1, <1>2, SerializedInteger, WordIsBytes
      <3> QED BY <1>2, <1>4, <1>5, <2>1, <3>1, DeserializedInteger
    <2> QED BY ONLY <1>3, <1>5, <2>2 DEF Bytes
  <1>11. DeserializeResponse(m, view) = [v |-> [topic |-> topic.v, wait_ms |-> wait_ms.v, peer_addr |-> peer_addr.v,
          response_code |-> response_code.v],
          offset |-> response_code.offset]
    BY ONLY <1>6, Zenon DEF DeserializeResponse
  <1>12. v = [topic |-> v.topic, wait_ms |-> v.wait_ms, peer_addr |-> v.peer_addr,
              response_code |-> v.response_code]
    OBVIOUS
  <1>13. view # <<>>
    BY ONLY <1>3, <1>4 DEF Bytes
  <1>14. [topic |-> topic.v, wait_ms |-> wait_ms.v, peer_addr |-> peer_addr.v,
          response_code |-> response_code.v] = v
    BY ONLY <1>7, <1>8, <1>9, <1>10, <1>12
  <1>15. response_code.offset = Len(view)
    BY ONLY <1>4, <1>10
  <1>16. DeserializeResponse(m, view) = [v |-> v, offset |-> Len(view)]
    BY ONLY <1>11, <1>14, <1>15
  <1> QED BY ONLY <1>1, <1>4, <1>13, <1>16

LEMMA DataBack ==
  ASSUME NEW w \in Machine, NEW m \in Machine,
         NEW v \in [data : String, meta_info : String, eof : BOOLEAN]
  PROVE  /\ SerializeData(w, v) \in Bytes /\ SerializeData(w, v) # <<>>
         /\ DeserializeData(m, SerializeData(w, v))
            = [v |-> v, offset |-> Len(SerializeData(w, v))]
  <1>1. PICK a, b, c, view :
            /\ a = SerializeString(w, v.data)
            /\ b = SerializeString(w, v.meta_info)
            /\ c = SerializeBool(v.eof)
            /\ view = SerializeData(w, v)
    OBVIOUS
  <1>2. v.data \in String /\ v.meta_info \in String /\ v.eof \in BOOLEAN
    OBVIOUS
  <1>3. a \in Bytes /\ b \in Bytes /\ c \in Bytes /\ Len(a) >= 4
    <2>1. a \in Bytes /\ Len(a) >= 4
      BY <1>1, <1>2, SerializedString DEF String
    <2>2. b \in Bytes
      BY <1>1, <1>2, SerializedString
    <2>3. c \in Bytes
      BY <1>1, <1>2, CharsDiffer, OneChar DEF SerializeBool
    <2> QED BY <2>1, <2>2, <2>3
  <1>4. /\ view \in Bytes /\ Len(view) = Len(a) + Len(b) + Len(c)
        /\ Holds(view, 0, a) /\ Holds(view, Len(a), b) /\ Holds(view, Len(a) + Len(b), c)
    <2>1. view = a \o b \o c
      BY <1>1 DEF SerializeData
    <2>2. a \in Bytes /\ b \in Bytes /\ c \in Bytes /\ view = a \o b \o c
      BY ONLY <1>3, <2>1
    <2> QED BY ONLY <2>2, ThreeParts
  <1>5. 0 \in Nat /\ Len(a) \in Nat /\ Len(a) + Len(b) \in Nat
    BY <1>3 DEF Bytes
  <1>6. PICK data, meta_info, eof :
            /\ data = DeserializeString(m, view, 0)
            /\ meta_info = DeserializeString(m, view, data.offset)
            /\ eof = DeserializeChar(CharT, CharF, view, meta_info.offset)
    OBVIOUS
  <1>7. data.v = v.data /\ data.offset = Len(a)
    <2>1. data = DeserializeString(m, view, 0)
      BY ONLY <1>6
    <2>2. data = [v |-> v.data, offset |-> 0 + Len(a)]
      BY <1>1, <1>2, <1>4, <1>5, <2>1, DeserializedString
    <2> QED BY ONLY <1>3, <1>5, <2>2 DEF Bytes
  <1>8. meta_info.v = v.meta_info /\ meta_info.offset = Len(a) + Len(b)
    <2>1. meta_info = DeserializeString(m, view, Len(a))
      BY ONLY <1>6, <1>7
    <2>2. meta_info = [v |-> v.meta_info, offset |-> Len(a) + Len(b)]
      BY <1>1, <1>2, <1>4, <1>5, <2>1, DeserializedString
    <2> QED BY ONLY <1>3, <1>5, <2>2 DEF Bytes
  <1>9. eof.v = v.eof /\ eof.offset = Len(a) + Len(b) + Len(c)
    <2>1. eof = DeserializeChar(CharT, CharF, view, Len(a) + Len(b))
      BY ONLY <1>6, <1>8
    <2>2. eof = [v |-> v.eof, offset |-> Len(a) + Len(b) + 1] /\ Len(c) = 1
      <3>1. c = << IF v.eof THEN CharT ELSE CharF >>
        BY <1>1 DEF SerializeBool
      <3>2. Len(c) = 1
        BY <1>2, <3>1, CharsDiffer, OneChar
      <3> QED BY <1>2, <1>4, <1>5, <2>1, <3>1, <3>2, CharsDiffer, DeserializedChar
    <2> QED BY ONLY <1>3, <1>5, <2>2 DEF Bytes
  <1>10. DeserializeData(m, view) = [v |-> [data |-> data.v, meta_info |-> meta_info.v, eof |-> eof.v],
          offset |-> eof.offset]
    BY ONLY <1>6, Zenon DEF DeserializeData
  <1>11. v = [data |-> v.data, meta_info |-> v.meta_info, eof |-> v.eof]
    OBVIOUS
  <1>12. view # <<>>
    BY ONLY <1>3, <1>4 DEF Bytes
  <1>13. [data |-> data.v, meta_info |-> meta_info.v, eof |-> eof.v] = v
    BY ONLY <1>7, <1>8, <1>9, <1>11
  <1>14. eof.offset = Len(view)
    BY ONLY <1>4, <1>9
  <1>15. DeserializeData(m, view) = [v |-> v, offset |-> Len(view)]
    BY ONLY <1>10, <1>13, <1>14
  <1> QED BY ONLY <1>1, <1>4, <1>12, <1>15

(* Deserialize of what Serialize gives, on machines of any byte order, is  *)
(* the package, and takes all of the bytes: the assertion in Deserialize   *)
(* never fails for what a Serialize has written.                           *)
THEOREM Back ==
  ASSUME NEW w \in Machine, NEW m \in Machine, NEW p \in Package
  PROVE  /\ Serialize(w, p.type, p.v) \in Bytes /\ Serialize(w, p.type, p.v) # <<>>
         /\ Deserialize(m, p.type, Serialize(w, p.type, p.v))
            = [v |-> p.v, offset |-> Len(Serialize(w, p.type, p.v))]
  <1>1. PICK v, type : v = p.v /\ type = p.type
    OBVIOUS
  <1>2. CASE p \in [type : {"package"}, v : [eof : BOOLEAN, bin_data : String]]
    <2>1. type = "package" /\ v \in [eof : BOOLEAN, bin_data : String]
      BY <1>1, <1>2
    <2>2. Serialize(w, type, v) = SerializePackage(w, v)
          /\ \A view : Deserialize(m, type, view) = DeserializePackage(m, view)
      BY ONLY <2>1 DEF Serialize, Deserialize
    <2> QED BY ONLY <1>1, <2>1, <2>2, PackageBack, w \in Machine, m \in Machine
  <1>3. CASE p \in [type : {"request_package"}, v : [topic : String, type : Word, timeout_ms : Word]]
    <2>1. type = "request_package" /\ v \in [topic : String, type : Word, timeout_ms : Word]
      BY <1>1, <1>3
    <2>2. Serialize(w, type, v) = SerializeRequest(w, v)
          /\ \A view : Deserialize(m, type, view) = DeserializeRequest(m, view)
      BY ONLY <2>1 DEF Serialize, Deserialize
    <2> QED BY ONLY <1>1, <2>1, <2>2, RequestBack, w \in Machine, m \in Machine
  <1>4. CASE p \in [type : {"response_package"},
                    v : [topic : String, wait_ms : Word, peer_addr : String, response_code : Word]]
    <2>1. type = "response_package"
          /\ v \in [topic : String, wait_ms : Word, peer_addr : String, response_code : Word]
      BY <1>1, <1>4
    <2>2. Serialize(w, type, v) = SerializeResponse(w, v)
          /\ \A view : Deserialize(m, type, view) = DeserializeResponse(m, view)
      BY ONLY <2>1 DEF Serialize, Deserialize
    <2> QED BY ONLY <1>1, <2>1, <2>2, ResponseBack, w \in Machine, m \in Machine
  <1>5. CASE p \in [type : {"data_package"}, v : [data : String, meta_info : String, eof : BOOLEAN]]
    <2>1. type = "data_package" /\ v \in [data : String, meta_info : String, eof : BOOLEAN]
      BY <1>1, <1>5
    <2>2. Serialize(w, type, v) = SerializeData(w, v)
          /\ \A view : Deserialize(m, type, view) = DeserializeData(m, view)
      BY ONLY <2>1 DEF Serialize, Deserialize
    <2> QED BY ONLY <1>1, <2>1, <2>2, DataBack, w \in Machine, m \in Machine
  <1> QED BY <1>2, <1>3, <1>4, <1>5 DEF Package

-----------------------------------------------------------------------------
(* The buffers that write_package writes, two for every package, and where *)
(* they are in all that is written: w holds the k-th one at pos[k - 1].    *)

BodyOf(m, s, i) == Serialize(m, s[i].type, s[i].v)
Buffer(m, s, k) == IF k % 2 = 1 THEN Integer(Len(BodyOf(m, s, 1 + k \div 2)))
                                ELSE BodyOf(m, s, k \div 2)

Laid(m, s, n, w, pos) ==
    /\ w \in Bytes /\ pos \in [0..n -> Nat]
    /\ pos[0] = 0 /\ pos[n] = Len(w)
    /\ \A k \in 1..n : /\ pos[k] = pos[k - 1] + Len(Buffer(m, s, k))
                       /\ Holds(w, pos[k - 1], Buffer(m, s, k))

(* rest is what comes after the first cur buffers: all of it, unless some  *)
(* of it is lost.                                                          *)
Unread(n, w, pos, cur, rest, lost) ==
    /\ cur \in 0..n
    /\ rest \in Bytes /\ Holds(w, pos[cur], rest)
    /\ ~lost => pos[cur] + Len(rest) = Len(w)

LEMMA Bodies ==
  ASSUME NEW m \in Machine, NEW s \in Streams, NEW i \in 1..Len(s)
  PROVE  /\ BodyOf(m, s, i) \in Bytes /\ Len(BodyOf(m, s, i)) \in Nat \ {0}
         /\ Integer(Len(BodyOf(m, s, i))) \in Word
         /\ Number(Integer(Len(BodyOf(m, s, i)))) = Len(BodyOf(m, s, i))
         /\ s[i] \in Package
         /\ \A r \in Machine : Deserialize(r, s[i].type, BodyOf(m, s, i))
                               = [v |-> s[i].v, offset |-> Len(BodyOf(m, s, i))]
  <1>1. s \in Seq(Package) /\ DOMAIN s = 1..Len(s)
    BY StreamAssumption
  <1>2. PICK p : p = s[i]
    OBVIOUS
  <1>3. p \in Package
    BY <1>1, <1>2
  <1>4. PICK b : b = Serialize(m, p.type, p.v)
    OBVIOUS
  <1>5. b = BodyOf(m, s, i)
    BY <1>2, <1>4 DEF BodyOf
  <1>6. b \in Bytes /\ b # <<>>
        /\ \A r \in Machine : Deserialize(r, p.type, b) = [v |-> p.v, offset |-> Len(b)]
    BY <1>3, <1>4, Back
  <1>7. Len(b) \in Nat \ {0}
    BY ONLY <1>6 DEF Bytes
  <1>8. Fits(Len(b))
    <2>1. Fits(Len(Serialize(m, s[i].type, s[i].v)))
      BY <1>1, StreamAssumption
    <2> QED BY <1>2, <1>4, <2>1
  <1>9. Integer(Len(b)) \in Word /\ Number(Integer(Len(b))) = Len(b)
    BY <1>7, <1>8, NumberOfInteger
  <1> QED BY ONLY <1>2, <1>3, <1>5, <1>6, <1>7, <1>9

(* Which buffer is which.                                                  *)
LEMMA Lengths ==
  ASSUME NEW m \in Machine, NEW s \in Streams, NEW i \in 1..Len(s)
  PROVE  /\ Buffer(m, s, 2 * i - 1) = Integer(Len(BodyOf(m, s, i)))
         /\ Buffer(m, s, 2 * i) = BodyOf(m, s, i)
  <1>1. i \in Nat
    BY StreamAssumption
  <1>2. (2 * i - 1) % 2 = 1 /\ 1 + (2 * i - 1) \div 2 = i /\ (2 * i) % 2 # 1 /\ (2 * i) \div 2 = i
    BY ONLY <1>1, SMT
  <1> QED BY ONLY <1>2 DEF Buffer

LEMMA Buffers ==
  ASSUME NEW m \in Machine, NEW s \in Streams, NEW k \in 1..(2 * Len(s))
  PROVE  Buffer(m, s, k) \in Bytes /\ Len(Buffer(m, s, k)) \in Nat \ {0}
  <1>1. Len(s) \in Nat
    BY StreamAssumption
  <1>2. PICK i \in 1..Len(s) : k = 2 * i - 1 \/ k = 2 * i
    <2>1. CASE k % 2 = 1
      <3>1. 1 + k \div 2 \in 1..Len(s) /\ k = 2 * (1 + k \div 2) - 1
        BY <1>1, <2>1, SMT
      <3> QED BY <3>1
    <2>2. CASE k % 2 # 1
      <3>1. k \div 2 \in 1..Len(s) /\ k = 2 * (k \div 2)
        BY <1>1, <2>2, SMT
      <3> QED BY <3>1
    <2> QED BY <2>1, <2>2
  <1>3. Integer(Len(BodyOf(m, s, i))) \in Bytes /\ Len(Integer(Len(BodyOf(m, s, i)))) = 4
    <2>1. PICK x : x = Integer(Len(BodyOf(m, s, i)))
      OBVIOUS
    <2>2. x \in Word
      BY <2>1, Bodies
    <2> QED BY <2>1, <2>2, WordIsBytes
  <1>4. BodyOf(m, s, i) \in Bytes /\ Len(BodyOf(m, s, i)) \in Nat \ {0}
    BY Bodies
  <1>5. Buffer(m, s, 2 * i - 1) = Integer(Len(BodyOf(m, s, i)))
        /\ Buffer(m, s, 2 * i) = BodyOf(m, s, i)
    BY Lengths
  <1>6. CASE k = 2 * i - 1
    <2>1. Buffer(m, s, k) = Integer(Len(BodyOf(m, s, i)))
      BY ONLY <1>5, <1>6, Zenon
    <2>2. 4 \in Nat \ {0}
      OBVIOUS
    <2> QED BY ONLY <1>3, <2>1, <2>2, Zenon
  <1>7. CASE k = 2 * i
    <2>1. Buffer(m, s, k) = BodyOf(m, s, i)
      BY ONLY <1>5, <1>7, Zenon
    <2> QED BY ONLY <1>4, <2>1, Zenon
  <1> QED BY <1>2, <1>6, <1>7

(* Pieces of what is written stay where they are when more is written.     *)
LEMMA HoldsMore ==
  ASSUME NEW w \in Bytes, NEW p \in Nat, NEW x \in Bytes, NEW b \in Bytes, Holds(w, p, x)
  PROVE  Holds(w \o b, p, x)
  <1>1. Len(w) \in Nat /\ Len(x) \in Nat /\ Len(b) \in Nat /\ Len(w \o b) = Len(w) + Len(b)
        /\ \A i \in 1..Len(w) + Len(b) : (w \o b)[i] = IF i <= Len(w) THEN w[i] ELSE b[i - Len(w)]
    BY ConcatProperties DEF Bytes
  <1>2. p + Len(x) <= Len(w)
    BY DEF Holds
  <1>3. ASSUME NEW i \in 1..Len(x) PROVE (w \o b)[p + i] = x[i]
    <2>1. p + i \in 1..Len(w) + Len(b) /\ p + i <= Len(w)
      BY <1>1, <1>2
    <2>2. w[p + i] = x[i]
      BY DEF Holds
    <2> QED BY <1>1, <2>1, <2>2
  <1>4. p + Len(x) <= Len(w \o b)
    BY <1>1, <1>2
  <1> QED BY <1>3, <1>4 DEF Holds

LEMMA HoldsEnd ==
  ASSUME NEW w \in Bytes, NEW p \in Nat, NEW x \in Bytes, NEW b \in Bytes, Holds(w, p, x),
         p + Len(x) = Len(w)
  PROVE  Holds(w \o b, p, x \o b) /\ Holds(w \o b, Len(w), b) /\ p + Len(x \o b) = Len(w \o b)
  <1>1. Len(w) \in Nat /\ Len(x) \in Nat /\ Len(b) \in Nat
        /\ Len(w \o b) = Len(w) + Len(b) /\ Len(x \o b) = Len(x) + Len(b)
        /\ \A i \in 1..Len(w) + Len(b) : (w \o b)[i] = IF i <= Len(w) THEN w[i] ELSE b[i - Len(w)]
    BY ConcatProperties DEF Bytes
  <1>2. \A i \in 1..Len(x) + Len(b) : (x \o b)[i] = IF i <= Len(x) THEN x[i] ELSE b[i - Len(x)]
    BY ConcatProperties DEF Bytes
  <1>3. p + Len(x \o b) = Len(w \o b)
    BY <1>1
  <1>4. ASSUME NEW i \in 1..Len(x) + Len(b) PROVE (w \o b)[p + i] = (x \o b)[i]
    <2>1. p + i \in 1..Len(w) + Len(b)
      BY <1>1
    <2>2. CASE i <= Len(x)
      <3>1. p + i <= Len(w) /\ i \in 1..Len(x)
        BY <1>1, <2>2
      <3>2. w[p + i] = x[i]
        BY <3>1 DEF Holds
      <3> QED BY <1>1, <1>2, <2>1, <2>2, <3>1, <3>2
    <2>3. CASE ~(i <= Len(x))
      <3>1. PICK lx, lw, lb : lx = Len(x) /\ lw = Len(w) /\ lb = Len(b)
        OBVIOUS
      <3>2. lx \in Nat /\ lw \in Nat /\ lb \in Nat /\ i \in 1..lx + lb /\ p + lx = lw /\ ~(i <= lx)
        BY <1>1, <2>3, <3>1
      <3>3. ~(p + i <= lw) /\ p + i - lw = i - lx
        BY ONLY <3>2, p \in Nat
      <3>4. (w \o b)[p + i] = b[i - lx] /\ (x \o b)[i] = b[i - lx]
        BY ONLY <1>1, <1>2, <2>1, <3>1, <3>2, <3>3
      <3> QED BY ONLY <3>4
    <2> QED BY <2>2, <2>3
  <1>5. Holds(w \o b, p, x \o b)
    <2>1. p + Len(x \o b) <= Len(w \o b)
      BY <1>1, <1>3
    <2> QED BY <1>1, <1>4, <2>1 DEF Holds
  <1>6. Holds(w \o b, Len(w), b)
    <2>1. w \o b \in Bytes
      BY Together
    <2>2. Holds(w \o b, p + Len(x), b)
      BY <1>5, <2>1, HoldsParts
    <2> QED BY <2>2
  <1> QED BY <1>3, <1>5, <1>6

(* Two pieces of one length at one place.                                  *)
LEMMA SamePlace ==
  ASSUME NEW w \in Bytes, NEW p \in Nat, NEW x \in Bytes, NEW y \in Bytes,
         Holds(w, p, x), Holds(w, p, y), Len(x) = Len(y)
  PROVE  x = y
  BY HeldIsSubSeq

(* One more buffer is written.                                             *)
LEMMA LaidMore ==
  ASSUME NEW m \in Machine, NEW s \in Streams, NEW n \in Nat, n < 2 * Len(s), NEW w, NEW pos,
         Laid(m, s, n, w, pos)
  PROVE  \E p : /\ Laid(m, s, n + 1, w \o Buffer(m, s, n + 1), p)
                /\ \A k \in 0..n : p[k] = pos[k]
  <1>1. PICK b : b = Buffer(m, s, n + 1)
    OBVIOUS
  <1>2. b \in Bytes /\ Len(b) \in Nat
    <2>1. n + 1 \in 1..(2 * Len(s))
      BY StreamAssumption
    <2> QED BY <1>1, <2>1, Buffers
  <1>3. w \in Bytes /\ pos \in [0..n -> Nat] /\ pos[0] = 0 /\ pos[n] = Len(w) /\ Len(w) \in Nat
    BY DEF Laid, Bytes
  <1>4. w \o b \in Bytes /\ Len(w \o b) = Len(w) + Len(b)
    BY <1>2, <1>3, Together
  <1>5. PICK p : p = [k \in 0..(n + 1) |-> IF k <= n THEN pos[k] ELSE Len(w) + Len(b)]
    OBVIOUS
  <1>6. p \in [0..(n + 1) -> Nat] /\ p[n + 1] = Len(w) + Len(b) /\ \A k \in 0..n : p[k] = pos[k]
    <2>1. Len(w) + Len(b) \in Nat
      BY <1>2, <1>3
    <2>2. \A k \in 0..(n + 1) : k <= n => k \in 0..n
      OBVIOUS
    <2>3. \A k \in 0..(n + 1) : (IF k <= n THEN pos[k] ELSE Len(w) + Len(b)) \in Nat
      BY <1>3, <2>1, <2>2
    <2>4. p \in [0..(n + 1) -> Nat]
      BY ONLY <1>5, <2>3, Zenon
    <2>5. n + 1 \in 0..(n + 1) /\ ~(n + 1 <= n) /\ \A k \in 0..n : k \in 0..(n + 1) /\ k <= n
      OBVIOUS
    <2>6. \A k \in 0..(n + 1) : p[k] = IF k <= n THEN pos[k] ELSE Len(w) + Len(b)
      BY ONLY <1>5, Zenon
    <2> QED BY ONLY <2>4, <2>5, <2>6, Zenon
  <1>7. ASSUME NEW k \in 1..(n + 1)
        PROVE  p[k] = p[k - 1] + Len(Buffer(m, s, k)) /\ Holds(w \o b, p[k - 1], Buffer(m, s, k))
    <2>1. k - 1 \in 0..n /\ p[k - 1] = pos[k - 1] /\ pos[k - 1] \in Nat
      <3>1. k - 1 \in 0..n
        OBVIOUS
      <3> QED BY <1>3, <1>6, <3>1
    <2>2. CASE k \in 1..n
      <3>1. pos[k] = pos[k - 1] + Len(Buffer(m, s, k)) /\ Holds(w, pos[k - 1], Buffer(m, s, k))
        BY <2>2 DEF Laid
      <3>2. Buffer(m, s, k) \in Bytes
        <4>1. k \in 1..(2 * Len(s))
          BY <2>2, StreamAssumption
        <4> QED BY <4>1, Buffers
      <3>3. Holds(w \o b, pos[k - 1], Buffer(m, s, k))
        BY <1>2, <1>3, <2>1, <3>1, <3>2, HoldsMore
      <3>4. p[k] = pos[k]
        BY <1>6, <2>2
      <3> QED BY ONLY <2>1, <3>1, <3>3, <3>4, Zenon
    <2>3. CASE k = n + 1
      <3>1. k - 1 = n
        BY <2>3
      <3>2. p[k] = Len(w) + Len(b) /\ p[k - 1] = Len(w) /\ Buffer(m, s, k) = b
        BY ONLY <1>1, <1>3, <1>6, <2>1, <2>3, <3>1, Zenon
      <3>3. Holds(w \o b, Len(w), b)
        <4>1. Holds(w, 0, w) /\ 0 + Len(w) = Len(w)
          BY <1>3, HoldsItself
        <4> QED BY <1>2, <1>3, <4>1, HoldsEnd
      <3> QED BY ONLY <3>2, <3>3, Zenon
    <2>4. k \in 1..n \/ k = n + 1
      OBVIOUS
    <2> QED BY <2>2, <2>3, <2>4
  <1>8. p[0] = 0
    BY <1>3, <1>6
  <1>9. Laid(m, s, n + 1, w \o b, p)
    BY ONLY <1>4, <1>6, <1>7, <1>8, Zenon DEF Laid
  <1> QED BY <1>1, <1>6, <1>9

LEMMA UnreadMore ==
  ASSUME NEW n \in Nat, NEW w \in Bytes, NEW b \in Bytes, NEW pos \in [0..n -> Nat], NEW p,
         \A k \in 0..n : p[k] = pos[k], NEW cur, NEW rest, Unread(n, w, pos, cur, rest, FALSE)
  PROVE  Unread(n + 1, w \o b, p, cur, rest \o b, FALSE)
  <1>1. /\ cur \in 0..n /\ rest \in Bytes /\ Holds(w, pos[cur], rest)
        /\ pos[cur] + Len(rest) = Len(w)
    BY DEF Unread
  <1>2. pos[cur] \in Nat /\ p[cur] = pos[cur] /\ cur \in 0..(n + 1)
    BY <1>1
  <1>3. PICK q \in Nat : q = pos[cur]
    BY <1>2
  <1>4. Holds(w, q, rest) /\ q + Len(rest) = Len(w)
    BY <1>1, <1>3
  <1>5. Holds(w \o b, q, rest \o b) /\ q + Len(rest \o b) = Len(w \o b)
    BY <1>1, <1>4, HoldsEnd
  <1>6. rest \o b \in Bytes
    BY <1>1, Together
  <1> QED BY ONLY <1>2, <1>3, <1>5, <1>6, Zenon DEF Unread

(* The buffer that is being read is full.                                  *)
LEMMA NextBuffer ==
  ASSUME NEW m \in Machine, NEW s \in Streams, NEW n \in 0..(2 * Len(s)), NEW w, NEW pos,
         Laid(m, s, n, w, pos), NEW cur, NEW buf \in Bytes, NEW rest \in Bytes, NEW lost,
         Unread(n, w, pos, cur, buf \o rest, lost), Len(buf) # 0,
         cur < n => Len(buf) = Len(Buffer(m, s, cur + 1))
  PROVE  /\ cur < n /\ buf = Buffer(m, s, cur + 1)
         /\ Unread(n, w, pos, cur + 1, rest, lost)
  <1>1. n \in Nat /\ Len(s) \in Nat
    BY StreamAssumption
  <1>2. cur \in 0..n /\ Holds(w, pos[cur], buf \o rest)
        /\ (~lost => pos[cur] + Len(buf \o rest) = Len(w))
    BY DEF Unread
  <1>3. w \in Bytes /\ pos[cur] \in Nat /\ pos[n] = Len(w) /\ Len(w) \in Nat
    BY <1>2 DEF Laid, Bytes
  <1>4. PICK q \in Nat : q = pos[cur]
    BY <1>3
  <1>5. Holds(w, q, buf \o rest)
    BY <1>2, <1>4
  <1>6. Holds(w, q, buf) /\ Holds(w, q + Len(buf), rest)
    BY <1>3, <1>5, HoldsParts
  <1>7. Len(buf) \in Nat /\ Len(rest) \in Nat /\ q + Len(buf) <= Len(w)
    BY <1>6 DEF Bytes, Holds
  <1>8. cur < n
    <2>1. cur # n
      BY ONLY <1>3, <1>4, <1>7, Len(buf) # 0
    <2> QED BY <1>1, <1>2, <2>1
  <1>9. PICK b : b = Buffer(m, s, cur + 1)
    OBVIOUS
  <1>10. b \in Bytes /\ pos[cur + 1] = q + Len(b) /\ Holds(w, q, b)
    <2>1. cur + 1 \in 1..n /\ cur + 1 \in 1..(2 * Len(s)) /\ (cur + 1) - 1 = cur
      BY <1>1, <1>2, <1>8
    <2>2. b \in Bytes
      BY <1>9, <2>1, Buffers
    <2>3. pos[cur + 1] = pos[(cur + 1) - 1] + Len(Buffer(m, s, cur + 1))
          /\ Holds(w, pos[(cur + 1) - 1], Buffer(m, s, cur + 1))
      BY <2>1 DEF Laid
    <2> QED BY ONLY <1>4, <1>9, <2>1, <2>2, <2>3
  <1>11. buf = b
    BY <1>3, <1>6, <1>8, <1>9, <1>10, SamePlace
  <1>12. ~lost => pos[cur + 1] + Len(rest) = Len(w)
    <2>1. Len(buf \o rest) = Len(buf) + Len(rest)
      BY Together
    <2>2. ~lost => q + (Len(buf) + Len(rest)) = Len(w)
      BY <1>2, <1>4, <2>1
    <2> QED BY <1>7, <1>10, <1>11, <2>2
  <1>13. cur + 1 \in 0..n
    BY <1>1, <1>2, <1>8
  <1>14. Holds(w, pos[cur + 1], rest)
    BY <1>6, <1>10, <1>11
  <1> QED BY <1>8, <1>9, <1>11, <1>12, <1>13, <1>14 DEF Unread

(* Nothing more comes, and the buffer that is being read is not full.      *)
LEMMA AllRead ==
  ASSUME NEW m \in Machine, NEW s \in Streams, NEW n \in 0..(2 * Len(s)), NEW w, NEW pos,
         Laid(m, s, n, w, pos), NEW cur, NEW buf \in Bytes, Unread(n, w, pos, cur, buf, FALSE),
         cur < n => Len(buf) < Len(Buffer(m, s, cur + 1))
  PROVE  cur = n
  <1>1. n \in Nat /\ Len(s) \in Nat
    BY StreamAssumption
  <1>2. cur \in 0..n /\ pos[cur] + Len(buf) = Len(w)
    BY DEF Unread
  <1>3. pos[cur] \in Nat /\ Len(w) \in Nat /\ Len(buf) \in Nat
    BY <1>2 DEF Laid, Bytes
  <1>4. SUFFICES ASSUME cur < n PROVE FALSE
    BY <1>1, <1>2
  <1>5. cur + 1 \in 1..n /\ cur + 1 \in 1..(2 * Len(s)) /\ (cur + 1) - 1 = cur
    BY <1>1, <1>2, <1>4
  <1>6. Holds(w, pos[(cur + 1) - 1], Buffer(m, s, cur + 1))
    BY <1>5 DEF Laid
  <1>7. pos[cur] + Len(Buffer(m, s, cur + 1)) <= Len(w)
    BY <1>5, <1>6 DEF Holds
  <1>8. Len(Buffer(m, s, cur + 1)) \in Nat
    BY <1>5, Buffers
  <1>9. Len(buf) < Len(Buffer(m, s, cur + 1))
    BY <1>4
  <1> QED BY ONLY <1>2, <1>3, <1>7, <1>8, <1>9

(* Some of what comes is lost.                                             *)
LEMMA LessUnread ==
  ASSUME NEW n \in Nat, NEW w \in Bytes, NEW pos \in [0..n -> Nat], NEW cur,
         NEW a \in Bytes, NEW b \in Bytes, NEW lost, Unread(n, w, pos, cur, a \o b, lost)
  PROVE  Unread(n, w, pos, cur, a, TRUE)
  <1>1. cur \in 0..n /\ Holds(w, pos[cur], a \o b)
    BY DEF Unread
  <1>2. PICK q \in Nat : q = pos[cur]
    BY <1>1
  <1>3. Holds(w, q, a \o b)
    BY <1>1, <1>2
  <1>4. Holds(w, q, a)
    BY <1>3, HoldsParts
  <1> QED BY <1>1, <1>2, <1>4 DEF Unread

LEMMA MinThree ==
  ASSUME NEW a \in Nat, NEW b \in Nat, NEW c \in Nat
  PROVE  Min({a, b, c}) \in {a, b, c} /\ Min({a, b, c}) <= a /\ Min({a, b, c}) <= b /\ Min({a, b, c}) <= c
  <1>1. \E x \in {a, b, c} : \A y \in {a, b, c} : x <= y
    OBVIOUS
  <1>2. Min({a, b, c}) \in {a, b, c} /\ \A y \in {a, b, c} : Min({a, b, c}) <= y
    BY ONLY <1>1, Zenon DEF Min
  <1> QED BY ONLY <1>2, Zenon

LEMMA MinTwo ==
  ASSUME NEW a \in Nat, NEW b \in Nat
  PROVE  Min({a, b}) \in 0..b
  <1>1. \E x \in {a, b} : \A y \in {a, b} : x <= y
    OBVIOUS
  <1>2. Min({a, b}) \in {a, b} /\ \A y \in {a, b} : Min({a, b}) <= y
    BY ONLY <1>1, Zenon DEF Min
  <1>3. PICK x : x = Min({a, b})
    OBVIOUS
  <1>4. x \in {a, b} /\ x <= b
    BY ONLY <1>2, <1>3, Zenon
  <1>5. x \in 0..b
    BY ONLY <1>4, a \in Nat, b \in Nat
  <1> QED BY ONLY <1>3, <1>5

(* The bytes in the connection, taken apart.                               *)
LEMMA TwoPortions ==
  ASSUME NEW s \in Bytes, NEW n \in 0..Len(s)
  PROVE  /\ SubSeq(s, 1, n) \in Bytes /\ SubSeq(s, n + 1, Len(s)) \in Bytes
         /\ Len(SubSeq(s, 1, n)) = n
         /\ SubSeq(s, 1, n) \o SubSeq(s, n + 1, Len(s)) = s
  <1>1. s \in Seq(Byte) /\ Len(s) \in Nat /\ n \in Nat /\ n <= Len(s)
    BY DEF Bytes
  <1>2. \A i \in 1..n : s[i] \in Byte
    BY <1>1
  <1>3. \A i \in (n + 1)..Len(s) : s[i] \in Byte
    BY <1>1
  <1>4. SubSeq(s, 1, n) \in Seq(Byte) /\ Len(SubSeq(s, 1, n)) = n
    BY <1>1, <1>2, SubSeqProperties
  <1>5. SubSeq(s, n + 1, Len(s)) \in Seq(Byte)
    BY <1>1, <1>3, SubSeqProperties
  <1>6. SubSeq(s, 1, n) \o SubSeq(s, n + 1, Len(s)) = SubSeq(s, 1, Len(s))
    <2>1. 1 \in 1 .. Len(s) + 1 /\ n \in 1 - 1 .. Len(s) /\ Len(s) \in n .. Len(s)
      BY <1>1
    <2> QED BY <1>1, <2>1, ConcatAdjacentSubSeq
  <1>7. SubSeq(s, 1, Len(s)) = s
    BY <1>1, SubSeqFull
  <1> QED BY <1>4, <1>5, <1>6, <1>7 DEF Bytes

-----------------------------------------------------------------------------
(* The invariant.                                                          *)

Reading == state \in {"length", "body"}
Read == {[v |-> p.v, offset |-> n] : p \in Package, n \in Nat}

TypeInv ==
    /\ writer \in Machine /\ reader \in Machine
    /\ stream \in Streams /\ written \in 0..(2 * Len(stream))
    /\ wire \in Bytes /\ open \in {"open", "closed", "cut"}
    /\ buffer \in Bytes /\ length \in Nat
    /\ received \in Seq(Read) /\ state \in {"length", "body", "eof", "error"}

(* The buffers that the reader has done with.                              *)
Cur == IF state = "body" THEN 2 * Len(received) + 1 ELSE 2 * Len(received)

(* The reader knows the length of the buffer that comes next.              *)
LengthInv ==
    /\ state = "length" => length = 4
    /\ state = "body" => /\ Len(received) < Len(stream)
                         /\ length = Len(BodyOf(writer, stream, Len(received) + 1))

EndInv ==
    /\ open = "closed" => written = 2 * Len(stream)
    /\ state \in {"eof", "error"} => open # "open"

(* What the reader has of this buffer, and the bytes in the connection,    *)
(* come next in what the writer has written.                               *)
WireInv ==
    \E w, pos : /\ Laid(writer, stream, written, w, pos)
                /\ Reading => Unread(written, w, pos, Cur, buffer \o wire, open = "cut")

Inv == TypeInv /\ LengthInv /\ EndInv /\ WireInv /\ RoundTrip

LEMMA BodyIsBodyOf == \A i : Body(i) = BodyOf(writer, stream, i)
  BY DEF Body, BodyOf

(* What the reader waits for is the next buffer.                           *)
LEMMA NextLength ==
  ASSUME TypeInv, LengthInv, Reading
  PROVE  /\ Cur \in Nat /\ length # 0
         /\ Cur < written => length = Len(Buffer(writer, stream, Cur + 1))
  <1>1. Len(received) \in Nat /\ Len(stream) \in Nat
    BY StreamAssumption DEF TypeInv
  <1>2. PICK i : i = Len(received) + 1
    OBVIOUS
  <1>3. CASE state = "length"
    <2>1. length = 4 /\ Cur = 2 * Len(received)
      BY <1>3 DEF LengthInv, Cur
    <2>2. ASSUME Cur < written PROVE length = Len(Buffer(writer, stream, Cur + 1))
      <3>1. i \in 1..Len(stream) /\ Cur + 1 = 2 * i - 1
        BY <1>1, <1>2, <2>1, <2>2 DEF TypeInv
      <3>2. Buffer(writer, stream, 2 * i - 1) = Integer(Len(BodyOf(writer, stream, i)))
        BY <3>1, Lengths DEF TypeInv
      <3>3. Integer(Len(BodyOf(writer, stream, i))) \in Word
        BY <3>1, Bodies DEF TypeInv
      <3>4. Len(Integer(Len(BodyOf(writer, stream, i)))) = 4
        <4>1. PICK x : x = Integer(Len(BodyOf(writer, stream, i)))
          OBVIOUS
        <4> QED BY <3>3, <4>1, WordIsBytes
      <3> QED BY ONLY <2>1, <3>1, <3>2, <3>4, Zenon
    <2> QED BY <1>1, <2>1, <2>2
  <1>4. CASE state = "body"
    <2>1. Cur = 2 * Len(received) + 1 /\ i \in 1..Len(stream)
          /\ length = Len(BodyOf(writer, stream, i))
      BY <1>1, <1>2, <1>4 DEF LengthInv, Cur
    <2>2. Len(BodyOf(writer, stream, i)) \in Nat \ {0}
      BY <2>1, Bodies DEF TypeInv
    <2>3. Buffer(writer, stream, 2 * i) = BodyOf(writer, stream, i)
      BY <2>1, Lengths DEF TypeInv
    <2>4. Cur + 1 = 2 * i /\ Cur \in Nat
      BY <1>1, <1>2, <2>1
    <2> QED BY ONLY <2>1, <2>2, <2>3, <2>4
  <1> QED BY <1>3, <1>4 DEF Reading

LEMMA InitInv == ASSUME Init PROVE Inv
  <1>1. TypeInv
    <2>1. Len(stream) \in Nat
      BY StreamAssumption DEF Init
    <2>2. 0 \in 0..(2 * Len(stream))
      BY <2>1
    <2> QED BY <2>1, <2>2 DEF Init, TypeInv, Bytes, Size
  <1>2. LengthInv
    BY DEF Init, LengthInv, Size
  <1>3. EndInv
    BY DEF Init, EndInv
  <1>4. WireInv
    <2>1. PICK pos : pos = [k \in 0..0 |-> 0]
      OBVIOUS
    <2>2. pos \in [0..0 -> Nat] /\ pos[0] = 0
      BY <2>1
    <2>3. <<>> \in Bytes /\ Len(<<>>) = 0 /\ <<>> \o <<>> = <<>>
      BY DEF Bytes
    <2>4. Laid(writer, stream, 0, <<>>, pos)
      BY <2>2, <2>3 DEF Laid
    <2>5. Holds(<<>>, 0, <<>>)
      BY <2>3, HoldsItself
    <2>6. Unread(0, <<>>, pos, 0, <<>>, FALSE)
      BY <2>2, <2>3, <2>5 DEF Unread
    <2>7. Cur = 0 /\ written = 0 /\ buffer \o wire = <<>> /\ (open = "cut") = FALSE
      BY <2>3 DEF Init, Cur
    <2> QED BY ONLY <2>4, <2>6, <2>7, Zenon DEF WireInv
  <1>5. RoundTrip
    BY StreamAssumption DEF Init, RoundTrip
  <1> QED BY <1>1, <1>2, <1>3, <1>4, <1>5 DEF Inv

LEMMA StutterInv == ASSUME Inv, UNCHANGED vars PROVE Inv'
  BY DEF Inv, TypeInv, LengthInv, EndInv, WireInv, RoundTrip, Reading, Cur, Body, vars, conn, write, read

LEMMA write_packageInv == ASSUME Inv, write_package PROVE Inv'
  <1>1. PICK m, s, n, b : /\ m = writer /\ s = stream /\ n = written
                          /\ b = Buffer(writer, stream, written + 1)
    OBVIOUS
  <1>2. m \in Machine /\ s \in Streams /\ n \in 0..(2 * Len(s)) /\ n \in Nat /\ Len(s) \in Nat
    BY <1>1, StreamAssumption DEF Inv, TypeInv
  <1>3. /\ open = "open" /\ 1 + n \div 2 <= Len(s) /\ written' = n + 1
        /\ wire' = wire \o (IF n % 2 = 0 THEN WriteLength(1 + n \div 2) ELSE Body(1 + n \div 2))
        /\ UNCHANGED <<writer, stream, open, reader, buffer, length, received, state>>
    BY <1>1 DEF write_package, read
  <1>4. n < 2 * Len(s)
    BY ONLY <1>2, <1>3, SMT
  <1>5. wire' = wire \o b
    <2>1. PICK i : i = 1 + n \div 2
      OBVIOUS
    <2>2. i \in 1..Len(s)
      BY ONLY <1>2, <1>3, <2>1, SMT
    <2>3. CASE n % 2 = 0
      <3>1. n + 1 = 2 * i - 1
        BY ONLY <1>2, <2>1, <2>3, SMT
      <3>2. b = Integer(Len(BodyOf(m, s, i)))
        <4>1. Buffer(m, s, 2 * i - 1) = Integer(Len(BodyOf(m, s, i)))
          BY <1>2, <2>2, Lengths
        <4> QED BY ONLY <1>1, <3>1, <4>1, Zenon
      <3>3. WriteLength(i) = SerializeInteger(m, b)
        BY <1>1, <3>2, BodyIsBodyOf DEF WriteLength
      <3>4. b \in Word
        BY <1>2, <2>2, <3>2, Bodies
      <3>5. SerializeInteger(m, b) = b
        BY <1>2, <3>4, SerializedInteger
      <3> QED BY ONLY <1>3, <2>1, <2>3, <3>3, <3>5
    <2>4. CASE n % 2 # 0
      <3>1. n + 1 = 2 * i
        BY ONLY <1>2, <2>1, <2>4, SMT
      <3>2. b = BodyOf(m, s, i)
        <4>1. Buffer(m, s, 2 * i) = BodyOf(m, s, i)
          BY <1>2, <2>2, Lengths
        <4> QED BY ONLY <1>1, <3>1, <4>1, Zenon
      <3>3. Body(i) = b
        BY <1>1, <3>2, BodyIsBodyOf
      <3> QED BY ONLY <1>3, <2>1, <2>4, <3>3
    <2> QED BY <2>3, <2>4
  <1>6. b \in Bytes
    <2>1. n + 1 \in 1..(2 * Len(s))
      BY <1>2, <1>4
    <2> QED BY <1>1, <1>2, <2>1, Buffers
  <1>7. TypeInv'
    <2>1. wire' \in Bytes
      BY <1>5, <1>6, Together DEF Inv, TypeInv
    <2>2. written' \in 0..(2 * Len(stream))'
      BY <1>1, <1>2, <1>3, <1>4
    <2> QED BY <1>3, <2>1, <2>2 DEF Inv, TypeInv
  <1>8. LengthInv'
    BY <1>3 DEF Inv, LengthInv
  <1>9. EndInv' /\ Reading /\ Reading'
    BY <1>3 DEF Inv, EndInv, TypeInv, Reading
  <1>10. WireInv'
    <2>1. PICK w, pos : Laid(m, s, n, w, pos) /\ Unread(n, w, pos, Cur, buffer \o wire, open = "cut")
      BY <1>1, <1>9 DEF Inv, WireInv
    <2>2. (open = "cut") = FALSE
      BY <1>3
    <2>3. PICK p : Laid(m, s, n + 1, w \o b, p) /\ \A k \in 0..n : p[k] = pos[k]
      BY <1>1, <1>2, <1>4, <2>1, LaidMore
    <2>4. PICK c, rest : c = Cur /\ rest = buffer \o wire
      OBVIOUS
    <2>5. Unread(n, w, pos, c, rest, FALSE)
      BY ONLY <2>1, <2>2, <2>4, Zenon
    <2>6. w \in Bytes /\ pos \in [0..n -> Nat]
      BY <2>1 DEF Laid
    <2>7. Unread(n + 1, w \o b, p, c, rest \o b, FALSE)
      BY <1>2, <1>6, <2>3, <2>5, <2>6, UnreadMore
    <2>8. rest \o b = buffer' \o wire'
      <3>1. buffer \in Seq(Byte) /\ wire \in Seq(Byte) /\ b \in Seq(Byte)
        BY <1>6 DEF Inv, TypeInv, Bytes
      <3>2. (buffer \o wire) \o b = buffer \o (wire \o b)
        BY <3>1, ConcatAssociative
      <3> QED BY ONLY <1>3, <1>5, <2>4, <3>2, Zenon
    <2>9. Cur' = c /\ writer' = m /\ stream' = s /\ written' = n + 1 /\ (open' = "cut") = FALSE
      BY <1>1, <1>3, <2>4 DEF Cur
    <2> QED BY ONLY <2>3, <2>7, <2>8, <2>9, Zenon DEF WireInv
  <1>11. RoundTrip'
    BY <1>3 DEF Inv, RoundTrip, Body
  <1> QED BY <1>7, <1>8, <1>9, <1>10, <1>11 DEF Inv

(* While the reader reads, buffer \o wire matters, not where one ends and  *)
(* the other begins.                                                       *)
LEMMA ReadSomeInv == ASSUME Inv, ReadSome PROVE Inv'
  <1>1. PICK k \in Portions :
            /\ buffer' = buffer \o SubSeq(wire, 1, Min({k, Len(wire), length - Len(buffer)}))
            /\ wire' = SubSeq(wire, Min({k, Len(wire), length - Len(buffer)}) + 1, Len(wire))
    BY Zenon DEF ReadSome
  <1>2. /\ UNCHANGED <<writer, stream, written, open, reader, length, received, state>>
        /\ Len(buffer) < length
    BY DEF ReadSome, write
  <1>3. buffer \in Bytes /\ wire \in Bytes /\ length \in Nat /\ Len(wire) \in Nat /\ Len(buffer) \in Nat
    BY DEF Inv, TypeInv, Bytes
  <1>4. PICK n : n = Min({k, Len(wire), length - Len(buffer)})
    OBVIOUS
  <1>5. n \in 0..Len(wire)
    <2>1. k \in Nat /\ length - Len(buffer) \in Nat
      BY <1>2, <1>3, PortionAssumption
    <2>2. n \in {k, Len(wire), length - Len(buffer)} /\ n <= Len(wire)
      BY <1>3, <1>4, <2>1, MinThree
    <2> QED BY ONLY <1>3, <2>1, <2>2
  <1>6. /\ SubSeq(wire, 1, n) \in Bytes /\ SubSeq(wire, n + 1, Len(wire)) \in Bytes
        /\ SubSeq(wire, 1, n) \o SubSeq(wire, n + 1, Len(wire)) = wire
    BY <1>3, <1>5, TwoPortions
  <1>7. buffer' = buffer \o SubSeq(wire, 1, n) /\ wire' = SubSeq(wire, n + 1, Len(wire))
    BY ONLY <1>1, <1>4, Zenon
  <1>8. buffer' \o wire' = buffer \o wire
    <2>1. PICK x, y : x = SubSeq(wire, 1, n) /\ y = SubSeq(wire, n + 1, Len(wire))
      OBVIOUS
    <2>2. x \in Seq(Byte) /\ y \in Seq(Byte) /\ buffer \in Seq(Byte) /\ x \o y = wire
      BY <1>3, <1>6, <2>1 DEF Bytes
    <2>3. (buffer \o x) \o y = buffer \o (x \o y)
      <3>1. x \in Seq(Byte) /\ y \in Seq(Byte) /\ buffer \in Seq(Byte)
        BY ONLY <2>2
      <3> QED BY ONLY <3>1, ConcatAssociative
    <2> QED BY ONLY <1>7, <2>1, <2>2, <2>3, Zenon
  <1>9. TypeInv'
    <2>1. buffer' \in Bytes /\ wire' \in Bytes
      BY <1>3, <1>6, <1>7, Together
    <2> QED BY <1>2, <2>1 DEF Inv, TypeInv
  <1>10. LengthInv' /\ EndInv'
    BY <1>2 DEF Inv, LengthInv, EndInv
  <1>11. WireInv'
    <2>1. Cur' = Cur /\ Reading' = Reading
      BY <1>2 DEF Cur, Reading
    <2>2. UNCHANGED <<writer, stream, written, open>>
      BY <1>2
    <2> QED BY <1>8, <2>1, <2>2, Zenon DEF Inv, WireInv
  <1>12. RoundTrip'
    BY <1>2 DEF Inv, RoundTrip, Body
  <1> QED BY <1>9, <1>10, <1>11, <1>12 DEF Inv

(* The buffer that is full is the next one that was written.               *)
LEMMA FullBuffer ==
  ASSUME Inv, Reading, Len(buffer) = length
  PROVE  /\ Cur < written /\ buffer = Buffer(writer, stream, Cur + 1)
         /\ \E w, pos : /\ Laid(writer, stream, written, w, pos)
                        /\ Unread(written, w, pos, Cur + 1, wire, open = "cut")
  <1>1. PICK m, s, n, c, buf, rest, lost :
            /\ m = writer /\ s = stream /\ n = written /\ c = Cur
            /\ buf = buffer /\ rest = wire /\ lost = (open = "cut")
    OBVIOUS
  <1>2. m \in Machine /\ s \in Streams /\ n \in 0..(2 * Len(s)) /\ buf \in Bytes /\ rest \in Bytes
    BY <1>1 DEF Inv, TypeInv
  <1>3. PICK w, pos : Laid(m, s, n, w, pos) /\ Unread(n, w, pos, c, buf \o rest, lost)
    BY <1>1 DEF Inv, WireInv
  <1>4. Len(buf) # 0 /\ (c < n => Len(buf) = Len(Buffer(m, s, c + 1)))
    BY <1>1, NextLength DEF Inv
  <1>5. c < n /\ buf = Buffer(m, s, c + 1) /\ Unread(n, w, pos, c + 1, rest, lost)
    BY ONLY <1>2, <1>3, <1>4, NextBuffer
  <1> QED BY ONLY <1>1, <1>3, <1>5, Zenon

LEMMA ReadLengthInv == ASSUME Inv, ReadLength PROVE Inv'
  <1>1. /\ state = "length" /\ Len(buffer) = length
        /\ length' = Number(DeserializeInteger(reader, buffer, 0).v)
        /\ buffer' = <<>> /\ state' = "body"
        /\ UNCHANGED <<wire, open, writer, stream, written, reader, received>>
    BY DEF ReadLength, conn, write
  <1>2. Reading /\ Cur = 2 * Len(received) /\ Cur' = Cur + 1 /\ Len(received) \in Nat /\ Len(stream) \in Nat
    BY <1>1, StreamAssumption DEF Reading, Cur, Inv, TypeInv
  <1>3. Cur < written /\ buffer = Buffer(writer, stream, Cur + 1)
    BY <1>1, <1>2, FullBuffer
  <1>4. PICK i : i = Len(received) + 1
    OBVIOUS
  <1>5. i \in 1..Len(stream) /\ Cur + 1 = 2 * i - 1
    BY <1>2, <1>3, <1>4 DEF Inv, TypeInv
  <1>6. buffer = Integer(Len(BodyOf(writer, stream, i)))
    <2>1. Buffer(writer, stream, 2 * i - 1) = Integer(Len(BodyOf(writer, stream, i)))
      BY <1>5, Lengths DEF Inv, TypeInv
    <2> QED BY ONLY <1>3, <1>5, <2>1, Zenon
  <1>7. buffer \in Word /\ Number(buffer) = Len(BodyOf(writer, stream, i))
        /\ Len(BodyOf(writer, stream, i)) \in Nat
    BY <1>5, <1>6, Bodies DEF Inv, TypeInv
  <1>8. length' = Len(BodyOf(writer, stream, i))
    <2>1. Holds(buffer, 0, buffer)
      BY HoldsItself DEF Inv, TypeInv
    <2>2. DeserializeInteger(reader, buffer, 0) = [v |-> buffer, offset |-> 0 + 4]
      BY <1>7, <2>1, DeserializedInteger DEF Inv, TypeInv
    <2>3. DeserializeInteger(reader, buffer, 0).v = buffer
      BY ONLY <2>2
    <2> QED BY ONLY <1>1, <1>7, <2>3, Zenon
  <1>9. TypeInv'
    <2>1. buffer' \in Bytes
      BY <1>1 DEF Bytes
    <2>2. length' \in Nat
      BY ONLY <1>7, <1>8
    <2> QED BY <1>1, <2>1, <2>2 DEF Inv, TypeInv
  <1>10. LengthInv'
    <2>1. Len(received) < Len(stream)
      BY ONLY <1>2, <1>4, <1>5
    <2> QED BY <1>1, <1>4, <1>8, <2>1 DEF LengthInv
  <1>11. EndInv'
    BY <1>1 DEF Inv, EndInv
  <1>12. WireInv'
    <2>1. buffer' \o wire' = wire
      BY <1>1, ConcatEmptySeq DEF Inv, TypeInv, Bytes
    <2>2. PICK w, pos : /\ Laid(writer, stream, written, w, pos)
                        /\ Unread(written, w, pos, Cur + 1, wire, open = "cut")
      BY <1>1, <1>2, FullBuffer
    <2> QED BY ONLY <1>1, <1>2, <2>1, <2>2, Zenon DEF WireInv
  <1>13. RoundTrip'
    BY <1>1 DEF Inv, RoundTrip, Body
  <1> QED BY <1>9, <1>10, <1>11, <1>12, <1>13 DEF Inv

LEMMA ReadBodyInv == ASSUME Inv, ReadBody PROVE Inv'
  <1>1. PICK i : i = Len(received) + 1
    OBVIOUS
  <1>2. /\ state = "body" /\ Len(buffer) = length
        /\ received' = Append(received, Deserialize(reader, stream[i].type, buffer))
        /\ buffer' = <<>> /\ length' = 4 /\ state' = "length"
        /\ UNCHANGED <<wire, open, writer, stream, written, reader>>
    BY <1>1 DEF ReadBody, conn, write, Size
  <1>3. Reading /\ Cur = 2 * Len(received) + 1 /\ Len(received) \in Nat /\ Len(stream) \in Nat
    BY <1>2, StreamAssumption DEF Reading, Cur, Inv, TypeInv
  <1>4. Cur < written /\ buffer = Buffer(writer, stream, Cur + 1)
    BY <1>2, <1>3, FullBuffer
  <1>5. i \in 1..Len(stream) /\ Cur + 1 = 2 * i
    BY <1>1, <1>2, <1>3 DEF Inv, LengthInv
  <1>6. buffer = BodyOf(writer, stream, i)
    <2>1. Buffer(writer, stream, 2 * i) = BodyOf(writer, stream, i)
      BY <1>5, Lengths DEF Inv, TypeInv
    <2> QED BY ONLY <1>4, <1>5, <2>1, Zenon
  <1>7. PICK d : d = [v |-> stream[i].v, offset |-> Len(BodyOf(writer, stream, i))]
    OBVIOUS
  <1>8. Deserialize(reader, stream[i].type, buffer) = d /\ d \in Read
    <2>1. PICK p, n : p = stream[i] /\ n = Len(BodyOf(writer, stream, i))
      OBVIOUS
    <2>2. p \in Package /\ n \in Nat /\ d = [v |-> p.v, offset |-> n]
      BY <1>5, <1>7, <2>1, Bodies DEF Inv, TypeInv
    <2>3. d \in Read
      BY <2>2 DEF Read
    <2>4. Deserialize(reader, stream[i].type, BodyOf(writer, stream, i)) = d
      BY <1>5, <1>7, Bodies DEF Inv, TypeInv
    <2> QED BY ONLY <1>6, <2>3, <2>4, Zenon
  <1>9. received' = Append(received, d)
    BY ONLY <1>2, <1>8, Zenon
  <1>10. /\ received' \in Seq(Read) /\ Len(received') = i /\ received'[i] = d
         /\ \A j \in 1..Len(received) : received'[j] = received[j]
    BY <1>1, <1>8, <1>9, AppendProperties DEF Inv, TypeInv
  <1>11. TypeInv'
    <2>1. buffer' \in Bytes
      BY <1>2 DEF Bytes
    <2> QED BY <1>2, <1>10, <2>1 DEF Inv, TypeInv
  <1>12. LengthInv' /\ EndInv'
    BY <1>2 DEF Inv, LengthInv, EndInv
  <1>13. WireInv'
    <2>1. buffer' \o wire' = wire
      BY <1>2, ConcatEmptySeq DEF Inv, TypeInv, Bytes
    <2>2. PICK w, pos : /\ Laid(writer, stream, written, w, pos)
                        /\ Unread(written, w, pos, Cur + 1, wire, open = "cut")
      BY <1>2, <1>3, FullBuffer
    <2>3. Cur' = Cur + 1
      BY <1>1, <1>2, <1>3, <1>10 DEF Cur
    <2> QED BY ONLY <1>2, <2>1, <2>2, <2>3, Zenon DEF WireInv
  <1>14. RoundTrip'
    <2>1. (Len(received) <= Len(stream))'
      BY <1>2, <1>3, <1>5, <1>10
    <2>2. ASSUME NEW j \in DOMAIN received'
          PROVE  received'[j] = [v |-> stream'[j].v, offset |-> Len(Body(j)')]
      <3>1. j \in 1..i
        BY <1>10
      <3>2. Body(j)' = BodyOf(writer, stream, j)
        BY <1>2 DEF Body, BodyOf
      <3>3. CASE j = i
        BY ONLY <1>2, <1>7, <1>10, <3>2, <3>3
      <3>4. CASE j # i
        <4>1. j \in 1..Len(received) /\ j \in DOMAIN received
          BY <1>1, <1>3, <3>1, <3>4 DEF Inv, TypeInv
        <4>2. received[j] = [v |-> stream[j].v, offset |-> Len(BodyOf(writer, stream, j))]
          BY <4>1, BodyIsBodyOf DEF Inv, RoundTrip
        <4> QED BY ONLY <1>2, <1>10, <3>2, <4>1, <4>2
      <3> QED BY <3>3, <3>4
    <2>3. state' \notin {"eof", "error"}
      BY <1>2
    <2> QED BY <2>1, <2>2, <2>3 DEF RoundTrip
  <1> QED BY <1>11, <1>12, <1>13, <1>14 DEF Inv

LEMMA ReadEndInv == ASSUME Inv, ReadEnd PROVE Inv'
  <1>1. /\ wire = <<>> /\ open # "open" /\ Len(buffer) < length
        /\ Reading /\ state' \in {"eof", "error"}
        /\ UNCHANGED <<wire, open, writer, stream, written, reader, buffer, length, received>>
    BY DEF ReadEnd, EndOfStream, Reading, conn, write
  <1>2. TypeInv' /\ LengthInv' /\ EndInv'
    BY <1>1 DEF Inv, TypeInv, LengthInv, EndInv
  <1>3. WireInv'
    <2>1. ~Reading'
      BY <1>1 DEF Reading
    <2>2. PICK w, pos : Laid(writer, stream, written, w, pos)
      BY DEF Inv, WireInv
    <2> QED BY ONLY <1>1, <2>1, <2>2, Zenon DEF WireInv
  <1>4. ASSUME open = "closed" PROVE Len(received) = Len(stream)
    <2>1. PICK m, s, n, c, buf : /\ m = writer /\ s = stream /\ n = written /\ c = Cur /\ buf = buffer
      OBVIOUS
    <2>2. m \in Machine /\ s \in Streams /\ n \in 0..(2 * Len(s)) /\ buf \in Bytes
      BY <2>1 DEF Inv, TypeInv
    <2>3. (open = "cut") = FALSE
      BY <1>4
    <2>4. buffer \o wire = buffer
      BY <1>1, ConcatEmptySeq DEF Inv, TypeInv, Bytes
    <2>5. PICK w, pos : Laid(m, s, n, w, pos) /\ Unread(n, w, pos, c, buf, FALSE)
      <3>1. PICK w, pos : /\ Laid(writer, stream, written, w, pos)
                          /\ Unread(written, w, pos, Cur, buffer \o wire, open = "cut")
        BY <1>1 DEF Inv, WireInv
      <3> QED BY ONLY <2>1, <2>3, <2>4, <3>1, Zenon
    <2>6. c < n => Len(buf) < Len(Buffer(m, s, c + 1))
      BY <1>1, <2>1, NextLength DEF Inv
    <2>7. c = n
      BY <2>2, <2>5, <2>6, AllRead
    <2>8. n = 2 * Len(s) /\ Len(s) \in Nat /\ Len(received) \in Nat
      BY <1>4, <2>1, StreamAssumption DEF Inv, EndInv, TypeInv
    <2>9. c = 2 * Len(received) \/ c = 2 * Len(received) + 1
      BY <2>1 DEF Cur
    <2> QED BY ONLY <2>1, <2>7, <2>8, <2>9
  <1>5. RoundTrip'
    BY <1>1, <1>4 DEF Inv, RoundTrip, Body
  <1> QED BY <1>2, <1>3, <1>5 DEF Inv

LEMMA CloseInv == ASSUME Inv, Close PROVE Inv'
  <1>1. /\ open = "open" /\ written = 2 * Len(stream) /\ open' = "closed"
        /\ UNCHANGED <<wire, writer, stream, written, reader, buffer, length, received, state>>
    BY DEF Close, write, read
  <1>2. Reading
    BY <1>1 DEF Inv, EndInv, TypeInv, Reading
  <1>3. TypeInv' /\ LengthInv' /\ EndInv'
    BY <1>1, <1>2 DEF Inv, TypeInv, LengthInv, EndInv, Reading
  <1>4. WireInv'
    <2>1. (open = "cut") = FALSE /\ (open' = "cut") = FALSE
      BY <1>1
    <2>2. Cur' = Cur /\ Reading' = Reading /\ buffer' \o wire' = buffer \o wire
      BY <1>1 DEF Cur, Reading
    <2>3. PICK w, pos : /\ Laid(writer, stream, written, w, pos)
                        /\ Unread(written, w, pos, Cur, buffer \o wire, open = "cut")
      BY <1>2 DEF Inv, WireInv
    <2> QED BY ONLY <1>1, <2>1, <2>2, <2>3, Zenon DEF WireInv
  <1>5. RoundTrip'
    BY <1>1, <1>2 DEF Inv, RoundTrip, Body, Reading
  <1> QED BY <1>3, <1>4, <1>5 DEF Inv

LEMMA CutInv == ASSUME Inv, Cut PROVE Inv'
  <1>1. PICK k \in {0} \cup Portions : wire' = SubSeq(wire, 1, Min({k, Len(wire)}))
    BY Zenon DEF Cut
  <1>2. /\ open = "open" /\ open' = "cut"
        /\ UNCHANGED <<writer, stream, written, reader, buffer, length, received, state>>
    BY DEF Cut, write, read
  <1>3. buffer \in Bytes /\ wire \in Bytes /\ Len(wire) \in Nat
    BY DEF Inv, TypeInv, Bytes
  <1>4. PICK n : n = Min({k, Len(wire)})
    OBVIOUS
  <1>5. n \in 0..Len(wire)
    <2>1. k \in Nat
      BY PortionAssumption
    <2> QED BY <1>3, <1>4, <2>1, MinTwo
  <1>6. PICK y : y = SubSeq(wire, n + 1, Len(wire))
    OBVIOUS
  <1>7. wire' \in Bytes /\ y \in Bytes /\ wire' \o y = wire
    <2>1. wire' = SubSeq(wire, 1, n)
      BY ONLY <1>1, <1>4, Zenon
    <2> QED BY <1>3, <1>5, <1>6, <2>1, TwoPortions
  <1>8. TypeInv'
    BY <1>2, <1>7 DEF Inv, TypeInv
  <1>9. LengthInv' /\ EndInv'
    BY <1>2 DEF Inv, LengthInv, EndInv
  <1>10. Reading /\ Cur' = Cur
    BY <1>2 DEF Inv, EndInv, TypeInv, Reading, Cur
  <1>11. WireInv'
    <2>1. PICK w, pos : /\ Laid(writer, stream, written, w, pos)
                        /\ Unread(written, w, pos, Cur, buffer \o wire, open = "cut")
      BY <1>10 DEF Inv, WireInv
    <2>2. PICK a, c, l, m : a = buffer \o wire' /\ c = Cur /\ l = (open = "cut") /\ m = written
      OBVIOUS
    <2>3. buffer \o wire = a \o y /\ a \in Bytes
      <3>1. PICK x, z : x = buffer /\ z = wire'
        OBVIOUS
      <3>2. x \in Seq(Byte) /\ z \in Seq(Byte) /\ y \in Seq(Byte)
        BY <1>3, <1>7, <3>1 DEF Bytes
      <3>3. (x \o z) \o y = x \o (z \o y)
        BY ONLY <3>2, ConcatAssociative
      <3>4. x \o z \in Bytes
        BY ONLY <3>2, Together DEF Bytes
      <3> QED BY ONLY <1>7, <2>2, <3>1, <3>3, <3>4, Zenon
    <2>4. Unread(m, w, pos, c, a \o y, l)
      BY ONLY <2>1, <2>2, <2>3, Zenon
    <2>5. m \in Nat /\ w \in Bytes /\ pos \in [0..m -> Nat]
      <3>1. m \in Nat
        BY <2>2, StreamAssumption DEF Inv, TypeInv
      <3> QED BY <2>1, <2>2, <3>1 DEF Laid
    <2>6. Unread(m, w, pos, c, a, TRUE)
      BY <1>7, <2>3, <2>4, <2>5, LessUnread
    <2>7. buffer' \o wire' = a /\ (open' = "cut") = TRUE
      BY <1>2, <2>2
    <2> QED BY ONLY <1>2, <1>10, <2>1, <2>2, <2>6, <2>7, Zenon DEF WireInv
  <1>12. RoundTrip'
    BY <1>2 DEF Inv, RoundTrip, Body
  <1> QED BY <1>8, <1>9, <1>11, <1>12 DEF Inv

-----------------------------------------------------------------------------

(* For every byte order of the two machines, whatever the packages and     *)
(* the portions in which the bytes arrive, and wherever the connection     *)
(* breaks: what the reader has of a buffer and the bytes in the connection *)
(* are the next bytes that write_package wrote, and the reader waits for   *)
(* as many as the next buffer has.                                         *)
THEOREM Invariant == Spec => []Inv
  <1>1. Init => Inv
    BY InitInv
  <1>2. Inv /\ [Next]_vars => Inv'
    BY write_packageInv, ReadSomeInv, ReadLengthInv, ReadBodyInv, ReadEndInv, CloseInv, CutInv,
       StutterInv, Zenon DEF Next
  <1> QED BY <1>1, <1>2, PTL DEF Spec

(* read_package deserializes the packages that write_package was given, in *)
(* their order, every one fills its buffer exactly, and a stream that is   *)
(* closed is read to the end.                                              *)
THEOREM ReadAsWritten == Spec => []RoundTrip
  <1>1. Inv => RoundTrip
    BY DEF Inv
  <1> QED BY <1>1, Invariant, PTL

=============================================================================
