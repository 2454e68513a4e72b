---------------------------- MODULE Serialization ----------------------------
(***************************************************************************)
(* Arguments and results of remote calls as bytes (rpc/serialization.h).   *)
(* A byte is a number below Base.  The templates over C++ types become     *)
(* operators over descriptions of types:                                   *)
(*   Void, Bool, String, Integer(size, signed), Tuple(of).                 *)
(* A pair is a tuple of two.  A result that may be missing is [ok, val].   *)
(***************************************************************************)
EXTENDS Integers, Sequences
LOCAL INSTANCE SequencesExt

CONSTANT Base  \* 256 in the code

ASSUME SerializationAssumption == Base \in Nat /\ Base > 1

Void == [kind |-> "void"]
Bool == [kind |-> "bool"]
String == [kind |-> "string"]
Integer(size, signed) == [kind |-> "int", size |-> size, signed |-> signed]
Tuple(of) == [kind |-> "tuple", of |-> of]

(* StoreBe..., LoadBe... of roo_io: big-endian, two's complement.           *)
StoreBe(n, size) == [i \in 1 .. size |-> (n \div Base ^ (size - i)) % Base]
LoadBeU(s) == FoldLeft(LAMBDA n, b : n * Base + b, 0, s)
LoadBeS(s) ==
  LET n == LoadBeU(s) IN IF 2 * n >= Base ^ Len(s) THEN n - Base ^ Len(s) ELSE n

Numbers(n) == [i \in 1 .. n |-> i]
-----------------------------------------------------------------------------
(* DynamicSerialized: bytes with a position at which to write.              *)
NoBytes == [ok |-> TRUE, data |-> <<>>, pos |-> 0]

fail == [ok |-> FALSE, data |-> <<>>, pos |-> 0]

seek(out, position) == [out EXCEPT !.pos = position]

(* A gap before the position is filled with zeros; bytes after it are       *)
(* written over.                                                            *)
write(out, s) ==
  LET gap == [i \in 1 .. out.pos - Len(out.data) |-> 0]
      all == out.data \o gap
      end == out.pos + Len(s)
  IN  [out EXCEPT !.data = SubSeq(all, 1, out.pos) \o s \o SubSeq(all, end + 1, Len(all)),
                  !.pos = end]

(* serialize() of the types that are not made of others: it never fails.    *)
Simple(type, val) ==
  CASE type.kind = "void" -> <<>>
    [] type.kind = "bool" -> <<IF val THEN 1 ELSE 0>>
    [] type.kind = "int" -> StoreBe(val, type.size)
    [] type.kind = "string" -> val

(* The length of a member has two bytes.                                    *)
Fits(len) == len <= Base ^ 2 - 1

RECURSIVE SerializeInto(_, _, _)

(* SerializeMemberInto(): leave room for the length, write the member, go   *)
(* back for the length.                                                     *)
SerializeMemberInto(type, val, out) ==
  LET begin == out.pos
      member == SerializeInto(type, val, seek(out, begin + 2))
      len == member.pos - (begin + 2)
  IN  IF ~member.ok THEN member
      ELSE IF ~Fits(len) THEN fail
      ELSE seek(write(seek(member, begin), StoreBe(len, 2)), member.pos)

(* SerializeInto(): IntoSerializer writes what serialize() returns; a pair  *)
(* or tuple writes its members one by one, up to one that fails.            *)
SerializeInto(type, val, out) ==
  IF type.kind = "tuple"
  THEN FoldLeft(LAMBDA o, i : IF o.ok THEN SerializeMemberInto(type.of[i], val[i], o) ELSE o,
                out, Numbers(Len(type.of)))
  ELSE write(out, Simple(type, val))

(* Serializer<T>::serialize().                                              *)
Serialize(type, val) ==
  IF type.kind = "tuple"
  THEN LET out == SerializeInto(type, val, NoBytes) IN [ok |-> out.ok, data |-> out.data]
  ELSE [ok |-> TRUE, data |-> Simple(type, val)]
-----------------------------------------------------------------------------
Invalid == [ok |-> FALSE]
Ok(val) == [ok |-> TRUE, val |-> val]

RECURSIVE Deserialize(_, _)

(* Faulty: a member that is longer than what is left takes what is left.    *)
MemberBug(s) ==
  IF Len(s) < 2 THEN Invalid
  ELSE Ok(SubSeq(s, 3, Len(s)))

(* The bytes of the first member, if they are all there.                    *)
Member(s) ==
  LET len == LoadBeU(SubSeq(s, 1, 2)) IN
  IF Len(s) < 2 THEN Invalid
  ELSE IF Len(s) - 2 < len THEN Invalid
  ELSE Ok(SubSeq(s, 3, 2 + len))

(* DeserializeMember(): from what is left, and after the values so far.     *)
DeserializeMember(type, before) ==
  IF ~Member(before.rest).ok THEN [before EXCEPT !.ok = FALSE]
  ELSE LET bytes == Member(before.rest).val
           member == Deserialize(type, bytes)
       IN  IF ~member.ok THEN [before EXCEPT !.ok = FALSE]
           ELSE [ok |-> TRUE, vals |-> Append(before.vals, member.val),
                 rest |-> SubSeq(before.rest, 3 + Len(bytes), Len(before.rest))]

DeserializeTuple(of, s) ==
  LET all == FoldLeft(LAMBDA d, i : IF d.ok THEN DeserializeMember(of[i], d) ELSE d,
                      [ok |-> TRUE, vals |-> <<>>, rest |-> s], Numbers(Len(of)))
  IN  IF all.ok /\ all.rest = <<>> THEN Ok(all.vals) ELSE Invalid

(* Deserializer<T>::deserialize().                                          *)
Deserialize(type, s) ==
  CASE type.kind = "void" -> IF Len(s) # 0 THEN Invalid ELSE Ok(0)
    [] type.kind = "bool" -> IF Len(s) # 1 THEN Invalid
                             ELSE IF s[1] > 1 THEN Invalid
                             ELSE Ok(s[1] # 0)
    [] type.kind = "int" -> IF Len(s) # type.size THEN Invalid
                            ELSE Ok(IF type.signed THEN LoadBeS(s) ELSE LoadBeU(s))
    [] type.kind = "string" -> Ok(s)
    [] type.kind = "tuple" -> DeserializeTuple(type.of, s)
=============================================================================
