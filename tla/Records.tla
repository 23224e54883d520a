------------------------------ MODULE Records ------------------------------
(***************************************************************************)
(* The archives that ZooKeeper messages are written to and read from       *)
(* (recordio.c): a buffer that doubles when a field does not fit, and a    *)
(* reader that may be given a message that was cut short.  The record code *)
(* that is generated from zookeeper.jute stops at the first field whose    *)
(* result is negative.  Lengths are unbounded here; an archive of a        *)
(* gigabyte, where an int32_t overflows, is left out.                      *)
(***************************************************************************)
EXTENDS Integers, FiniteSetsExt, SequencesExt

CONSTANTS InitialLen,    \* 128 in create_buffer_oarchive
          Fields,        \* the fields a record may have: a type and a value
          MaxFields

VARIABLES oa,            \* len, off and bytes of the output buffer; null if it is gone
          rc,            \* the result of the last field
          written,       \* the fields that were written, in order
          ignored,       \* a failure was not reported
          ia,            \* the message that is read, and how far
          got,           \* the fields that were read
          stage          \* writing | reading | done | crashed

recordVars == <<oa, rc, written, ignored, ia, got, stage>>

ENOMEM == 12
E2BIG  == 7
EINVAL == 22

Null == <<-1>>           \* the value of a NULL string or buffer

-----------------------------------------------------------------------------
(* Numbers: two's complement, in network byte order. *)

Byte  == {b \in Nat : b <= 255}
Int32 == {i \in Int : -2147483647 - 1 <= i /\ i <= 2147483647}

\* What is left of a number without its last four bytes.
HighWord(i) == (((i \div 256) \div 256) \div 256) \div 256

\* The last four bytes of a number.
htonl(i) ==
  LET a == i \div 256
      b == a \div 256
      c == b \div 256
  IN  <<c % 256, b % 256, a % 256, i % 256>>

htonll(v) == htonl(HighWord(v)) \o htonl(v)

Signed(byte) == IF byte > 127 THEN byte - 256 ELSE byte

ntohl(s)  == ((Signed(s[1]) * 256 + s[2]) * 256 + s[3]) * 256 + s[4]
ntohll(s) == (((ntohl(s) * 256 + s[5]) * 256 + s[6]) * 256 + s[7]) * 256 + s[8]

\* A field of a record: a number of its width, a 0 or 1, the bytes of a buffer,
\* or the characters of a string.
IsField(f) ==
  /\ f = [type |-> f.type, value |-> f.value]
  /\ \/ /\ f.type \in {"int", "long"} /\ f.value = <<f.value[1]>> /\ f.value[1] \in Int
        /\ (IF f.type = "int" THEN f.value[1] ELSE HighWord(f.value[1])) \in Int32
     \/ f.type = "bool" /\ f.value \in {<<0>>, <<1>>}
     \/ f.type \in {"buffer", "string"} /\ f.value = Null
     \/ f.type = "buffer" /\ f.value \in Seq(Byte) /\ Len(f.value) \in Int32
     \/ f.type = "string" /\ f.value \in Seq(Byte \ {0}) /\ Len(f.value) \in Int32

ASSUME RecordsAssumption ==
  /\ InitialLen \in Nat \ {0} /\ MaxFields \in Nat
  /\ \A f \in Fields : IsField(f)

-----------------------------------------------------------------------------
(* Writing.  An operation gives the set of its outcomes, [b, rc, bad]. *)

create_buffer_oarchive == [len |-> InitialLen, off |-> 0, bytes |-> <<>>, null |-> FALSE]

\* One doubling, whatever the need.
resize_buffer_Once(len, newlen) == 2 * len

\* The length doubles until it holds newlen bytes.
resize_buffer(len, newlen) ==
  LET pass(m, j) == IF m < newlen THEN 2 * m ELSE m
  IN  FoldLeft(pass, len, [j \in 1..newlen |-> j])

\* memcpy to the end, with no room test; through NULL it is a crash.
Copied(b, s) ==
  [b |-> [b EXCEPT !.bytes = @ \o s, !.off = @ + Len(s)], rc |-> 0, bad |-> b.null]

\* Room is made first; realloc may fail, and leaves the new length behind.
PutBytes(b, s) ==
  LET n == resize_buffer(b.len, b.len + Len(s))
  IN  IF b.len - b.off >= Len(s) THEN {Copied(b, s)}
      ELSE {Copied([b EXCEPT !.len = n, !.null = FALSE], s),
            [b |-> [b EXCEPT !.len = n, !.null = TRUE], rc |-> -ENOMEM, bad |-> FALSE]}

oa_serialize_int(b, i)  == PutBytes(b, htonl(i))
oa_serialize_long(b, i) == PutBytes(b, htonll(i))
oa_serialize_bool(b, i) == PutBytes(b, <<IF i = 0 THEN 0 ELSE 1>>)

\* The length, and if that went well the bytes.
LengthAndBytes(b, v) ==
  UNION {IF r.rc < 0 \/ r.bad THEN {r} ELSE PutBytes(r.b, v) : r \in oa_serialize_int(b, Len(v))}

oa_serialize_buffer(b, v) == IF v = Null THEN oa_serialize_int(b, -1) ELSE LengthAndBytes(b, v)

\* For a NULL string the result of writing the length is dropped.
oa_serialize_string(b, v) ==
  IF v = Null THEN {[r EXCEPT !.rc = 0] : r \in oa_serialize_int(b, -1)}
  ELSE LengthAndBytes(b, v)

Serialize(b, f) ==
  CASE f.type = "int"    -> oa_serialize_int(b, f.value[1])
    [] f.type = "long"   -> oa_serialize_long(b, f.value[1])
    [] f.type = "bool"   -> oa_serialize_bool(b, f.value[1])
    [] f.type = "buffer" -> oa_serialize_buffer(b, f.value)
    [] f.type = "string" -> oa_serialize_string(b, f.value)

RecordsInit ==
  /\ oa = create_buffer_oarchive /\ rc = 0 /\ written = <<>> /\ ignored = FALSE
  /\ ia = [buffer |-> <<>>, off |-> 0] /\ got = <<>> /\ stage = "writing"

Write ==
  /\ stage = "writing" /\ rc = 0 /\ Len(written) < MaxFields
  /\ \E f \in Fields : \E r \in Serialize(oa, f) :
       /\ oa' = r.b /\ rc' = r.rc
       /\ written' = IF r.rc = 0 THEN Append(written, f) ELSE written
       /\ ignored' = (ignored \/ (r.b.null /\ r.rc = 0))
       /\ stage' = IF r.bad THEN "crashed" ELSE "writing"
  /\ UNCHANGED <<ia, got>>

\* The message goes out and arrives, whole or cut short.
create_buffer_iarchive ==
  /\ stage = "writing" /\ rc = 0 /\ ~oa.null
  /\ \E len \in 0..oa.off : ia' = [buffer |-> SubSeq(oa.bytes, 1, len), off |-> 0]
  /\ stage' = "reading"
  /\ UNCHANGED <<oa, rc, written, ignored, got>>

-----------------------------------------------------------------------------
(* Reading.  An operation gives [off, rc, value]. *)

Left(off) == Len(ia.buffer) - off

Taken(off, n) == SubSeq(ia.buffer, off + 1, off + n)

Refused(off, code) == [off |-> off, rc |-> -code, value |-> <<>>]

ia_deserialize_int(off) ==
  IF Left(off) < 4 THEN Refused(off, E2BIG)
  ELSE [off |-> off + 4, rc |-> 0, value |-> <<ntohl(Taken(off, 4))>>]

ia_deserialize_long(off) ==
  IF Left(off) < 8 THEN Refused(off, E2BIG)
  ELSE [off |-> off + 8, rc |-> 0, value |-> <<ntohll(Taken(off, 8))>>]

ia_deserialize_bool(off) ==
  IF Left(off) < 1 THEN Refused(off, E2BIG)
  ELSE [off |-> off + 1, rc |-> 0, value |-> Taken(off, 1)]

ia_deserialize_buffer(off) ==
  LET n == ia_deserialize_int(off)
  IN  IF n.rc < 0 THEN n
      ELSE IF Left(n.off) < n.value[1] THEN Refused(n.off, E2BIG)
      ELSE IF n.value[1] = -1 THEN [n EXCEPT !.value = Null]
      ELSE [off |-> n.off + n.value[1], rc |-> 0, value |-> Taken(n.off, n.value[1])]

\* The test for a negative length comes after the one for room.
ia_deserialize_string(off) ==
  LET n == ia_deserialize_int(off)
  IN  IF n.rc < 0 THEN n
      ELSE IF Left(n.off) < n.value[1] THEN Refused(n.off, E2BIG)
      ELSE IF n.value[1] < 0 THEN Refused(n.off, EINVAL)
      ELSE [off |-> n.off + n.value[1], rc |-> 0, value |-> Taken(n.off, n.value[1])]

Deserialize(type, off) ==
  CASE type = "int"    -> ia_deserialize_int(off)
    [] type = "long"   -> ia_deserialize_long(off)
    [] type = "bool"   -> ia_deserialize_bool(off)
    [] type = "buffer" -> ia_deserialize_buffer(off)
    [] type = "string" -> ia_deserialize_string(off)

ReadField ==
  /\ stage = "reading"
  /\ IF Len(got) = Len(written) THEN stage' = "done" /\ UNCHANGED <<ia, got, rc>>
     ELSE LET type == written[Len(got) + 1].type
              r    == Deserialize(type, ia.off)
          IN  /\ ia' = [ia EXCEPT !.off = r.off] /\ rc' = r.rc
              /\ got' = IF r.rc < 0 THEN got ELSE Append(got, [type |-> type, value |-> r.value])
              /\ stage' = IF r.rc < 0 THEN "done" ELSE "reading"
  /\ UNCHANGED <<oa, written, ignored>>

RecordsNext == Write \/ create_buffer_iarchive \/ ReadField

RecordsSpec == RecordsInit /\ [][RecordsNext]_recordVars

-----------------------------------------------------------------------------
(* Properties *)

NullString(f) == f.type = "string" /\ f.value = Null

\* What was written comes back, through every growth of the buffer: the fields
\* that are read are the first ones that were written, and reading only stops
\* early, with an error, because the message was cut or at a NULL string, which
\* is written but cannot be read (ia_deserialize_string); nothing is written
\* beyond the buffer, and through a NULL buffer only after the failure to write a
\* NULL string went unreported (oa_serialize_string).
RecordsRoundTrip ==
  /\ oa.off <= oa.len
  /\ stage = "crashed" => ignored
  /\ (stage \in {"reading", "done"} /\ ~ignored) =>
       /\ IsPrefix(got, written)
       /\ stage = "done" =>
            \/ rc = 0 /\ got = written /\ ia.off = oa.off
            \/ rc = -E2BIG /\ Len(ia.buffer) < oa.off
            \/ rc = -EINVAL /\ NullString(written[Len(got) + 1])

=============================================================================
