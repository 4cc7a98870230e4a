-------------------------------- MODULE Amf0 --------------------------------
(***************************************************************************)
(* The AMF0 codec of the RTMP control plane (src/core/src/rtmp/amf0.rs).   *)
(* An encoding is a sequence of cells laid out as the bytes are: a marker, *)
(* a length and each character take the cells they take on the wire; a     *)
(* double is its value in the first of eight cells.  Characters and keys   *)
(* are naturals, so that any of them may look like a marker.               *)
(***************************************************************************)
EXTENDS Bytes

Num(n) == [t |-> "number", v |-> n]
Bool(b) == [t |-> "boolean", v |-> b]
Str(s) == [t |-> "string", v |-> s]
Obj(fields) == [t |-> "object", v |-> fields]
Null == [t |-> "null", v |-> None]
Undefined == [t |-> "undefined", v |-> None]

-----------------------------------------------------------------------------
\* Writer: number, boolean, string, null; a field of an object is a bare key
\* and a value.
Counted(s) == BigEndian(Len(s), 2) \o s

Scalar(val) ==
  CASE val.t = "number"  -> <<0, val.v, 0, 0, 0, 0, 0, 0, 0>>
    [] val.t = "boolean" -> <<1, IF val.v THEN 1 ELSE 0>>
    [] val.t = "string"  -> <<2>> \o Counted(val.v)
    [] val.t = "null"    -> <<5>>

Entries(fields) ==
  FoldLeft(LAMBDA acc, f : acc \o Counted(f[1]) \o Scalar(f[2]), <<>>, fields)

\* Writer::ecma_array.
EcmaArray(fields) == <<8>> \o BigEndian(Len(fields), 4) \o Entries(fields) \o <<0, 0, 9>>

\* A sequence of values; Writer::object for an object.
Write(vals) ==
  FoldLeft(LAMBDA acc, val :
             acc \o (IF val.t = "object" THEN <<3>> \o Entries(val.v) \o <<0, 0, 9>>
                     ELSE Scalar(val)),
           <<>>, vals)

-----------------------------------------------------------------------------
\* Reader: each read returns its value and the offset after it, Eof for None.
Nothing == [at |-> Eof, v |-> None]

ReadUint(d, at, n) ==
  IF Has(d, at, n) THEN [at |-> at + n, v |-> FromBigEndian(Slice(d, at, n))] ELSE Nothing

\* read_utf8, and read_value for the scalars.
ReadUtf8(d, from) ==
  LET text(len) == IF ~Has(d, len.at, len.v) THEN Nothing
                   ELSE [at |-> len.at + len.v, v |-> Str(Slice(d, len.at, len.v))]
  IN  text(ReadUint(d, from, 2))

RECURSIVE ReadEntries(_, _, _, _)

\* What follows the counted entries of an ECMA array; its last byte may be
\* missing.
AfterEntries(d, from) ==
  LET after(marker) == IF Has(d, marker.at, 1) THEN marker.at + 1 ELSE marker.at
  IN  after(ReadUint(d, from, 2))

\* read_value; an ECMA array is returned as an object.
ValueOf(d, marker, at) ==
  LET boolean(b) == [at |-> b.at, v |-> Bool(b.v # 0)]
      array(count) == IF count.at = Eof THEN Nothing
                      ELSE ReadEntries(d, count.at, <<>>, count.v)
  IN  CASE at = Eof -> Nothing
        [] marker = 0 -> IF Has(d, at, 8) THEN [at |-> at + 8, v |-> Num(d[at + 1])]
                         ELSE Nothing
        [] marker = 1 -> boolean(ReadUint(d, at, 1))
        [] marker = 2 -> ReadUtf8(d, at)
        [] marker = 3 -> ReadEntries(d, at, <<>>, None)
        [] marker = 8 -> array(ReadUint(d, at, 4))
        [] marker = 5 -> [at |-> at, v |-> Null]
        [] marker = 6 -> [at |-> at, v |-> Undefined]
        [] OTHER -> Nothing

ReadValue(d, from) ==
  LET value(marker) == ValueOf(d, marker.v, marker.at) IN value(ReadUint(d, from, 1))

\* read_entries, `acc` read so far: up to a count, or up to an empty key
\* followed by the end marker; an empty key may also be a key.
ReadEntries(d, from, acc, count) ==
  IF count # None /\ Len(acc) = count
  THEN [at |-> AfterEntries(d, from), v |-> Obj(acc)]
  ELSE LET entry(key, val) ==
             IF val.at = Eof THEN Nothing
             ELSE ReadEntries(d, val.at, Append(acc, <<key.v.v, val.v>>), count)
           after(key, next) ==
             IF next.at = Eof THEN Nothing
             ELSE IF key.v.v = <<>> /\ next.v = 9 THEN [at |-> next.at, v |-> Obj(acc)]
             ELSE entry(key, ReadValue(d, key.at))
           named(key) == after(key, ReadUint(d, key.at, 1))
       IN  named(ReadUtf8(d, from))

RECURSIVE ReadFrom(_, _)

ReadFrom(d, at) ==
  LET more(val) == IF val.at = Eof THEN <<>> ELSE <<val.v>> \o ReadFrom(d, val.at)
  IN  more(ReadValue(d, at))

\* read_all: every value up to the end or to an unknown marker.
ReadAll(d) == ReadFrom(d, 0)

-----------------------------------------------------------------------------
\* What both ends look up in a command: its name, the transaction (txn_of), the
\* first object and a string field of it (str_field).
CommandName(vals) ==
  IF vals # <<>> /\ vals[1].t = "string" THEN vals[1].v ELSE None

TxnOf(vals) == IF Len(vals) >= 2 /\ vals[2].t = "number" THEN vals[2].v ELSE None

ObjectOf(vals) ==
  LET objects == {k \in 1..Len(vals) : vals[k].t = "object"}
  IN  IF objects = {} THEN <<>> ELSE vals[Min(objects)].v

StrField(fields, key) ==
  LET named == {k \in 1..Len(fields) : fields[k][1] = key}
      val == fields[Min(named)][2]
  IN  IF named = {} THEN <<>> ELSE IF val.t = "string" THEN val.v ELSE <<>>
=============================================================================
