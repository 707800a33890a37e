----------------------------- MODULE Unmarshal -----------------------------
(***************************************************************************)
(* The generated Unmarshal, for all four records, as a program counter over *)
(* its loops: one step reads one byte.  Every index is a Go int that wraps, *)
(* and a read outside the slice would be a panic.  The functions of the     *)
(* three generated files differ only in the fields they know, so a step is  *)
(* mapped to one of its copies.                                             *)
(***************************************************************************)
EXTENDS Wire

CONSTANTS Inputs,   \* the byte slices Unmarshal may be called on
          Empty     \* [Messages -> the record Unmarshal is called with]

\* A []byte: its length is an int.
IsSlice(s) == s \in Seq(Byte) /\ Len(s) < Sign

ASSUME UnmarshalAssumption ==
    /\ \A s \in Inputs : IsSlice(s)
    /\ \A message \in Messages : IsRecord(message, Empty[message])

VARIABLES
    msg,        \* the message: which of the four functions runs
    pc,         \* where it is, or "idle", "ok", "failed"
    dAtA,       \* its argument
    m,          \* the record it fills, which it does not reset
    iNdEx, preIndex, postIndex,
    field,      \* the current field number
    wire,       \* the varint being read: the tag, then a length
    scale,      \* 1 << shift
    skip,       \* iNdEx in skipEvent, from where dAtA[iNdEx:] starts
    depth       \* the groups open in skipEvent

indexVars == <<iNdEx, preIndex, postIndex>>
skipVars == <<skip, depth>>
unmarshalVars == <<msg, pc, dAtA, m, indexVars, field, wire, scale, skipVars>>

l == Len(dAtA)
Known == field \in DOMAIN Fields(msg)
Type == Fields(msg)[field].type

-----------------------------------------------------------------------------
(* The loops that read a varint.  They stop on a tenth continuation byte or *)
(* at the end of the slice.                                                 *)

Stopped(i, end) == scale >= Word \/ i >= end
More(i) == dAtA[i + 1] >= 128
Or(u, i, width) == (u + (dAtA[i + 1] % 128) * scale) % width

\* One byte at i: go on with the loop, or to the step after it.
ReadByte(i, end, after) ==
    /\ ~Stopped(i, end)
    /\ IF More(i) THEN scale' = 128 * scale /\ UNCHANGED pc
                  ELSE pc' = after /\ scale' = 1

Fail ==
    /\ pc' = "failed"
    /\ UNCHANGED <<msg, dAtA, m, indexVars, field, wire, scale, skipVars>>

-----------------------------------------------------------------------------
(* A field.                                                                  *)

NextField ==
    /\ pc = "loop" /\ iNdEx < l
    /\ pc' = "tag"
    /\ preIndex' = iNdEx /\ wire' = 0 /\ scale' = 1
    /\ UNCHANGED <<msg, dAtA, m, iNdEx, postIndex, field, skipVars>>

ReadTag ==
    /\ pc = "tag"
    /\ ReadByte(iNdEx, l, "field")
    /\ wire' = Or(wire, iNdEx, Word)
    /\ field' = Signed32((wire' \div 8) % Word32)
    /\ iNdEx' = iNdEx + 1
    /\ UNCHANGED <<msg, dAtA, m, preIndex, postIndex, skipVars>>

ReadStopped ==
    /\ pc \in {"tag", "varint", "length"} /\ Stopped(iNdEx, l)
    /\ Fail

\* wireType 4, a field number that is not positive, a known field of another type.
BadTag ==
    /\ pc = "field"
    /\ \/ wire % 8 = 4
       \/ field <= 0
       \/ Known /\ wire % 8 # WireType(Type)
    /\ Fail

FieldOf(wireType) == pc = "field" /\ Known /\ wire % 8 = wireType /\ WireType(Type) = wireType

StartVarint ==
    /\ FieldOf(0)
    /\ pc' = "varint"
    /\ m' = [m EXCEPT ![Name(msg, field)] = 0]
    /\ UNCHANGED <<msg, dAtA, indexVars, field, wire, scale, skipVars>>

\* m.Id |= uint64(b & 0x7F) << shift, and the same in 32 bits.
OrInto(v) ==
    CASE Type = "uint64" -> Or(v, iNdEx, Word)
      [] Type = "uint32" -> Or(v, iNdEx, Word32)
      [] Type = "int32"  -> Signed32(Or(Unsigned32(v), iNdEx, Word32))

ReadVarint ==
    /\ pc = "varint"
    /\ ReadByte(iNdEx, l, "loop")
    /\ m' = [m EXCEPT ![Name(msg, field)] = OrInto(@)]
    /\ iNdEx' = iNdEx + 1
    /\ UNCHANGED <<msg, dAtA, preIndex, postIndex, field, wire, skipVars>>

StartLength ==
    /\ FieldOf(2)
    /\ pc' = "length"
    /\ wire' = 0
    /\ UNCHANGED <<msg, dAtA, m, indexVars, field, scale, skipVars>>

ReadLength ==
    /\ pc = "length"
    /\ ReadByte(iNdEx, l, "check")
    /\ wire' = Or(wire, iNdEx, Word)
    /\ iNdEx' = iNdEx + 1
    /\ UNCHANGED <<msg, dAtA, m, preIndex, postIndex, field, skipVars>>

\* Bug: a negative length goes through if the sum does.
LengthOkAnySign(n) == Plus(iNdEx, n) >= 0 /\ Plus(iNdEx, n) <= l

\* Bug: a sum that wrapped around goes through.
LengthOkNoWrap(n) == n >= 0 /\ Plus(iNdEx, n) <= l

\* The end of the field's bytes, from a length that may be any int.
LengthOk(n) == n >= 0 /\ Plus(iNdEx, n) >= 0 /\ Plus(iNdEx, n) <= l
CheckLength(step, n, slice) ==
    /\ pc = step
    /\ LengthOk(n)
    /\ pc' = slice
    /\ postIndex' = Plus(iNdEx, n)
    /\ UNCHANGED <<msg, dAtA, m, iNdEx, preIndex, field, wire, scale, skipVars>>
LengthTaken == CheckLength("check", Signed(wire), "slice")
LengthRefused == pc = "check" /\ ~LengthOk(Signed(wire)) /\ Fail

Slice == SubSeq(dAtA, iNdEx + 1, postIndex)
TakeSlice(slice, name, value) ==
    /\ pc = slice
    /\ pc' = "loop"
    /\ m' = [m EXCEPT ![name] = value]
    /\ iNdEx' = postIndex
    /\ UNCHANGED <<msg, dAtA, preIndex, postIndex, field, wire, scale, skipVars>>

TakeString ==
    /\ pc = "slice" /\ Type = "string"
    /\ TakeSlice("slice", Name(msg, field), Slice)

\* StdTimeUnmarshal (external) reads what StdTimeMarshalTo wrote; it may refuse
\* other bytes or read some time from them.
TakeTime ==
    /\ pc = "slice" /\ Type = "time"
    /\ \E t \in IF Slice \in Times THEN {Slice} ELSE Times :
          TakeSlice("slice", "updated_at", Time(t))
TakeTimeErr ==
    /\ pc = "slice" /\ Type = "time" /\ Slice \notin Times
    /\ pc' = "failed"
    /\ m' = [m EXCEPT !.updated_at = IF @.nil THEN Time(ZeroTime) ELSE @]
    /\ UNCHANGED <<msg, dAtA, indexVars, field, wire, scale, skipVars>>

-----------------------------------------------------------------------------
(* skipEvent, on dAtA[preIndex:], for a field number Unmarshal does not know. *)

StartSkip ==
    /\ pc = "field" /\ ~Known /\ field > 0 /\ wire % 8 # 4
    /\ pc' = "skip"
    /\ iNdEx' = preIndex /\ skip' = 0 /\ depth' = 0
    /\ UNCHANGED <<msg, dAtA, m, preIndex, postIndex, field, wire, scale>>

SkipNext ==
    /\ pc = "skip" /\ skip < l - iNdEx
    /\ pc' = "skipTag"
    /\ wire' = 0 /\ scale' = 1
    /\ UNCHANGED <<msg, dAtA, m, indexVars, field, skipVars>>

SkipStopped ==
    /\ \/ pc = "skip" /\ skip >= l - iNdEx
       \/ pc \in {"skipTag", "skipVarint", "skipLength"} /\ Stopped(skip, l - iNdEx)
    /\ Fail

SkipRead(step, after) ==
    /\ pc = step
    /\ ReadByte(iNdEx + skip, l, after)
    /\ skip' = skip + 1
    /\ UNCHANGED <<msg, dAtA, m, indexVars, field, depth>>

SkipTag == SkipRead("skipTag", "skipType") /\ wire' = Or(wire, iNdEx + skip, Word)
SkipVarint == SkipRead("skipVarint", "skipEnd") /\ UNCHANGED wire
SkipLength == SkipRead("skipLength", "skipBytes") /\ wire' = Or(wire, iNdEx + skip, Word)

SkipGoto(step, s, d) ==
    /\ pc' = step /\ skip' = s /\ depth' = d
    /\ UNCHANGED <<msg, dAtA, m, indexVars, field, scale>>

SkipType ==
    /\ pc = "skipType"
    /\ CASE wire % 8 = 0 -> SkipGoto("skipVarint", skip, depth) /\ UNCHANGED wire
         [] wire % 8 = 1 -> SkipGoto("skipEnd", Plus(skip, 8), depth) /\ UNCHANGED wire
         [] wire % 8 = 2 -> SkipGoto("skipLength", skip, depth) /\ wire' = 0
         [] wire % 8 = 3 -> SkipGoto("skipEnd", skip, depth + 1) /\ UNCHANGED wire
         [] wire % 8 = 4 /\ depth > 0
                         -> SkipGoto("skipEnd", skip, depth - 1) /\ UNCHANGED wire
         [] wire % 8 = 5 -> SkipGoto("skipEnd", Plus(skip, 4), depth) /\ UNCHANGED wire
         [] OTHER        -> Fail    \* an end group too many, or types 6 and 7

SkipBytes ==
    /\ pc = "skipBytes"
    /\ IF Signed(wire) < 0 THEN Fail
       ELSE SkipGoto("skipEnd", Plus(skip, Signed(wire)), depth) /\ UNCHANGED wire

SkipEnd ==
    /\ pc = "skipEnd"
    /\ IF skip < 0 THEN Fail
       ELSE /\ pc' = IF depth = 0 THEN "skipped" ELSE "skip"
            /\ UNCHANGED <<msg, dAtA, m, indexVars, field, wire, scale, skipVars>>

SkipTaken == CheckLength("skipped", skip, "unknown")
SkipRefused == pc = "skipped" /\ ~LengthOk(skip) /\ Fail

\* Bug: only the last unknown field is kept.
TakeLastUnknown == TakeSlice("unknown", "unrecognized", Slice)

TakeUnknown == TakeSlice("unknown", "unrecognized", m.unrecognized \o Slice)

-----------------------------------------------------------------------------
Finish ==
    /\ pc = "loop" /\ iNdEx >= l
    /\ pc' = IF iNdEx > l THEN "failed" ELSE "ok"
    /\ UNCHANGED <<msg, dAtA, m, indexVars, field, wire, scale, skipVars>>

FieldStep ==
    \/ NextField \/ ReadTag \/ ReadStopped \/ BadTag \/ StartVarint \/ ReadVarint
    \/ StartLength \/ ReadLength \/ LengthTaken \/ LengthRefused
    \/ TakeString \/ TakeTime \/ TakeTimeErr \/ Finish
SkipStep ==
    \/ StartSkip \/ SkipNext \/ SkipStopped \/ SkipTag \/ SkipVarint \/ SkipLength
    \/ SkipType \/ SkipBytes \/ SkipEnd \/ SkipTaken \/ SkipRefused \/ TakeUnknown
UnmarshalStep == FieldStep \/ SkipStep

\* A call on data with the record r.
Call(msg1, data, r) ==
    /\ msg' = msg1 /\ pc' = "loop" /\ dAtA' = data /\ m' = r
    /\ iNdEx' = 0 /\ preIndex' = 0 /\ postIndex' = 0
    /\ field' = 0 /\ wire' = 0 /\ scale' = 1 /\ skip' = 0 /\ depth' = 0

-----------------------------------------------------------------------------
(* Properties.                                                               *)

\* Unmarshal never reads or slices outside its argument, whatever the bytes are:
\* a length may be any int, and an index plus a length may wrap around.
ReadsInBounds ==
    /\ pc \in {"tag", "varint", "length"} => iNdEx >= 0
    /\ pc \in {"skip", "skipTag", "skipVarint", "skipLength"} => iNdEx >= 0 /\ skip >= 0
    /\ pc \in {"slice", "unknown"} => 0 <= iNdEx /\ iNdEx <= postIndex /\ postIndex <= l

\* Every turn of Unmarshal's loop leaves it further on in the bytes than it began,
\* also after a length or a skipped field: this is why the loop ends.
FieldsConsume == [][pc \notin {"idle", "loop"} /\ pc' = "loop" => iNdEx' > preIndex]_unmarshalVars
=============================================================================
