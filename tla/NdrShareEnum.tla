----------------------------- MODULE NdrShareEnum -----------------------------
(***************************************************************************)
(* The share enumeration of the srvsvc pipe (smb/dcerpc.go): DcerpcRead,  *)
(* for a stored Request PDU, builds a PointerToCtr from session.anchors    *)
(* with SetInfo and marshals it by hand in NDR (PointerToCtr.MarshalBinary)*)
(* inside the NetShareEnumAllResponse; PointerToCtr.UnmarshalBinary is the *)
(* matching decoder.                                                       *)
(*                                                                         *)
(* The byte stream is a sequence of 16-bit words: every field the codec    *)
(* writes is a uint32 (two words, low first) or a UTF-16 unit.  A name is  *)
(* a sequence of Unicode code points.  MarshalBinary is stateful: it       *)
(* writes Ctr1Count from info.MaxCount before it sets info.MaxCount, so    *)
(* what it writes depends on how often the same PointerToCtr was          *)
(* marshalled before.                                                      *)
(***************************************************************************)
EXTENDS Naturals, FiniteSets, Sequences, SequencesExt

CONSTANTS
    ShareNames,   \* names getTree can return for the session's anchors
    IPCName,      \* NamedPipeShareName, "IPC$"
    IPCComment,   \* "IPC Service"
    EnumProbe,    \* enum values << low word, high word >> to round-trip
    EnumTail      \* the bytes of a message after an enum field

ASSUME IPCName \in ShareNames
ASSUME EnumProbe \subseteq (0..65535) \X (0..65535) /\ EnumTail \in Seq(0..255)

VARIABLES
    anchors,   \* the names of session.anchors
    sent,      \* the PointerToCtr words of the last share-enumeration reply
    field,     \* the last enum field marshalled: its type and value
    wire       \* the bytes of the message from that field on

vars == <<anchors, sent, field, wire>>

-----------------------------------------------------------------------------
(* encoder.ToUnicode / FromUnicode: UTF-16LE, surrogate pairs for code     *)
(* points above the BMP, U+FFFD for an unpaired surrogate (utf16.Decode).  *)

IsHigh(u) == 55296 <= u /\ u <= 56319
IsLow(u) == 56320 <= u /\ u <= 57343

Units(r) ==
    IF r < 65536 THEN << r >>
    ELSE << 55296 + (r - 65536) \div 1024, 56320 + ((r - 65536) % 1024) >>

ToUnicode(s) == FlattenSeq([i \in DOMAIN s |-> Units(s[i])])

RECURSIVE FromUnicode(_)
FromUnicode(u) ==
    IF u = << >> THEN << >>
    ELSE IF IsHigh(u[1]) /\ Len(u) > 1 /\ IsLow(u[2])
           THEN << 65536 + (u[1] - 55296) * 1024 + (u[2] - 56320) >>
                  \o FromUnicode(Tail(Tail(u)))
           ELSE << IF IsHigh(u[1]) \/ IsLow(u[1]) THEN 65533 ELSE u[1] >>
                  \o FromUnicode(Tail(u))

-----------------------------------------------------------------------------
(* The encoder side.                                                       *)

\* binary.Write(buf, LittleEndian, v) of a uint32 below 2^16.
W32(v) == << v, 0 >>

\* One conformant varying string: MaxCount, Offset 0, ActualCount (all the
\* rune count plus one), the UTF-16 units, a NUL unit, and a pad unit when
\* ActualCount is odd, unless the caller asks for none.
NdrString(s, padAllowed) ==
    LET count == Len(s) + 1
    IN  W32(count) \o W32(0) \o W32(count) \o ToUnicode(s) \o << 0 >>
          \o (IF count % 2 = 1 /\ padAllowed THEN << 0 >> ELSE << >>)

\* The comment DcerpcRead gives an anchor.
ShareComment(n) == IF n = IPCName THEN IPCComment ELSE << >>

\* ptc := &PointerToCtr{}; ptc.SetInfo(names, comments): a fresh info whose
\* MaxCount is still 0.
SetInfo(names) ==
    [ctr1Count |-> 0, maxCount |-> 0,
     array |-> [i \in DOMAIN names |-> [name |-> names[i],
                                        comment |-> ShareComment(names[i])]]]

\* Mutant of MarshalBinary: info.MaxCount written as the last index.
MarshalBinaryLastIndex(p) ==
    LET n == Len(p.array)
    IN  W32(1) \o W32(1) \o W32(p.maxCount) \o W32(1) \o W32(n - 1)
          \o FlattenSeq([i \in 1..n |-> W32(1) \o W32(0) \o W32(1)])
          \o FlattenSeq([i \in 1..n |-> NdrString(p.array[i].name, TRUE)
                                         \o NdrString(p.array[i].comment, i # n)])

\* The bytes MarshalBinary writes for p: Ctr 1, ReferentID 1, Ctr1Count
\* from the info.MaxCount p holds, then the info with the true count, the
\* fixed part of every item (name ReferentID, Type 0, comment ReferentID),
\* and the strings; the last comment gets no pad.
MarshalBinary(p) ==
    LET n == Len(p.array)
    IN  W32(1) \o W32(1) \o W32(p.maxCount) \o W32(1) \o W32(n)
          \o FlattenSeq([i \in 1..n |-> W32(1) \o W32(0) \o W32(1)])
          \o FlattenSeq([i \in 1..n |-> NdrString(p.array[i].name, TRUE)
                                         \o NdrString(p.array[i].comment, i # n)])

\* What MarshalBinary leaves in p.
Marshalled(p) == [p EXCEPT !.ctr1Count = p.maxCount, !.maxCount = Len(p.array)]

-----------------------------------------------------------------------------
(* The decoder side.  A read past the end of the data leaves the field 0   *)
(* (binary.Read's error is ignored).  A uint32 whose high word is not 0 is *)
(* above any length here and is kept as 2^16.  Garbled stands for every    *)
(* outcome that is not a list of anchors: the index panic on an empty     *)
(* name, or names carrying the zero words read past the end.              *)

U32(s) == IF Len(s) < 2 THEN 0 ELSE IF s[2] = 0 THEN s[1] ELSE 65536

Skip(s, k) == IF k >= Len(s) THEN << >> ELSE SubSeq(s, k + 1, Len(s))

Garbled == [ok |-> FALSE, val |-> << >>, rest |-> << >>]

\* MaxCount, Offset and ActualCount, ActualCount units, a pad unit when
\* ActualCount is odd; a trailing NUL is dropped.
ReadString(s) ==
    LET count == U32(Skip(s, 4))
        body == Skip(s, 6)
    IN  IF count = 0 \/ count > Len(body) THEN Garbled
        ELSE LET runes == FromUnicode(SubSeq(body, 1, count))
             IN  [ok |-> TRUE,
                  val |-> IF Last(runes) = 0 THEN Front(runes) ELSE runes,
                  rest |-> Skip(body, count + (count % 2))]

RECURSIVE DecodeItems(_, _)
DecodeItems(s, k) ==
    IF k = 0 THEN [ok |-> TRUE, val |-> << >>, rest |-> s]
    ELSE LET name == ReadString(s)
             comment == ReadString(name.rest)
             more == DecodeItems(comment.rest, k - 1)
         IN  IF ~name.ok \/ ~comment.ok \/ ~more.ok THEN Garbled
             ELSE [ok |-> TRUE,
                   val |-> << [name |-> name.val, comment |-> comment.val] >> \o more.val,
                   rest |-> more.rest]

\* Ctr1Count 0 is an empty container; otherwise MaxCount items follow the
\* header, their fixed parts first.
UnmarshalBinary(s) ==
    IF U32(Skip(s, 4)) = 0 THEN [ok |-> TRUE, val |-> << >>, rest |-> << >>]
    ELSE LET n == U32(Skip(s, 8))
         IN  IF n > Len(s) THEN Garbled ELSE DecodeItems(Skip(s, 10 + 6 * n), n)

-----------------------------------------------------------------------------
(* The generic codec of the enum types (smb/msg_basic.go MarshalBinary and *)
(* UnmarshalBinary), used by every Status, Command, HeadFlags, PDUType ... *)
(* field of a message.  It switches on binary.Size of the type: 4 and 1    *)
(* bytes have their own case, every other size takes the 2-byte default.   *)
(* Here the stream is a sequence of bytes.                                 *)

\* binary.Size of each enum type of the type constraint, from its
\* declaration (uint32, uint16 or uint8).
EnumSize ==
    [Status |-> 4, HeadFlags |-> 4, CreateDisposition |-> 4, ShareAccess |-> 4,
     CreateOptions |-> 4, FileAttributes |-> 4, CreateAction |-> 4,
     CompletionFilter |-> 4, AccessMask |-> 4, Command |-> 2,
     FindFlags |-> 1, FileInformationClass |-> 1, InfoType |-> 1, PDUType |-> 1]

\* A value of an enum is held as its two 16-bit words << low, high >>, as
\* TLC's integers stop below 2^31 and the Status constants use bit 31.
InWidth(v, size) ==
    CASE size = 4 -> TRUE
      [] size = 1 -> v[2] = 0 /\ v[1] < 256
      [] OTHER    -> v[2] = 0

\* binary.LittleEndian.PutUint16: the low byte first.
Put16(x) == << x % 256, x \div 256 >>

\* binary.LittleEndian.Uint16(b[k:]): b[k] | b[k+1]<<8.
Uint16At(b, k) == b[k] + 256 * b[k + 1]

NoField == [type |-> "none"]

\* Mutant of EnumMarshal: the 4-byte case written with PutUint16.
EnumMarshalPut16(v, size) ==
    CASE size = 1 -> << v[1] % 256 >>
      [] OTHER    -> Put16(v[1])

\* MarshalBinary(base): the bytes of uint32(base), uint8(base), or by
\* default uint16(base).
EnumMarshal(v, size) ==
    CASE size = 4 -> Put16(v[1]) \o Put16(v[2])
      [] size = 1 -> << v[1] % 256 >>
      [] OTHER    -> Put16(v[1])

\* UnmarshalBinary(base, data): the value read from the prefix of data of
\* the type's width, and meta.CurrOffset's advance, binary.Size(num).  A
\* shorter data panics (index out of range); callers give the whole rest.
EnumUnmarshal(data, size) ==
    CASE size = 4 -> [val |-> << Uint16At(data, 1), Uint16At(data, 3) >>, adv |-> 4]
      [] size = 1 -> [val |-> << data[1], 0 >>, adv |-> 1]
      [] OTHER    -> [val |-> << Uint16At(data, 1), 0 >>, adv |-> 2]

-----------------------------------------------------------------------------

\* The stream is made of 16-bit words.
TypeOK ==
    /\ anchors \subseteq ShareNames
    /\ sent \in Seq(0..65535)
    /\ field \in {NoField} \cup [type : DOMAIN EnumSize, val : EnumProbe]
    /\ wire \in Seq(0..255)

\* SetAnchor after SessionSetup-2: the anchors getTree returned, keyed by
\* name; no share enumeration answered yet.
Init ==
    /\ anchors \in SUBSET ShareNames
    /\ sent = << >>
    /\ field = NoField
    /\ wire = << >>

\* Mutant of DcerpcReadShareEnum: the reply carries the first marshal.
DcerpcReadShareEnumMarshalOnce ==
    /\ \E order \in SetToSeqs(anchors) : sent' = MarshalBinary(SetInfo(order))
    /\ UNCHANGED <<anchors, field, wire>>

(***************************************************************************)
(* DcerpcRead for a Request PDU: the names in map order (any order), their *)
(* comments, SetInfo, encoder.Marshal(shareEnumAllResp) for AllocHint and  *)
(* FragLength, then encoder.Marshal(pdu), whose Buffer holds the same      *)
(* *PointerToCtr: the bytes sent are its second marshal.                   *)
(***************************************************************************)
DcerpcReadShareEnum ==
    /\ \E order \in SetToSeqs(anchors) :
           sent' = MarshalBinary(Marshalled(SetInfo(order)))
    /\ UNCHANGED <<anchors, field, wire>>

(***************************************************************************)
(* The MarshalBinary method of an enum type (Status, HeadFlags, Command,   *)
(* ... each is `return MarshalBinary(c, meta, c)`): the encoder writes the *)
(* field's bytes, and the rest of the message follows them.                *)
(***************************************************************************)
MarshalEnumField ==
    /\ \E t \in DOMAIN EnumSize, v \in EnumProbe :
           /\ InWidth(v, EnumSize[t])
           /\ field' = [type |-> t, val |-> v]
           /\ wire' = EnumMarshal(v, EnumSize[t]) \o EnumTail
    /\ UNCHANGED <<anchors, sent>>

Next == DcerpcReadShareEnum \/ MarshalEnumField

Spec == Init /\ [][Next]_vars

-----------------------------------------------------------------------------

(* The share enumeration answers one name/comment pair per anchor of the   *)
(* session, the named-pipe share with comment "IPC Service" (spec, share   *)
(* enumeration), as PointerToCtr.UnmarshalBinary reads back the bytes      *)
(* DcerpcRead sends.                                                       *)
ShareEnumListsAnchors ==
    sent # << >> =>
        LET d == UnmarshalBinary(sent)
        IN  /\ d.ok
            /\ Len(d.val) = Cardinality(anchors)
            /\ {d.val[i] : i \in DOMAIN d.val}
                 = {[name |-> n, comment |-> ShareComment(n)] : n \in anchors}

(* Round trip of every enum field (spec, testable properties: decode of    *)
(* encode is the identity): whatever enum type and value of its width was  *)
(* marshalled, the status and flag constants and the edges included,       *)
(* UnmarshalBinary of the message from that field on gives the value back *)
(* and advances CurrOffset by exactly the bytes MarshalBinary wrote, so    *)
(* the next field is read where it was put.                                *)
EnumCodecRoundTrip ==
    field # NoField =>
        EnumUnmarshal(wire, EnumSize[field.type])
          = [val |-> field.val, adv |-> Len(wire) - Len(EnumTail)]

=============================================================================
