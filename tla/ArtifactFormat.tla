--------------------------- MODULE ArtifactFormat ---------------------------
(***************************************************************************)
(* The bytes of a saved artifact: src/compiled_artifact.cc.                *)
(*                                                                         *)
(* A blob is a sequence of bytes, digits to the base Base.  A header is a  *)
(* record of the fields of ArtifactHeader; its strings are byte sequences. *)
(* The reader is a record of where it stands, whether it has failed, and   *)
(* what it has read: pos_ moves only on success.                           *)
(***************************************************************************)
EXTENDS Integers, Sequences, SequencesExt, FiniteSetsExt

CONSTANTS
  Base,             \* 256 in the code
  U32Bytes,         \* 4 in the code; a U64 and a size_t have twice as many
  HeaderMagic,      \* kArtifactMagic and kArtifactFooterMagic
  FooterMagic,
  FormatVersion     \* kArtifactFormatVersion

(* What n bytes can count. *)
Power[n \in Nat] == IF n = 0 THEN 1 ELSE Base * Power[n - 1]

SizeMax == Power[2 * U32Bytes]
U32Max == Power[U32Bytes]

Byte == 0..(Base - 1)
ShortStrings == {bytes \in Seq(Byte) : Len(bytes) < U32Max}

ASSUME FormatAssumption ==
  /\ Base \in Nat \ {0, 1} /\ U32Bytes \in Nat \ {0}
  /\ FormatVersion \in 0..(U32Max - 1)
  /\ \A magic \in {HeaderMagic, FooterMagic} : magic \in Seq(Byte) /\ Len(magic) <= U32Bytes

ModeByte == [single |-> 0, batch |-> 1]
FPByte == [strict |-> 0, fast |-> 1]
NameOf(bytes, v) == CHOOSE name \in DOMAIN bytes : bytes[name] = v

(* A string is shorter than a size_t can say, by more than a U32 can say. *)
Fits(blob) == Len(blob) + U32Max < SizeMax

----------------------------------------------------------------------------
LittleEndian(v, n) == [i \in 1..n |-> (v \div Power[i - 1]) % Base]
U32LE(v) == LittleEndian(v, U32Bytes)
U64LE(v) == LittleEndian(v, 2 * U32Bytes)
LenPrefixed(bytes) == U32LE(Len(bytes)) \o bytes

ExtensionBytes(x) == U32LE(x.tag) \o LenPrefixed(x.payload)

(* The writer refuses a header no engine makes. *)
SerializeArtifact(header, object) ==
  LET n == Len(header.rets)
  IN  IF n = 0 \/ (header.mode = "single" /\ n # 1) THEN << >>
      ELSE HeaderMagic \o U32LE(FormatVersion)
             \o LenPrefixed(header.llvm) \o LenPrefixed(header.triple) \o LenPrefixed(header.cpu)
             \o <<ModeByte[header.mode], FPByte[header.fp]>>
             \o U32LE(n) \o header.rets
             \o U64LE(Len(object)) \o object
             \o U32LE(Len(header.extensions))
             \o FlattenSeq([i \in DOMAIN header.extensions |-> ExtensionBytes(header.extensions[i])])
             \o FooterMagic

----------------------------------------------------------------------------
(* ArtifactReader.  got is the last thing read. *)
Reader(pos, ok, got) == [pos |-> pos, ok |-> ok, got |-> got]
Stopped(r) == Reader(r.pos, FALSE, << >>)
Outside == <<-1>>     \* a view that leaves the blob

(* pos_ + n is a size_t and may wrap. *)
ReadBytesView(blob, r, n) ==
  LET end == (r.pos + n) % SizeMax
  IN  IF ~r.ok \/ end > Len(blob) THEN Stopped(r)
      ELSE Reader(end, TRUE, IF r.pos + n = end THEN SubSeq(blob, r.pos + 1, end) ELSE Outside)

(* The number written with these digits, the lowest first. *)
Number(digits) ==
  LET ofLast[k \in 0..Len(digits)] ==    \* of the last k of them
        IF k = 0 THEN 0 ELSE digits[Len(digits) - k + 1] + Base * ofLast[k - 1]
  IN  ofLast[Len(digits)]

(* ReadU8, ReadU32LE and ReadU64LE. *)
AsNumber(view) == IF ~view.ok THEN view ELSE Reader(view.pos, TRUE, Number(view.got))
ReadNumber(blob, r, bytes) == AsNumber(ReadBytesView(blob, r, bytes))
ReadU8(blob, r) == ReadNumber(blob, r, 1)
ReadU32LE(blob, r) == ReadNumber(blob, r, U32Bytes)
ReadU64LE(blob, r) == ReadNumber(blob, r, 2 * U32Bytes)

ReadCounted(blob, len) == IF ~len.ok THEN len ELSE ReadBytesView(blob, len, len.got)
ReadLenPrefixedStr(blob, r) == ReadCounted(blob, ReadU32LE(blob, r))

(* What was read must pass Test. *)
Check(r, Test(_)) == IF r.ok /\ Test(r.got) THEN r ELSE Stopped(r)
ReadMagic(blob, r, expected) ==
  Check(ReadBytesView(blob, r, Len(expected)), LAMBDA got : got = expected)

(* n things read one after the other; got is the sequence of them. *)
ReadAll(blob, r, n, Read(_, _)) ==
  LET after[i \in 0..(IF r.ok THEN n ELSE 0)] ==
        IF i = 0 THEN [r EXCEPT !.got = << >>]
        ELSE LET next == Read(blob, after[i - 1]) IN
             IF next.ok THEN Reader(next.pos, TRUE, Append(after[i - 1].got, next.got)) ELSE next
  IN  after[IF r.ok THEN n ELSE 0]

ReadExtension(blob, r) ==
  LET tag == ReadU32LE(blob, r)
      payload == ReadLenPrefixedStr(blob, tag)
  IN  IF payload.ok THEN [payload EXCEPT !.got = [tag |-> tag.got, payload |-> @]] ELSE payload

(* Mutant of Finished: what follows the footer is not looked at. *)
FinishedAnywhere(r, blob) == r.ok

Finished(r, blob) == r.ok /\ r.pos = Len(blob)

(* Field by field; the first that is cut short or wrong ends the reading.    *)
(* Up to the object's size: *)
ReadHeader(blob) ==
  LET magic == ReadMagic(blob, Reader(0, TRUE, << >>), HeaderMagic)
      version == Check(ReadU32LE(blob, magic), LAMBDA v : v = FormatVersion)
      llvm == ReadLenPrefixedStr(blob, version)
      triple == ReadLenPrefixedStr(blob, llvm)
      cpu == ReadLenPrefixedStr(blob, triple)
      mode == Check(ReadU8(blob, cpu), LAMBDA v : v \in Range(ModeByte))
      fp == Check(ReadU8(blob, mode), LAMBDA v : v \in Range(FPByte))
      count == Check(ReadU32LE(blob, fp), LAMBDA v : v = 1 \/ (v > 1 /\ NameOf(ModeByte, mode.got) = "batch"))
      rets == ReadAll(blob, count, count.got, ReadU8)
  IN  [llvm |-> llvm.got, triple |-> triple.got, cpu |-> cpu.got, mode |-> mode.got, fp |-> fp.got,
       rets |-> rets.got, size |-> ReadU64LE(blob, rets)]

(* And from there on. *)
ReadRest(blob, start) ==
  LET object == ReadCounted(blob, start.size)
      ext_count == ReadU32LE(blob, object)
      extensions == ReadAll(blob, ext_count, ext_count.got, ReadExtension)
      footer == ReadMagic(blob, extensions, FooterMagic)
  IN  IF ~Finished(footer, blob) THEN [ok |-> FALSE]
      ELSE [ok |-> TRUE, object |-> object.got,
            header |-> [llvm |-> start.llvm, triple |-> start.triple, cpu |-> start.cpu,
                        mode |-> NameOf(ModeByte, start.mode), fp |-> NameOf(FPByte, start.fp),
                        rets |-> start.rets, extensions |-> extensions.got]]

DeserializeArtifact(blob) == ReadRest(blob, ReadHeader(blob))

(* The headers the writer takes, with lengths and counts that a U32 holds. *)
IsHeader(header) ==
  /\ header \in [llvm : ShortStrings, triple : ShortStrings, cpu : ShortStrings,
                  mode : DOMAIN ModeByte, fp : DOMAIN FPByte, rets : ShortStrings,
                  extensions : Seq([tag : 0..(U32Max - 1), payload : ShortStrings])]
  /\ header.rets # << >> /\ (header.mode = "single" => Len(header.rets) = 1)
  /\ Len(header.extensions) < U32Max

(* check is the set of the fields opts asks to compare. *)
CheckHostCompatibility(header, check, host, expected_mode) ==
  (\A f \in check : header[f] = host[f]) /\ header.mode = expected_mode
=============================================================================
