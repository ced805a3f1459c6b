----------------------------- MODULE SavedBlobs -----------------------------
(***************************************************************************)
(* ExecEngine with the blobs its artifacts are written as.  JitCore takes  *)
(* an artifact as a record and says whether LoadCompiled accepts it; here  *)
(* the record becomes a header and bytes, and the engine's answer is that  *)
(* of the reader and the compatibility check.                              *)
(***************************************************************************)
EXTENDS ExecEngine, ArtifactFormat

CONSTANTS Host,          \* what this host enters in a header, for each of HostFields
          Other,         \* what another host enters where it differs
          RetByte,       \* the byte of each value type
          ObjectBytes,   \* the object file: nobody but the linker looks inside
          ExtensionLists \* the extension areas a header may have

HeaderOf(a, extensions) ==
  LET entered(field) == IF field \in a.differs THEN Other ELSE Host[field]
  IN  [llvm |-> entered("llvm"), triple |-> entered("triple"), cpu |-> entered("cpu"),
       mode |-> a.mode, fp |-> a.fp, rets |-> [i \in DOMAIN a.rets |-> RetByte[a.rets[i]]],
       extensions |-> extensions]

Written(a, extensions) == SerializeArtifact(HeaderOf(a, extensions), ObjectBytes)

(* An artifact that is not intact is one whose blob has lost its end. *)
BlobOf(a, extensions) ==
  IF a.intact THEN Written(a, extensions) ELSE Front(Written(a, extensions))

Suits(read, mode) == read.ok /\ CheckHostCompatibility(read.header, HostFields \ Tolerated, Host, mode)
Loads(blob, mode) == Suits(DeserializeArtifact(blob), mode)

(* What this engine may write. *)
Own == {Serialized([fp |-> fp, bytes |-> NoObject], "single", <<ret>>) : fp \in FPModes, ret \in ValueTypes}

(* The strings of a header are short, and no blob fills the memory. *)
ASSUME BlobsAssumption ==
  /\ Host \in [HostFields -> ShortStrings] /\ Other \in ShortStrings \ Range(Host)
  /\ RetByte \in [ValueTypes -> Byte]
  /\ ObjectBytes \in Seq(Byte)
  /\ << >> \in ExtensionLists
  /\ \A a \in Foreign : IsWritten(a) /\ a.differs \subseteq HostFields
  /\ \A a \in Foreign \cup Own, extensions \in ExtensionLists :
       IsHeader(HeaderOf(a, extensions)) /\ Fits(Written(a, extensions))

-----------------------------------------------------------------------------
(* The engine accepts exactly the artifacts whose blob reads back and fits   *)
(* its host.                                                                 *)
AcceptsWhatReads ==
  \A a \in saved, mode \in {"single", "batch"} : Accepts(a, mode) <=> Loads(BlobOf(a, << >>), mode)

Cut(blob) == {SubSeq(blob, 1, n) : n \in 0..(Len(blob) - 1)}
Extended(blob) == {Append(blob, byte) : byte \in Byte}
Altered(blob) == {[blob EXCEPT ![i] = byte] : i \in DOMAIN blob, byte \in Byte}

(* What SaveCompiled would write now reads back as it was; cut short or with *)
(* something after it, it is refused.                                        *)
ReadsBackWhole(header) ==
  LET blob == SerializeArtifact(header, ObjectBytes)
  IN  /\ DeserializeArtifact(blob) = [ok |-> TRUE, object |-> ObjectBytes, header |-> header]
      /\ \A damaged \in Cut(blob) \cup Extended(blob) : ~ DeserializeArtifact(damaged).ok

IsExact(read, blob) == read.ok => SerializeArtifact(read.header, read.object) = blob

(* With one byte altered it is refused, or reads as the header and object    *)
(* that would be written so: no byte is skipped, read twice or read past the *)
(* end.                                                                      *)
AlterationIsNoticed(header) ==
  \A damaged \in Altered(SerializeArtifact(header, ObjectBytes)) :
    IsExact(DeserializeArtifact(damaged), damaged)

(* Where the object would end beyond what a size_t counts, its size wraps    *)
(* and the reader goes on from before where it stands.  That it then comes   *)
(* upon a footer at the end is a matter of the bytes written.                *)
WrapIsRefused ==
  \A own \in Own, extensions \in ExtensionLists :
    \A damaged \in Altered(Written(own, extensions)) :
      LET size == ReadHeader(damaged).size
      IN  size.ok /\ ~ (size.pos + size.got < SizeMax) => ~ DeserializeArtifact(damaged).ok

HeadersNow ==
  IF entry_func_ptr_ = Null \/ core.bytes = NoObject THEN {}
  ELSE {HeaderOf(Serialized(core, "single", <<ret_type_>>), extensions) : extensions \in ExtensionLists}

(* Lengths and counts of a damaged blob are read before what they count.     *)
DamageIsNoticed ==
  /\ AcceptsWhatReads
  /\ \A header \in HeadersNow : ReadsBackWhole(header) /\ AlterationIsNoticed(header)
=============================================================================
