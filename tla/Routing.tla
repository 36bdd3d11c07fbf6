-------------------------------- MODULE Routing --------------------------------
(***************************************************************************)
(* extractRouting of the three address libraries (packages/core-ts,        *)
(* core-go, core-dart): which account a payment is for, and which of the   *)
(* ids that share it, from the destination and the memo.  The libraries    *)
(* are meant to give the same answer.  Warnings and error texts are left   *)
(* out; a call that throws and one that answers with an error both deliver *)
(* nowhere.  Base32, checksums and digits become what the functions ask of *)
(* a string.  All three read addresses in either case.                     *)
(***************************************************************************)
EXTENDS Naturals

CONSTANTS
  Bases,        \* accounts that addresses stand for
  Numbers,      \* ids of muxed addresses, and numbers written in memos
  Lengths,      \* lengths of memos, in bytes
  MaxId,        \* UINT64_MAX
  MaxText       \* the longest text memo, 28 bytes

ASSUME RoutingAssumption ==
  /\ Numbers \subseteq Nat /\ Lengths \subseteq Nat /\ 0 \in Numbers
  /\ MaxId \in Nat /\ MaxText \in Nat

VARIABLE routed \* the inputs of the last call, a set of at most one

routingVars == <<routed>>

\* An address: its first letter, whether its characters and its checksum are
\* right, whether it is as long as its kind, and whether it is written without
\* padding and spare bits; the account, and the id in a muxed address.
Address ==
  {d \in [prefix : {"G", "M", "C", "other"}, checked : BOOLEAN, whole : BOOLEAN,
          exact : BOOLEAN, account : Bases, id : Numbers] :
     /\ d.prefix = "other" => ~d.checked
     /\ ~d.checked => d.whole /\ d.exact
     /\ IF d.prefix = "M" THEN d.id <= MaxId ELSE d.id = 0}

\* A memo value; an absent one is as good as an empty one.
MemoValue ==
  {s \in [length : Lengths, digits : BOOLEAN, number : Numbers, hex64 : BOOLEAN] :
     /\ s.length = 0 => ~s.digits
     /\ ~s.digits => s.number = 0
     /\ s.hex64 => s.length > MaxText}

MemoTypes == {"none", "id", "text", "hash", "return", "unknown"}

RoutingInput ==
  [destination : Address, memoType : MemoTypes, memoValue : MemoValue,
   sourceAccount : {{}} \cup {{a} : a \in Address}]

-----------------------------------------------------------------------------
\* Results: the base account, the id and where the id comes from.
NoId == [form |-> "none"]
Number(n) == [form |-> "number", number |-> n]
Text(s)   == [form |-> "text", of |-> s]
Hash(s)   == [form |-> "hash", of |-> s]

Result(base, id, source) == [base |-> base, id |-> id, source |-> source]
Nowhere == Result({}, NoId, "none")
FromMemo(base, id) == Result(base, id, IF id = NoId THEN "none" ELSE "memo")

Numeric(s) == s.digits /\ s.number <= MaxId
Is(i, kinds) == i.memoType \in kinds

\* normalizeMemoTextId of memo.ts
TSNumeric(s) == Numeric(s)

\* The memo of a G address in core-ts.
TSMemoId(i) ==
  LET s == i.memoValue
  IN  CASE Is(i, {"id"}) -> IF TSNumeric(s) THEN Number(s.number) ELSE NoId
        [] Is(i, {"text"}) /\ s.length > 0 ->
             IF TSNumeric(s) THEN Number(s.number)
             ELSE IF s.length <= MaxText THEN Text(s) ELSE NoId
        [] Is(i, {"hash", "return"}) /\ s.length > 0 -> IF s.hex64 THEN Hash(s) ELSE NoId
        [] OTHER -> NoId

\* parse of core-ts.  detect lets a muxed address with spare bits through, and
\* the SDK refuses it when decodeMuxed asks.
TSParse(d) == IF d.checked /\ d.whole /\ d.exact THEN d.prefix ELSE "invalid"

\* assertRoutableAddress throws for every letter but G and M.
TSRoutable(d) == d.prefix \in {"G", "M"}

\* Mutant: the memo is asked before the muxed address.
TSExtractMemoFirst(i) ==
  LET d == i.destination
  IN  IF ~TSRoutable(d) THEN Nowhere
      ELSE CASE TSParse(d) = "G" -> FromMemo({d.account}, TSMemoId(i))
             [] TSParse(d) = "M" ->
                  IF TSMemoId(i) # NoId THEN FromMemo({d.account}, TSMemoId(i))
                  ELSE Result({d.account}, Number(d.id), "muxed")
             [] OTHER -> Nowhere

TSExtract(i) ==
  LET d == i.destination
  IN  IF ~TSRoutable(d) THEN Nowhere
      ELSE CASE TSParse(d) = "M" -> Result({d.account}, Number(d.id), "muxed")
             [] TSParse(d) = "G" -> FromMemo({d.account}, TSMemoId(i))
             [] OTHER -> Nowhere

-----------------------------------------------------------------------------
\* NormalizeMemoTextID of memo.go
GoNumeric(s) == Numeric(s)

GoMemoId(i) ==
  LET s == i.memoValue
  IN  CASE Is(i, {"id"}) -> IF GoNumeric(s) THEN Number(s.number) ELSE NoId
        [] Is(i, {"text"}) /\ s.length > 0 ->
             IF GoNumeric(s) THEN Number(s.number)
             ELSE IF s.length <= MaxText THEN Text(s) ELSE NoId
        [] Is(i, {"hash", "return"}) /\ s.length > 0 -> IF s.hex64 THEN Hash(s) ELSE NoId
        [] OTHER -> NoId

\* DecodeStrKey knows the kind by the version byte and asks no length of it.
GoDetect(d) == IF d.checked /\ d.exact THEN d.prefix ELSE "invalid"

\* Parse asks for the length of a muxed address only.
GoParse(d) == IF GoDetect(d) = "M" /\ ~d.whole THEN "invalid" ELSE GoDetect(d)

\* A contract as the source ends the call, whatever the destination is.
GoExtract(i) ==
  LET d == i.destination
  IN  IF \E a \in i.sourceAccount : GoParse(a) = "C" THEN Nowhere
      ELSE CASE GoParse(d) = "M" -> Result({d.account}, Number(d.id), "muxed")
             [] GoParse(d) = "G" -> FromMemo({d.account}, GoMemoId(i))
             [] OTHER -> Nowhere

-----------------------------------------------------------------------------
\* normalizeMemoId and normalizeMemoTextId of memo.dart
DartNumeric(s) == Numeric(s)

\* Only numbers are ids for core-dart.
DartMemoId(i) ==
  IF Is(i, {"id", "text"}) /\ DartNumeric(i.memoValue) THEN Number(i.memoValue.number) ELSE NoId

\* detect of core-dart drops padding and spare bits.
DartDetect(d) == IF d.checked /\ d.whole THEN d.prefix ELSE "invalid"

\* A memo of any type displaces the id of a muxed address.
DartExtract(i) ==
  LET d == i.destination
  IN  IF d.prefix = "other" \/ \E a \in i.sourceAccount : DartDetect(a) = "C" THEN Nowhere
      ELSE IF DartDetect(d) = "M" /\ Is(i, {"none"})
           THEN Result({d.account}, Number(d.id), "muxed")
      ELSE IF DartDetect(d) \in {"G", "M"} THEN FromMemo({d.account}, DartMemoId(i))
      ELSE Nowhere

-----------------------------------------------------------------------------
RoutingInit == routed = {}

\* One call of each library; it depends on nothing but its input.
Extract(i) == routed' = {i}

RoutingNext == routed = {} /\ \E i \in RoutingInput : Extract(i)

RoutingSpec == RoutingInit /\ [][RoutingNext]_routingVars

RoutingTypeOK == \A i \in routed : i \in RoutingInput

\* What a payment asks for ("M-address identifiers take precedence over any
\* provided memo"): the id in the address, or else the one in the memo.
Policy(i) ==
  LET d == i.destination
      s == i.memoValue
      id == IF d.prefix = "M" THEN Number(d.id)
            ELSE IF Is(i, {"id", "text"}) /\ Numeric(s) THEN Number(s.number)
            ELSE IF Is(i, {"text"}) /\ s.length \in 1 .. MaxText THEN Text(s)
            ELSE IF Is(i, {"hash", "return"}) /\ s.hex64 THEN Hash(s)
            ELSE NoId
  IN  IF d.prefix \notin {"G", "M"} \/ ~(d.checked /\ d.whole /\ d.exact) THEN Nowhere
      ELSE Result({d.account}, id,
                  IF id = NoId THEN "none" ELSE IF d.prefix = "M" THEN "muxed" ELSE "memo")

FromContract(i) == \E a \in i.sourceAccount : a.prefix = "C" /\ a.checked
NoLengthAsked(i) == i.destination.prefix = "G" /\ ~i.destination.whole
SpareBits(i) == ~i.destination.exact
MuxedWithMemo(i) == i.destination.prefix = "M" /\ ~Is(i, {"none"})
WordAsId(i) == Policy(i).id.form \in {"text", "hash"}

\* The three libraries send every payment to the same account and id, with the
\* differences they have now: Go takes a G address of a wrong length, Go and Dart
\* clear a payment that comes from a contract, and Dart takes addresses with
\* spare bits, knows only numbers as ids, and lets a memo displace the id of a
\* muxed address, against its own comment.
LibrariesAgree ==
  \A i \in routed :
    /\ TSExtract(i) = Policy(i)
    /\ GoExtract(i) # Policy(i) => FromContract(i) \/ NoLengthAsked(i)
    /\ DartExtract(i) # Policy(i) =>
         FromContract(i) \/ SpareBits(i) \/ MuxedWithMemo(i) \/ WordAsId(i)

=============================================================================
