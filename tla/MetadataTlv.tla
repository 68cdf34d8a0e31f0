----------------------------- MODULE MetadataTlv -----------------------------
(***************************************************************************)
(* The encoding of object metadata (shardedobjstr/src/tlv.rs): a field is  *)
(* a tag and a value, with a table of common values.  encode_metadata      *)
(* writes the fields one by one, decode_metadata reads what it is given,   *)
(* which set_meta_len or a damaged sidecar may have cut short.  A byte is  *)
(* a number below 2 * LookupBit; a length is two bytes, low one first.     *)
(***************************************************************************)
EXTENDS Integers, Sequences, SequencesExt

CONSTANTS
    FieldOrder,     \* the field names in their sorted order
    Tag,            \* the tag of a well-known field
    Suffix,         \* what follows x-amz-meta- in a custom field
    FieldValues,    \* the values a field may have, as sequences of bytes
    Table,          \* the table of values of each well-known field
    LookupBit,      \* LOOKUP_BIT, and the tag of custom fields
    MaxFieldLen     \* MAX_FIELD_LEN

VARIABLES
    headers,    \* the metadata map: the values of some fields
    encoder,    \* what is left to encode, and the bytes
    decoder     \* what is given, the place in it, the map

tlvVars == <<headers, encoder, decoder>>

FieldNames == Range(FieldOrder)
Known == DOMAIN Tag
Custom == DOMAIN Suffix

\* Every well-known field has its own tag, between 0 and the bit that marks a
\* value of the table; a name is well-known or custom, and a custom one is told
\* by its suffix; the longest value has a length of two bytes.
ASSUME TlvAssumption ==
    /\ LookupBit \in Nat \ {0} /\ FieldOrder \in Seq(FieldNames)
    /\ Tag \in [Known -> 1..(LookupBit - 1)] /\ \A f, g \in Known : Tag[f] = Tag[g] => f = g
    /\ Suffix \in [Custom -> Seq(Nat)] /\ \A f, g \in Custom : Suffix[f] = Suffix[g] => f = g
    /\ Known \cap Custom = {}
    /\ \A f \in FieldNames : FieldValues[f] \subseteq Seq(Nat)
    /\ \A f \in Known : Table[f] \in Seq(Seq(Nat))
    /\ MaxFieldLen \in 0..((2 * LookupBit) * (2 * LookupBit) - 1)

Idle == [data |-> <<>>, pos |-> 0, map |-> <<>>, on |-> FALSE]

\* The fields that have an encoding.
Kept(m) == [f \in DOMAIN m \cap (Known \cup Custom) |-> m[f]]

TlvInit ==
    /\ \E fs \in SUBSET FieldNames : \E hs \in [fs -> UNION {FieldValues[f] : f \in fs}] :
          headers = hs /\ \A f \in fs : hs[f] \in FieldValues[f]
    /\ encoder = [left |-> DOMAIN headers, bytes |-> <<>>, ok |-> TRUE]
    /\ decoder = Idle

----------------------------------------------------------------------------
ByteSize == 2 * LookupBit
Length(n) == <<n % ByteSize, (n \div ByteSize) % ByteSize>>
Counted(v) == Length(Len(v)) \o v

\* value_lookup
Lookup(f, v) == {i \in 1..Len(Table[f]) : Table[f][i] = v}

\* Mutant of Looked: the bit marks the byte after the tag, where the length of
\* another value may begin.
LookedByIndex(f, v) == <<Tag[f], LookupBit + (CHOOSE i \in Lookup(f, v) : TRUE) - 1>>

\* A value of the table: the marked tag and the index.
Looked(f, v) == <<Tag[f] + LookupBit, (CHOOSE i \in Lookup(f, v) : TRUE) - 1>>

TooLong(f, v) == Len(v) > MaxFieldLen \/ (f \in Custom /\ Len(Suffix[f]) > MaxFieldLen)

\* The next of the names that are left, in their sorted order.
NextField(fs) ==
    FieldOrder[CHOOSE i \in 1..Len(FieldOrder) : FieldOrder[i] \in fs /\ \A j \in 1..(i - 1) : FieldOrder[j] \notin fs]

\* One turn of encode_metadata.  Other names are left out without a word.
EncodeField ==
    /\ encoder.ok /\ encoder.left # {}
    /\ LET f == NextField(encoder.left)
           v == headers[f]
           table == f \in Known /\ Lookup(f, v) # {}
       IN  encoder' =
             CASE f \in FieldNames \ (Known \cup Custom) -> [encoder EXCEPT !.left = @ \ {f}]
               [] f \in Known /\ table -> [encoder EXCEPT !.left = @ \ {f}, !.bytes = @ \o Looked(f, v)]
               [] ~table /\ f \in Known \cup Custom /\ TooLong(f, v) -> [encoder EXCEPT !.ok = FALSE]
               [] OTHER -> [encoder EXCEPT !.left = @ \ {f},
                              !.bytes = @ \o (IF f \in Known THEN <<Tag[f]>> \o Counted(v)
                                              ELSE <<LookupBit>> \o Counted(Suffix[f]) \o Counted(v))]
    /\ UNCHANGED <<headers, decoder>>

\* decode_metadata is called with the bytes, or with the first n of them.
BeginDecode(n) ==
    /\ encoder.ok /\ encoder.left = {} /\ n <= Len(encoder.bytes)
    /\ decoder' = [data |-> SubSeq(encoder.bytes, 1, n), pos |-> 0, map |-> <<>>, on |-> TRUE]
    /\ UNCHANGED <<headers, encoder>>

\* A counted value at a place, as the bytes and the place behind them; NoValue
\* when the data ends before.
NoValue == [value |-> <<>>, next |-> -1]
CountedAt(d, p) ==
    IF p + 2 > Len(d) THEN NoValue
    ELSE LET n == d[p + 1] + ByteSize * d[p + 2]
         IN  IF p + 2 + n > Len(d) THEN NoValue
             ELSE [value |-> SubSeq(d, p + 3, p + 2 + n), next |-> p + 2 + n]

\* What one entry at place p means: the field, its value and the place behind
\* it.  An index outside the table and a tag without a name give no field.
Entry(d, p) ==
    LET tag == d[p + 1]
        Of(t, v, next) == [fields |-> {f \in Known : Tag[f] = t}, value |-> v, next |-> next]
    IN  CASE tag = LookupBit ->
               LET s == CountedAt(d, p + 1)
                   v == IF s = NoValue THEN NoValue ELSE CountedAt(d, s.next)
               IN  [fields |-> {f \in Custom : Suffix[f] = s.value}, value |-> v.value, next |-> v.next]
          [] tag > LookupBit ->
               IF p + 1 >= Len(d) THEN Of(0, <<>>, -1)
               ELSE LET t == tag - LookupBit
                        i == d[p + 2] + 1
                        f == {g \in Known : Tag[g] = t /\ i <= Len(Table[g])}
                    IN  [fields |-> f, value |-> IF f = {} THEN <<>> ELSE Table[CHOOSE g \in f : TRUE][i], next |-> p + 2]
          [] OTHER -> LET v == CountedAt(d, p + 1) IN Of(tag, v.value, v.next)

\* One turn of decode_metadata; an entry that is cut off ends it.
DecodeEntry ==
    /\ decoder.on /\ decoder.pos < Len(decoder.data)
    /\ LET e == Entry(decoder.data, decoder.pos)
       IN  decoder' = IF e.next < 0 THEN [decoder EXCEPT !.pos = Len(decoder.data), !.on = FALSE]
                      ELSE [decoder EXCEPT !.pos = e.next,
                              !.map = [f \in DOMAIN decoder.map \cup e.fields |->
                                        IF f \in e.fields THEN e.value ELSE decoder.map[f]]]
    /\ UNCHANGED <<headers, encoder>>

TlvNext ==
    \/ EncodeField \/ DecodeEntry
    \/ ~decoder.on /\ decoder = Idle /\ \E n \in 0..Len(encoder.bytes) : BeginDecode(n)

TlvSpec == TlvInit /\ [][TlvNext]_tlvVars

----------------------------------------------------------------------------
\* Decoding all bytes gives the metadata back, without the names that have no
\* encoding; decoding a part of them gives a part of it, and never a field or
\* a value that was not there (tlv.rs:11).
DecodeInverts ==
    /\ DOMAIN decoder.map \subseteq DOMAIN Kept(headers)
    /\ \A f \in DOMAIN decoder.map : decoder.map[f] = headers[f]
    /\ decoder.on /\ decoder.data = encoder.bytes /\ decoder.pos = Len(decoder.data) =>
          decoder.map = Kept(headers)
=============================================================================
