-------------------------- MODULE RoaringFormats ---------------------------
(* The binary formats of bitmaps: the portable and the frozen format of      *)
(* CRoaring (src/roaring-node.cpp), and the formats the addon builds on them *)
(* (src/src/cpp/serialization.h).  Bytes are abstracted to the fields they   *)
(* make up; what a reader has to infer is kept: a container does not say     *)
(* what it is, its cardinality is stored in 16 bits less one, and where it   *)
(* begins follows from the sizes of those before it or from a table.         *)
EXTENDS RoaringQueries

CONSTANT MAX_SERIALIZATION_ARRAY_SIZE_IN_BYTES \* a longer array of values is not written (0x00FFFFFF)

ASSUME FormatAssumption == MAX_SERIALIZATION_ARRAY_SIZE_IN_BYTES \in Nat

SortedKeys(bm) == Ascending(DOMAIN bm)
Containers(bm) == [i \in 1 .. Cardinality(DOMAIN bm) |-> bm[SortedKeys(bm)[i]]]
SumOf(f, n) == SumFunction([i \in 1 .. n |-> f[i]])

---------------------------------------------------------------------------
(* The portable format. *)

(* What is written of a container, and where: the content, untyped. *)
container_write(c) ==
    CASE c.type = "bitset" -> [unit |-> "words", content |-> c.values]
      [] c.type = "array"  -> [unit |-> "values", content |-> c.values]
      [] c.type = "run"    -> [unit |-> "runs", content |-> c.runs]

ra_portable_serialize(bm) ==
    LET cs == Containers(bm)
        size == Len(cs)
        hasrun == HasRuns(bm)
        sizes == [i \in 1 .. size |-> container_size_in_bytes(cs[i])]
        flagBytes == (size + 7) \div 8
        startOffset == CASE hasrun /\ size < NO_OFFSET_THRESHOLD  -> 4 + 4 * size + flagBytes
                         [] hasrun /\ size >= NO_OFFSET_THRESHOLD -> 4 + 8 * size + flagBytes
                         [] ~hasrun -> 4 + 4 + 4 * size + 4 * size
        offsets == IF ~hasrun \/ size >= NO_OFFSET_THRESHOLD
                   THEN [i \in 1 .. size |-> startOffset + SumOf(sizes, i - 1)]
                   ELSE <<>>
        header == 4 + (IF hasrun THEN flagBytes ELSE 4) + 4 * size + 4 * Len(offsets)
    IN  [cookie |-> IF hasrun THEN "SERIAL_COOKIE" ELSE "SERIAL_COOKIE_NO_RUNCONTAINER",
         size |-> size,
         run_flags |-> IF hasrun THEN {i \in 1 .. size : cs[i].type = "run"} ELSE {},
         keys |-> SortedKeys(bm),
         cards |-> [i \in 1 .. size |-> (container_get_cardinality(cs[i]) - 1) % ChunkSize],
         offsets |-> offsets,
         body |-> [at \in {header + SumOf(sizes, i - 1) : i \in 1 .. size} |->
                    container_write(cs[CHOOSE i \in 1 .. size : header + SumOf(sizes, i - 1) = at])],
         bytes |-> header + SumOf(sizes, size)]

(* Mutant: a container at the limit of an array is taken for a bitset. *)
StoredTypeAtLimit(img, i) ==
    CASE i \in img.run_flags -> "run"
      [] i \notin img.run_flags /\ img.cards[i] + 1 >= DEFAULT_MAX_SIZE -> "bitset"
      [] i \notin img.run_flags /\ img.cards[i] + 1 < DEFAULT_MAX_SIZE  -> "array"

(* What a reader takes container i for, and how many bytes it expects. *)
StoredType(img, i) ==
    CASE i \in img.run_flags -> "run"
      [] i \notin img.run_flags /\ img.cards[i] + 1 > DEFAULT_MAX_SIZE  -> "bitset"
      [] i \notin img.run_flags /\ img.cards[i] + 1 <= DEFAULT_MAX_SIZE -> "array"
Unit == [run |-> "runs", bitset |-> "words", array |-> "values"]

(* The container read at a position, NULL when something else is there. *)
ReadContainer(img, i, at) ==
    IF at \notin DOMAIN img.body \/ img.body[at].unit # Unit[StoredType(img, i)]
    THEN NULL
    ELSE CASE StoredType(img, i) = "run"    -> Run(img.body[at].content)
           [] StoredType(img, i) = "bitset" -> Bitset(img.body[at].content, img.cards[i] + 1)
           [] StoredType(img, i) = "array"  -> Array(img.body[at].content)
StoredSize(img, i, at) ==
    CASE StoredType(img, i) = "bitset" -> bitset_container_serialized_size_in_bytes
      [] StoredType(img, i) = "array"  -> array_container_serialized_size_in_bytes(img.cards[i] + 1)
      [] StoredType(img, i) = "run"    -> run_container_serialized_size_in_bytes(Cardinality(img.body[at].content))

(* The containers follow each other; f[i] is where container i begins. *)
StartOfContainers(img) ==
    LET hasrun == img.cookie = "SERIAL_COOKIE"
    IN  4 + (IF hasrun THEN (img.size + 7) \div 8 ELSE 4) + 4 * img.size +
            (IF ~hasrun \/ img.size >= NO_OFFSET_THRESHOLD THEN 4 * img.size ELSE 0)
Positions(img) ==
    LET at[i \in 1 .. img.size + 1] ==
            IF i = 1 THEN StartOfContainers(img)
            ELSE IF at[i - 1] \notin DOMAIN img.body THEN 0
            ELSE at[i - 1] + StoredSize(img, i - 1, at[i - 1])
    IN  at

FromContainers(keys, cs) == [k \in ToSet(keys) |-> cs[CHOOSE i \in DOMAIN keys : keys[i] = k]]

(* A reader gives the set of the bitmap it read, and the empty set for an     *)
(* error.  Nothing is read beyond maxbytes.                                  *)
ra_portable_deserialize(img, maxbytes) ==
    LET at == Positions(img)
    IN  IF at[img.size + 1] > maxbytes
        THEN {}
        ELSE {FromContainers(img.keys, [i \in 1 .. img.size |-> ReadContainer(img, i, at[i])])}

(* A frozen bitmap points into the data, through the table if there is one. *)
roaring_bitmap_portable_deserialize_frozen(img) ==
    LET at == Positions(img)
        offset(i) == IF img.cookie = "SERIAL_COOKIE_NO_RUNCONTAINER" \/ img.size >= NO_OFFSET_THRESHOLD
                     THEN img.offsets[i] ELSE at[i]
    IN  {FromContainers(img.keys, [i \in 1 .. img.size |-> ReadContainer(img, i, offset(i))])}

---------------------------------------------------------------------------
(* The frozen format: a zone for each type of container, then the keys, the  *)
(* counts and the types.                                                     *)

FrozenSize(bitsets, runs, values, size) ==
    bitset_container_serialized_size_in_bytes * bitsets + RunBytes * runs + ValueBytes * values + 5 * size + 4

roaring_bitmap_frozen_size_in_bytes(bm) ==
    LET of(type) == {k \in DOMAIN bm : bm[k].type = type}
    IN  FrozenSize(Cardinality(of("bitset")),
                   SumFunction([k \in of("run") |-> Cardinality(bm[k].runs)]),
                   SumFunction([k \in of("array") |-> Cardinality(bm[k].values)]),
                   Cardinality(DOMAIN bm))

FrozenCount(c) ==
    CASE c.type = "bitset" ->
            ((IF c.cardinality # BITSET_UNKNOWN_CARDINALITY THEN c.cardinality ELSE Cardinality(c.values)) - 1) % ChunkSize
      [] c.type = "array"  -> (Cardinality(c.values) - 1) % ChunkSize
      [] c.type = "run"    -> Cardinality(c.runs)
FrozenContent(c) ==
    CASE c.type = "bitset" -> <<c.values>>
      [] c.type = "array"  -> Ascending(c.values)
      [] c.type = "run"    -> SortedRuns(c.runs)
FrozenZone(cs, type) ==
    LET copied(zone, c) == IF c.type = type THEN zone \o FrozenContent(c) ELSE zone
    IN  Loop(copied, <<>>, cs)
roaring_bitmap_frozen_serialize(bm) ==
    LET cs == Containers(bm)
    IN  [bitset_zone |-> FrozenZone(cs, "bitset"),
         run_zone |-> FrozenZone(cs, "run"),
         array_zone |-> FrozenZone(cs, "array"),
         keys |-> SortedKeys(bm),
         counts |-> [i \in 1 .. Len(cs) |-> FrozenCount(cs[i])],
         typecodes |-> [i \in 1 .. Len(cs) |-> cs[i].type]]

(* The zones are walked once.  An error if the sizes do not add up to length. *)
roaring_bitmap_frozen_view(img, length) ==
    LET size == Len(img.keys)
        of(type, n) == {i \in 1 .. n : img.typecodes[i] = type}
        entries(i) == IF img.typecodes[i] = "run" THEN img.counts[i] ELSE img.counts[i] + 1
        used(type, n) == SumFunction([i \in of(type, n) |-> entries(i)])
        slice(zone, type, i) == ToSet(SubSeq(zone, used(type, i - 1) + 1, used(type, i)))
        view(i) == CASE img.typecodes[i] = "bitset" ->
                            Bitset(img.bitset_zone[Cardinality(of("bitset", i))], img.counts[i] + 1)
                     [] img.typecodes[i] = "run"   -> Run(slice(img.run_zone, "run", i))
                     [] img.typecodes[i] = "array" -> Array(slice(img.array_zone, "array", i))
    IN  IF length # FrozenSize(Cardinality(of("bitset", size)), used("run", size), used("array", size), size)
        THEN {}
        ELSE {FromContainers(img.keys, [i \in 1 .. size |-> view(i)])}

---------------------------------------------------------------------------
(* The formats of the addon.  A buffer is the format it was written in, its  *)
(* length and what is in it.                                                 *)

SerializationFormat == {"croaring", "portable", "unsafe_frozen_croaring", "uint32_array"}

SerializesArray(bm) ==
    LET sizeasarray == 4 * roaring_bitmap_get_cardinality(bm) + 4
    IN  ~(\/ roaring_bitmap_portable_size_in_bytes(bm) < sizeasarray
          \/ sizeasarray >= MAX_SERIALIZATION_ARRAY_SIZE_IN_BYTES - 1)

computeSerializedSize(bm, format) ==
    CASE format = "croaring" ->
            IF SerializesArray(bm)
            THEN 4 * roaring_bitmap_get_cardinality(bm) + 4 + 1
            ELSE roaring_bitmap_portable_size_in_bytes(bm) + 1
      [] format = "portable" -> roaring_bitmap_portable_size_in_bytes(bm)
      [] format = "unsafe_frozen_croaring" -> roaring_bitmap_frozen_size_in_bytes(bm)
      [] format = "uint32_array" -> 4 * roaring_bitmap_get_cardinality(bm)

serializeToBuffer(bm, format) ==
    CASE format = "croaring" ->
            IF SerializesArray(bm)
            THEN [tag |-> "CROARING_SERIALIZATION_ARRAY_UINT32",
                  card |-> roaring_bitmap_get_cardinality(bm),
                  elems |-> roaring_bitmap_to_uint32_array(bm)]
            ELSE [tag |-> "CROARING_SERIALIZATION_CONTAINER", portable |-> ra_portable_serialize(bm)]
      [] format = "portable" -> ra_portable_serialize(bm)
      [] format = "unsafe_frozen_croaring" -> roaring_bitmap_frozen_serialize(bm)
      [] format = "uint32_array" -> roaring_bitmap_to_uint32_array(bm)

(* Reads bufLen bytes in a format. *)
deserializeBuf(buf, bufLen, format) ==
    CASE bufLen = 0 -> {Empty}
      [] bufLen > 0 /\ format = "portable" -> ra_portable_deserialize(buf, bufLen)
      [] bufLen > 0 /\ format = "unsafe_frozen_portable" -> roaring_bitmap_portable_deserialize_frozen(buf)
      [] bufLen > 0 /\ format = "unsafe_frozen_croaring" -> roaring_bitmap_frozen_view(buf, bufLen)
      [] bufLen > 0 /\ format = "uint32_array" ->
            IF bufLen % 4 # 0 THEN {} ELSE {roaring_bitmap_add_many(Empty, SubSeq(buf, 1, bufLen \div 4))}
      [] bufLen > 0 /\ format = "croaring" ->
            IF buf.tag = "CROARING_SERIALIZATION_CONTAINER"
            THEN ra_portable_deserialize(buf.portable, bufLen - 1)
            ELSE IF 4 * buf.card + 4 + 1 # bufLen THEN {} ELSE {roaring_bitmap_add_many(Empty, buf.elems)}
============================================================================
