------------------------------ MODULE Deflate64 ------------------------------
(***************************************************************************)
(* decode_deflate64 of deflate64.rs: one step per block header, stored     *)
(* block, pair of dynamic trees and symbol.  The alphabets are scaled with *)
(* the byte: 16 literals, the end of a block, five lengths and two         *)
(* reserved symbols.  The last length has, as in Deflate64, the base of    *)
(* the first and bits enough for any length; the distances are the first   *)
(* eight of the code's and reach as far as the dictionary.                 *)
(***************************************************************************)
EXTENDS LzmaStreams

DEFLATE64_DICTIONARY_BYTES == Byte
MAX_CODE_BITS     == 7
CODE_LENGTH_ORDER == <<8, 9, 10, 0, 4, 3, 5, 2, 6, 1, 7>>
LENGTH_BASE       == <<3, 4, 5, 7, 3>>
LENGTH_EXTRA      == <<0, 0, 1, 1, 4>>
DISTANCE_BASE     == <<1, 2, 3, 4, 5, 7, 9, 13>>
DISTANCE_EXTRA    == <<0, 0, 0, 0, 1, 1, 2, 2>>

EndOfBlock     == Byte                      \* 256
MAX_LITERALS   == Byte + 1 + Len(LENGTH_BASE) \* 286
RepeatPrevious == MAX_CODE_BITS + 1         \* 16, 17 and 18 of the code lengths
ShortZeros     == MAX_CODE_BITS + 2
LongZeros      == MAX_CODE_BITS + 3

VARIABLES
    reader,        \* BitReader
    final_block,
    trees          \* literal_tree and distance_tree of the block

deflateVars == <<reader, final_block, trees>>

BitReader(input) == [input |-> input, at |-> 0, buffer |-> 0, buffered |-> 0]

DeflateInit == reader = BitReader(<<>>) /\ final_block = FALSE /\ trees = <<>>

-----------------------------------------------------------------------------
\* BitReader::read_bits, the least bit first.  At most two bytes are missing.
Buffer(d) ==
    IF Failed(d) THEN d ELSE [d EXCEPT !.buffer = @ + d.byte * 2^d.buffered, !.buffered = @ + ByteBits]

Refill(d, n) ==
    FoldLeft(LAMBDA e, i : IF e.buffered < n THEN Buffer(ReadByte(e)) ELSE e, d, Upto(2))

TakeBits(d, n) ==
    IF Failed(d) THEN d
    ELSE [d EXCEPT !.value = d.buffer % 2^n, !.buffer = @ \div 2^n, !.buffered = @ - n]

ReadBits(d, n) == TakeBits(Refill(d, n), n)

AlignToByte(d) == [d EXCEPT !.buffer = 0, !.buffered = 0]

HasTrailingBytes(d) == d.at # Len(d.input)

-----------------------------------------------------------------------------
(***************************************************************************)
(* Huffman.  lengths[s + 1] is the length of symbol s's code, zero if it   *)
(* has none; symbols lists those that have one by length, then by symbol.  *)
(***************************************************************************)
OfLength(lengths, n) == SelectSeq([s \in DOMAIN lengths |-> s - 1], LAMBDA s : lengths[s + 1] = n)

Huffman(lengths) ==
    [counts  |-> [n \in 1..MAX_CODE_BITS |-> Len(OfLength(lengths, n))],
     symbols |-> FlattenSeq([n \in 1..MAX_CODE_BITS |-> OfLength(lengths, n)])]

Oversubscribed(tree) == FoldLeft(LAMBDA free, n : 2 * free - tree.counts[n], 1, Upto(MAX_CODE_BITS)) < 0

\* from_lengths, but for the tree itself.
Accepted(d, tree, allow_empty) ==
    Require(d, (allow_empty \/ tree.symbols # <<>>) /\ ~Oversubscribed(tree))

\* Huffman::decode: after each bit the code is compared with those of its length.
Walked(d, tree, n) ==
    LET code == 2 * d.code + d.value
        end  == d.first + tree.counts[n]
    IN  IF Failed(d) THEN d
        ELSE IF code < end
        THEN [d EXCEPT !.found = TRUE, !.symbol = tree.symbols[d.index + code - d.first + 1]]
        ELSE [d EXCEPT !.code = code, !.first = 2 * end, !.index = @ + tree.counts[n]]

Decoded(d) == Require(d, d.found)

HuffmanDecode(d, tree) ==
    Decoded(FoldLeft(LAMBDA e, n : IF e.found THEN e ELSE Walked(ReadBits(e, 1), tree, n),
                     [d EXCEPT !.code = 0, !.first = 0, !.index = 0, !.found = FALSE], Upto(MAX_CODE_BITS)))

-----------------------------------------------------------------------------
\* 144 literals of eight bits, 112 of nine, 24 symbols of seven and 8 of eight.
FixedTrees ==
    [literal  |-> Huffman([s \in 1..24 |-> IF s <= 8 THEN 5 ELSE IF s <= 16 THEN 6 ELSE IF s <= 20 THEN 3 ELSE 5]),
     distance |-> Huffman([s \in 1..8 |-> 3])]

(***************************************************************************)
(* dynamic_trees: the counts, the lengths of the code-length codes, and    *)
(* with their tree the lengths of both alphabets in one run d.lengths.     *)
(***************************************************************************)
DynamicCounts(d) ==
    LET Literals(e)    == [e EXCEPT !.literals = e.value + Byte + 1]
        Distances(e)   == [e EXCEPT !.distances = e.value + 1]
        Codes(e)       == [e EXCEPT !.codes = e.value + 4]
        Checked(e)     == Require(e, e.literals <= MAX_LITERALS)
    IN  Checked(Codes(ReadBits(Distances(ReadBits(Literals(ReadBits(d, 3)), 3)), 3)))

CodeLengths(d) ==
    LET Put(e, i) == [e EXCEPT !.lengths[CODE_LENGTH_ORDER[i] + 1] = e.value]
    IN  FoldLeft(LAMBDA e, i : Put(ReadBits(e, 3), i),
                 [d EXCEPT !.lengths = [i \in 1..Len(CODE_LENGTH_ORDER) |-> 0]],
                 Upto(IF Failed(d) THEN 0 ELSE d.codes))

Total(d) == d.literals + d.distances

\* n more of the same length, if the table has room for them.
Filled(d, length, n) ==
    IF Failed(d) \/ Len(d.lengths) + n > Total(d) THEN Faulted(d, "Format")
    ELSE [d EXCEPT !.lengths = @ \o [i \in 1..n |-> length]]

Repeated(d, length, base) == Filled(d, length, base + d.value)

PutLength(d) ==
    CASE Failed(d) -> d
      [] ~Failed(d) /\ d.symbol <= MAX_CODE_BITS -> Filled(d, d.symbol, 1)
      [] ~Failed(d) /\ d.symbol = RepeatPrevious ->
            IF d.lengths = <<>> THEN Faulted(d, "Format")
            ELSE Repeated(ReadBits(d, 2), Last(d.lengths), 3)
      [] ~Failed(d) /\ d.symbol = ShortZeros -> Repeated(ReadBits(d, 3), 0, 3)
      [] ~Failed(d) /\ d.symbol = LongZeros  -> Repeated(ReadBits(d, 4), 0, 11)

AllLengths(d, tree) ==
    FoldLeft(LAMBDA e, i : IF Failed(e) \/ Len(e.lengths) = Total(e) THEN e ELSE PutLength(HuffmanDecode(e, tree)),
             [d EXCEPT !.lengths = <<>>], Upto(Total(d)))

TreesOf(d) ==
    IF Failed(d) THEN FixedTrees
    ELSE [literal  |-> Huffman(SubSeq(d.lengths, 1, d.literals)),
          distance |-> Huffman(SubSeq(d.lengths, d.literals + 1, Total(d)))]

\* An end-of-block code, a sound literal tree, a sound or empty distance tree.
SoundTrees(d, t) ==
    IF Failed(d) THEN d
    ELSE Accepted(Accepted(Require(d, d.lengths[EndOfBlock + 1] # 0), t.literal, FALSE), t.distance, TRUE)

WithCodeTree(d, tree) == AllLengths(Accepted(d, tree, FALSE), tree)
DynamicLengths(d) == IF Failed(d) THEN d ELSE WithCodeTree(d, Huffman(d.lengths))

-----------------------------------------------------------------------------
Reader == reader @@ Step @@ [symbol |-> 0, code |-> 0, first |-> 0, index |-> 0, found |-> FALSE,
                             literals |-> 0, distances |-> 0, codes |-> 0, lengths |-> <<>>, length |-> 0]

\* reserve_output: the declared size before the limit.
ReserveOutput(d, n) == EnsureAdditional(Require(d, job.expected = NoSize \/ Len(output) + n <= job.expected), n)

\* After the last block nothing is left of the input, and the size is right.
StreamEnd(d, size) == Require(d, ~final_block \/ (~HasTrailingBytes(d) /\ job.expected \in {NoSize, size}))
NextBlock == IF final_block THEN Finished ELSE Going("block")

Reading(d) == reader' = [f \in DOMAIN reader |-> d[f]]

StartDeflate64 ==
    /\ pc = "start" /\ job.method = "deflate64"
    /\ Settle(Admitted(IF DEFLATE64_DICTIONARY_BYTES > job.max_dictionary
                       THEN Faulted(Step, "LimitExceeded") ELSE Step), Going("block"))
    /\ reader' = BitReader(Input)
    /\ UNCHANGED <<output, final_block, trees>>

BlockHeader ==
    /\ pc = "block"
    /\ \E final \in {ReadBits(Spend(Reader, 1), 1)} :
       \E kind \in {ReadBits(final, 2)} :
           /\ Settle(Require(kind, kind.value # 3), Going(<<"stored", "symbols", "trees", "done">>[kind.value + 1]))
           /\ Reading(kind)
           /\ final_block' = (final.value = 1)
           /\ trees' = FixedTrees
    /\ UNCHANGED output

\* decode_stored_block: length, complement, bytes; a byte is charged twice.
StoredBytes(d) ==
    LET there == Len(d.input) - d.at
    IN  IF Failed(d) THEN d
        ELSE IF there < d.length THEN Faulted(SpendBy(d, 2 * there + 1, 1), "Format")
        ELSE Advanced(SpendBy(d, 2 * d.length, 1), d.length)

StoredBlock ==
    /\ pc = "stored"
    /\ \E size \in {ReadBits(AlignToByte(Reader), 2 * ByteBits)} :
       \E complement \in {ReadBits([size EXCEPT !.length = size.value], 2 * ByteBits)} :
       \E room \in {ReserveOutput(Require(complement, size.value + complement.value = Byte^2 - 1), size.value)} :
       \E d \in {StreamEnd(StoredBytes(room), Len(output) + room.length)} :
           /\ Settle(d, NextBlock)
           /\ Reading(d)
           /\ output' = IF Failed(d) THEN output ELSE output \o SubSeq(Input, room.at + 1, d.at)
    /\ UNCHANGED <<final_block, trees>>

DynamicTrees ==
    /\ pc = "trees"
    /\ \E d \in {DynamicLengths(CodeLengths(DynamicCounts(Reader)))} :
       \E t \in {TreesOf(d)} :
           /\ Settle(SoundTrees(d, t), Going("symbols"))
           /\ Reading(d)
           /\ trees' = t
    /\ UNCHANGED <<output, final_block>>

(***************************************************************************)
(* decode_compressed_block: one symbol, and for a length its distance.     *)
(***************************************************************************)
Symbol == HuffmanDecode(Spend(Reader, 1), trees.literal)

DecodeLiteralSymbol ==
    /\ pc = "symbols"
    /\ \E s \in {Symbol} :
           /\ Failed(s) \/ s.symbol < EndOfBlock
           /\ \E d \in {Spend(ReserveOutput(s, 1), 1)} :
                  /\ Settle(d, Going("symbols"))
                  /\ Reading(d)
                  /\ output' = IF Failed(d) THEN output ELSE Append(output, d.symbol)
    /\ UNCHANGED <<final_block, trees>>

EndBlock ==
    /\ pc = "symbols"
    /\ \E s \in {Symbol} :
           /\ ~Failed(s) /\ s.symbol = EndOfBlock
           /\ Settle(StreamEnd(s, Len(output)), NextBlock)
           /\ Reading(s)
    /\ UNCHANGED <<output, final_block, trees>>

MatchLength(d) ==
    LET k == d.symbol - EndOfBlock
        Sum(e) == [e EXCEPT !.length = LENGTH_BASE[k] + e.value]
    IN  Sum(ReadBits(d, LENGTH_EXTRA[k]))

MatchedDistance(d) ==
    LET k == d.symbol + 1
        Sum(e) == [e EXCEPT !.index = DISTANCE_BASE[k] + e.value]
    IN  IF Failed(d) THEN d ELSE Sum(ReadBits(d, DISTANCE_EXTRA[k]))

\* copy_match; no distance code exceeds the dictionary.
CopyHistory(d, distance) ==
    SpendBy(ReserveOutput(Require(d, distance <= Len(output)), d.length), d.length, 1)

DecodeMatchSymbol ==
    /\ pc = "symbols"
    /\ \E s \in {Symbol} :
           /\ ~Failed(s) /\ s.symbol > EndOfBlock /\ s.symbol < MAX_LITERALS
           /\ \E m \in {MatchedDistance(HuffmanDecode(MatchLength(s), trees.distance))} :
              \E d \in {CopyHistory(m, m.index)} :
                  /\ Settle(d, Going("symbols"))
                  /\ Reading(d)
                  /\ output' = IF Failed(d) THEN output ELSE Copied(output, d.index, d.length)
    /\ UNCHANGED <<final_block, trees>>

ReservedSymbol ==
    /\ pc = "symbols"
    /\ \E s \in {Symbol} :
           /\ ~Failed(s) /\ s.symbol >= MAX_LITERALS
           /\ Settle(Faulted(s, "Format"), Finished)
           /\ Reading(s)
    /\ UNCHANGED <<output, final_block, trees>>

Deflate64Step == \/ StartDeflate64 \/ BlockHeader \/ StoredBlock \/ DynamicTrees
                 \/ DecodeLiteralSymbol \/ EndBlock \/ DecodeMatchSymbol \/ ReservedSymbol
=============================================================================
