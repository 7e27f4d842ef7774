--------------------------- MODULE MCArchiveOpen ---------------------------
(***************************************************************************)
(* Providers with complete, cut, oversized and faulty part sequences, over *)
(* archives that are plain, nested, external, encrypted or broken, at      *)
(* offset 0 or behind false signatures.                                    *)
(***************************************************************************)
EXTENDS ArchiveOpen

Layer(kind, sizes) ==
    [kind |-> kind, sizes |-> sizes, declared |-> TRUE, encrypted |-> FALSE,
     decode |-> "Ok", parse |-> "Ok"]

Plain == Layer("plain", <<>>)

LayerLists ==
    {<<Plain>>,
     <<Layer("plain", <<1, 1>>)>>,
     <<Layer("pending", <<2>>)>>,
     <<[Layer("pending", <<2>>) EXCEPT !.encrypted = TRUE, !.parse = "Format"]>>,
     <<Layer("encoded", <<1, 2>>), Layer("encoded", <<2>>), Layer("plain", <<1>>)>>,
     <<Layer("encoded", <<3>>), [Layer("encoded", <<2, 1>>) EXCEPT !.declared = FALSE], Plain>>,
     <<[Layer("encoded", <<4>>) EXCEPT !.declared = FALSE], Plain>>,
     <<Layer("encoded", <<2, 2>>), Plain>>,
     <<Layer("encoded", <<>>), Plain>>,
     <<Layer("encoded", <<1>>), Layer("encoded", <<1>>), Layer("encoded", <<1>>), Plain>>,
     <<[Layer("encoded", <<1>>) EXCEPT !.encrypted = TRUE, !.decode = "Checksum"], Plain>>,
     <<[Layer("encoded", <<1>>) EXCEPT !.encrypted = TRUE, !.decode = "PasswordRequired"], Plain>>}

\* An archive of six bytes at an offset: three of header, one packed, two of
\* next header.
Archive(offset) ==
    [offset |-> offset, start |-> "Ok", next_offset |-> 1, next_size |-> 2,
     next |-> "Ok", body |-> "Ok", layers |-> <<Plain>>]

Broken ==
    {[Archive(0) EXCEPT !.start = "Checksum"], [Archive(0) EXCEPT !.start = "Unsupported"],
     [Archive(0) EXCEPT !.next = "Checksum"], [Archive(0) EXCEPT !.body = "Format"],
     [Archive(0) EXCEPT !.next_size = 0, !.next = "Format"]}

\* Signatures before the real one: false checksum, a header too large, an end
\* beyond the bytes or beyond u64.
Decoys ==
    {[Archive(1) EXCEPT !.start = "Checksum"], [Archive(1) EXCEPT !.next_size = MaxHeader + 1],
     [Archive(1) EXCEPT !.next_offset = 5], [Archive(1) EXCEPT !.next_offset = U64Max],
     [Archive(1) EXCEPT !.body = "Unsupported"]}

Part1(n) == [length |-> n, data |-> n]
Parts(lengths) == [i \in DOMAIN lengths |-> Part1(lengths[i])]

Splits == {<<6>>, <<3, 3>>, <<2, 2, 2>>, <<2, 2>>, <<1>>, <<2>>, <<4>>, <<0, 6>>, <<>>}

Numbered(parts, candidates) ==
    [parts |-> parts, numbered |-> TRUE, candidates |-> candidates]

MCVolumeSets ==
    {Numbered(Parts(s), {Archive(0)}) : s \in Splits \cup {<<0>>, <<0, 0, 0>>, <<3, 3, 3>>, <<2, 2, 2, 1>>}}
    \cup {Numbered(Parts(<<4, 2>>), {[Archive(0) EXCEPT !.layers = l]}) : l \in LayerLists}
    \cup {Numbered(Parts(s), {c}) : s \in {<<6>>, <<4>>}, c \in Broken}
    \cup {Numbered(Parts(s), {c, Archive(2)}) : s \in {<<4, 4>>, <<5, 2>>}, c \in Decoys}
    \cup {Numbered(Parts(<<8>>), {Archive(2)}), Numbered(Parts(<<4, 4>>), {Archive(3)}),
          Numbered(Parts(<<5>>), {}), Numbered(<<[length |-> 3, data |-> 2]>>, {Archive(0)}),
          [Numbered(Parts(<<3, 3>>), {Archive(0)}) EXCEPT !.numbered = FALSE]}

MCBudgets == {UnlimitedBudget, BoundedBudget(5), BoundedBudget(11), BoundedBudget(16),
              [UnlimitedBudget EXCEPT !.consumed = U64Max - 5]}
=============================================================================
