------------------------- MODULE MCEntryExtraction -------------------------
(***************************************************************************)
(* Small archives: up to two folders of up to two members, a folder        *)
(* without members between them, known and unknown sizes (also where they  *)
(* are unsupported), CRCs that agree or not, and empty files, anti-items   *)
(* and directories between the streamed entries.                           *)
(***************************************************************************)
EXTENDS EntryExtraction

Solid(root, actual, mismatch, substreams) ==
    [root |-> root, actual |-> actual, crc_mismatch |-> mismatch,
     encrypted |-> FALSE, substreams |-> substreams]

Stream(size, crc) == [size |-> size, crc |-> crc]

Crcs == {"Same", "Other"}

\* Folders with their substreams: sizes exact, short, unknown at the end, or
\* unknown before the end.
OneMember ==
    {Solid(r, 3, m, <<Stream(r, c)>>) : r \in {3, Unknown}, m \in BOOLEAN, c \in Crcs}
    \cup {Solid(0, 0, FALSE, <<Stream(0, "None")>>),
          [Solid(3, 3, FALSE, <<Stream(3, "Other")>>) EXCEPT !.encrypted = TRUE]}

TwoMembers ==
    {Solid(4, 4, m, <<Stream(1, c), Stream(3, d)>>) : m \in BOOLEAN, c, d \in Crcs}
    \cup {Solid(Unknown, n, FALSE, <<Stream(2, "None"), Stream(Unknown, "Same")>>)
            : n \in {1, 2, 4, 5, 6}}
    \cup {Solid(4, 4, FALSE, <<Stream(Unknown, "Same"), Stream(Unknown, "Same")>>),
          Solid(2, 2, FALSE, <<Stream(0, "Same"), Stream(2, "Same")>>),
          Solid(4, 4, FALSE, <<Stream(4, "Same"), Stream(0, "Same")>>),
          Solid(4, 4, FALSE, <<Stream(1, "Same"), Stream(2, "Same")>>),
          Solid(Unknown, 3, FALSE, <<Stream(1, "Same"), Stream(2, "Same")>>),
          [Solid(4, 4, TRUE, <<Stream(1, "Same"), Stream(3, "None")>>) EXCEPT !.encrypted = TRUE]}

NoMember == Solid(2, 2, FALSE, <<>>)

File(f, s)  == [kind |-> "file", folder |-> f, substream |-> s]
Other(kind) == [kind |-> kind, folder |-> 0, substream |-> 0]

MCArchives ==
    {[additional |-> <<>>, folders |-> <<f>>, entries |-> <<Other("directory"), File(1, 1), Other("empty")>>]
        : f \in OneMember}
    \cup {[additional |-> <<>>, folders |-> <<f, NoMember, g>>,
           entries |-> <<File(1, 1), Other("anti"), File(1, 2), Other("empty"), File(3, 1)>>]
            : f \in TwoMembers, g \in OneMember}
    \cup {[additional |-> <<>>, folders |-> <<g, f>>,
           entries |-> <<Other("empty"), File(1, 1), File(2, 1), File(2, 2)>>]
            : f \in TwoMembers, g \in OneMember}
=============================================================================
