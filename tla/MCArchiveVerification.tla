----------------------- MODULE MCArchiveVerification -----------------------
(***************************************************************************)
(* Small archives: none, one or two additional folders; main folders with  *)
(* and without members, of which sizes are exact, short, unknown or        *)
(* excessive and CRCs absent, right or wrong; outputs that only together   *)
(* exceed a limit.                                                         *)
(***************************************************************************)
EXTENDS ArchiveVerification

Solid(root, actual, mismatch, substreams) ==
    [root |-> root, actual |-> actual, crc_mismatch |-> mismatch,
     encrypted |-> FALSE, substreams |-> substreams]

Encrypted(f) == [f EXCEPT !.encrypted = TRUE]

Stream(size, crc) == [size |-> size, crc |-> crc]

Crcs == {"None", "Same", "Other"}

NoMember == {Solid(2, 2, m, <<>>) : m \in BOOLEAN} \cup {Solid(Unknown, 3, FALSE, <<>>)}

OneMember ==
    {Solid(r, 3, m, <<Stream(r, c)>>) : r \in {3, Unknown}, m \in BOOLEAN, c \in Crcs}
    \cup {Solid(Unknown, 4, FALSE, <<Stream(Unknown, "Same")>>),
          Solid(0, 0, FALSE, <<Stream(0, "Same")>>),
          Encrypted(Solid(3, 3, FALSE, <<Stream(3, "Other")>>)),
          Encrypted(Solid(3, 3, TRUE, <<Stream(3, "None")>>))}

TwoMembers ==
    {Solid(4, 4, FALSE, <<Stream(1, c), Stream(3, d)>>) : c, d \in Crcs}
    \cup {Solid(Unknown, n, FALSE, <<Stream(2, "Same"), Stream(Unknown, "Same")>>)
            : n \in {1, 2, 4, 6}}
    \cup {Solid(4, 4, FALSE, <<Stream(Unknown, "Same"), Stream(Unknown, "Same")>>),
          Solid(4, 4, FALSE, <<Stream(4, "Same"), Stream(0, "Same")>>),
          Solid(4, 4, FALSE, <<Stream(1, "Same"), Stream(2, "Same")>>),
          Solid(4, 4, TRUE, <<Stream(1, "Same"), Stream(3, "None")>>),
          Solid(4, 4, TRUE, <<Stream(1, "Same"), Stream(3, "Other")>>)}

File(f, s)  == [kind |-> "file", folder |-> f, substream |-> s]
Other(kind) == [kind |-> kind, folder |-> 0, substream |-> 0]

Whole(additional, folders, entries) ==
    [additional |-> additional, folders |-> folders, entries |-> entries]

External ==
    {<<>>, <<Solid(2, 2, FALSE, <<Stream(2, "Other")>>)>>,
     <<Solid(2, 2, TRUE, <<Stream(2, "Same")>>)>>,
     <<Solid(2, 2, FALSE, <<Stream(2, "Same")>>), Solid(1, 1, TRUE, <<Stream(1, "Other")>>)>>,
     <<Encrypted(Solid(2, 2, FALSE, <<Stream(2, "Other")>>))>>,
     <<Solid(2, 2, FALSE, <<Stream(1, "Same")>>)>>,
     <<Solid(1, 1, FALSE, <<>>)>>, <<Solid(0, 0, FALSE, <<>>)>>,
     <<Solid(Unknown, 1, FALSE, <<Stream(2, "Same"), Stream(Unknown, "None")>>)>>,
     <<Solid(2, 2, FALSE, <<Stream(Unknown, "Same"), Stream(Unknown, "Same")>>)>>,
     <<Solid(1, 1, FALSE, <<Stream(1, "Same")>>),
       Solid(Unknown, 1, FALSE, <<Stream(Unknown, "None")>>)>>,
     <<Solid(2, 2, FALSE, <<Stream(2, "Same")>>), Solid(2, 2, FALSE, <<Stream(2, "None")>>)>>}

MCArchives ==
    {Whole(x, <<>>, <<Other("directory"), Other("empty")>>) : x \in External}
    \cup {Whole(<<>>, <<g, n>>, <<Other("anti"), File(1, 1)>>)
            : g \in OneMember, n \in NoMember}
    \cup {Whole(x, <<f, n, g>>,
                <<File(1, 1), Other("anti"), File(1, 2), Other("empty"), File(3, 1)>>)
            : x \in {<<>>, <<Solid(1, 1, FALSE, <<Stream(1, "Same")>>)>>,
                     <<Solid(1, 1, FALSE, <<Stream(1, "Other")>>)>>},
              f \in TwoMembers, n \in NoMember,
              g \in {Solid(3, 3, FALSE, <<Stream(3, "Same")>>),
                     Solid(0, 0, TRUE, <<Stream(0, "None")>>),
                     Encrypted(Solid(0, 0, TRUE, <<Stream(0, "None")>>)),
                     Solid(Unknown, 1, FALSE, <<Stream(Unknown, "Other")>>)}}
=============================================================================
