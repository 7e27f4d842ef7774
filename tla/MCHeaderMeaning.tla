--------------------------- MODULE MCHeaderMeaning ---------------------------
\* Headers of up to four folders and five entries, and damaged copies of three.
EXTENDS HeaderMeaning

CONSTANT Damage   \* tokens put in place of others

\* Coder tokens: a copy, one with a dictionary, one with two inputs, one with
\* two outputs, and three that are refused.
Coder(inputs, outputs, dictionary, parse, properties) ==
    [inputs |-> inputs, outputs |-> outputs, dictionary |-> dictionary,
     parse |-> parse, properties |-> properties]

MCCoders == (101 :> Coder(1, 1, 0, "Ok", "Ok")) @@ (102 :> Coder(1, 1, 3, "Ok", "Ok"))
            @@ (103 :> Coder(2, 1, 0, "Ok", "Ok")) @@ (104 :> Coder(1, 2, 0, "Ok", "Ok"))
            @@ (105 :> Coder(1, 1, 0, "Unsupported", "Ok"))
            @@ (106 :> Coder(1, 1, 0, "Ok", "Format"))
            @@ (107 :> Coder(1, 1, 0, "Ok", "LimitExceeded"))

MCLimits == [depth |-> 1, files |-> 5, properties |-> 5, header |-> 120, streams |-> 8,
             coders_per_folder |-> 2, coders |-> 4, streams_per_folder |-> 4, folders |-> 3,
             substreams |-> 4, dictionary |-> 4, name_bytes |-> 4, total_name_bytes |-> 6]

\* The root of a folder of at most two coders: ports bound at most once, no
\* coder bound to itself, and packed inputs that are the unbound ones.
MCGraphRoot(f) ==
    LET Owner(port, count(_)) ==
            CHOOSE c \in DOMAIN f.coders :
               port < Total([k \in 1..c |-> count(CoderOf(f.coders[k]))])
               /\ port >= Total([k \in 1..(c - 1) |-> count(CoderOf(f.coders[k]))])
        ins   == Total(Map(LAMBDA c : CoderOf(c).inputs, f.coders))
        outs  == Total(Map(LAMBDA c : CoderOf(c).outputs, f.coders))
        bound == {f.binds[k][1] : k \in DOMAIN f.binds}
        from  == {f.binds[k][2] : k \in DOMAIN f.binds}
        free  == (0..(ins - 1)) \ bound
    IN  IF /\ Len(f.binds) = outs - 1
           /\ bound \subseteq 0..(ins - 1) /\ Cardinality(bound) = Len(f.binds)
           /\ from \subseteq 0..(outs - 1) /\ Cardinality(from) = Len(f.binds)
           /\ \A k \in DOMAIN f.binds :
                 Owner(f.binds[k][1], LAMBDA c : c.inputs) # Owner(f.binds[k][2], LAMBDA c : c.outputs)
           /\ Len(f.packed) > 1 => Range(f.packed) = free /\ Len(f.packed) = Cardinality(free)
        THEN 1 + CHOOSE o \in 0..(outs - 1) : o \notin from ELSE 0

-----------------------------------------------------------------------------
Members(sizes, crcs) == [k \in DOMAIN sizes |-> [size |-> sizes[k], crc |-> crcs[k]]]

Single(coder, size, crc, members) ==
    [coders |-> <<coder>>, binds |-> <<>>, packed |-> [k \in 1..CoderOf(coder).inputs |-> k - 1],
     sizes |-> <<size>>, crc |-> crc, members |-> members]

\* Coder 2 feeds coder 1.
Chain(first, second, sizes, crc, members) ==
    [coders |-> <<first, second>>, binds |-> <<<<0, 1>>>>, packed |-> <<1>>,
     sizes |-> sizes, crc |-> crc, members |-> members]

Looped == [Chain(101, 101, <<3, 3>>, NoCrc, Members(<<3>>, <<NoCrc>>)) EXCEPT !.binds = <<<<0, 0>>>>]

Packs(sizes) == [k \in DOMAIN sizes |-> [size |-> sizes[k], crc |-> IF sizes[k] = 2 THEN 8 ELSE NoCrc]]

At0(sizes, folders) == [position |-> 0, packs |-> Packs(sizes), folders |-> folders]

One(coder)  == Single(coder, 3, NoCrc, Members(<<3>>, <<6>>))
Inheriting  == Single(102, 4, 7, Members(<<4>>, <<7>>))
Pair        == Single(101, 4, 7, Members(<<1, 3>>, <<5, NoCrc>>))
Streaming   == Single(102, Unknown, NoCrc, Members(<<Unknown, Unknown>>, <<5, 6>>))
Partial     == Single(101, 4, NoCrc, Members(<<9, Unknown, Unknown>>, <<5, 6, 7>>))
Childless   == Single(101, 4, 7, <<>>)
Mixing      == Single(103, 5, NoCrc, Members(<<2, 3>>, <<NoCrc, 6>>))
Chained     == Chain(101, 102, <<3, 2>>, NoCrc, Members(<<3>>, <<6>>))

GoodMains ==
    {At0(<<>>, <<>>), At0(<<3>>, <<One(101)>>), At0(<<3>>, <<Inheriting>>), At0(<<3>>, <<Pair>>),
     At0(<<3>>, <<Streaming>>), At0(<<2>>, <<Partial>>), At0(<<2, 0, 2>>, <<Mixing, Inheriting>>),
     At0(<<2, 1, 2>>, <<Inheriting, Mixing>>), At0(<<2, 2>>, <<Chained, Childless>>),
     At0(<<1, 2>>, <<Pair, Inheriting>>)}

\* Beyond the data or the limits, refused coders and graphs, packed streams
\* that are too few or of unknown size.
BadMains ==
    {At0(<<9>>, <<One(101)>>), [At0(<<3>>, <<One(101)>>) EXCEPT !.position = 7],
     [At0(<<3>>, <<One(101)>>) EXCEPT !.position = U64Max], At0(<<U64Max>>, <<One(101)>>),
     At0(<<3>>, <<One(105)>>), At0(<<3>>, <<One(106)>>), At0(<<3>>, <<One(107)>>),
     At0(<<3>>, <<One(104)>>),
     At0(<<3>>, <<Looped>>), At0(<<3>>, <<Chain(102, 102, <<3, 2>>, NoCrc, <<>>)>>),
     At0(<<3>>, <<Mixing>>), At0(<<3, 1>>, <<One(101)>>),
     At0(<<1, 1, 1>>, <<Partial, Childless, Pair>>),
     At0(<<1, 1, 1, 1>>, <<Childless, Childless, Childless, Childless>>),
     At0(<<1, 1, 1>>, <<Chained, Chained, One(101)>>)}

NoValues == [id \in Range(ValueIds) |-> None]

File(name, time)  == [has_stream |-> TRUE, empty_file |-> FALSE, anti_item |-> FALSE, name |-> name,
                      values |-> [NoValues EXCEPT ![ID_MTIME] = time]]
Empty(name, anti) == [File(name, None) EXCEPT !.has_stream = FALSE, !.empty_file = ~anti,
                                              !.anti_item = anti]
Directory(name)   == [Empty(name, TRUE) EXCEPT !.anti_item = FALSE]

MemberCount(main) == Total(Map(LAMBDA f : Len(f.members), main.folders))

Named(k)  == Some(IF k = 1 THEN <<65>> ELSE IF k = 2 THEN <<>> ELSE <<66>>)
Timed(k)  == IF k % 2 = 1 THEN Some(30 + k) ELSE None
Plain(n)  == [k \in 1..n |-> File(Named(k), Timed(k))]

FilesFor(n) ==
    {None, Some(Plain(n)), Some([k \in 1..n |-> File(None, None)]),
     Some(<<Directory(Named(1)), Empty(Named(2), FALSE)>> \o Plain(n)),
     Some(Plain(n) \o <<Empty(Named(1), TRUE)>>), Some(Plain(n + 1)),
     Some(<<File(Some(<<65, 66, 67>>), None)>> \o Plain(n - 1)),
     Some([k \in 1..n |-> File(Some(<<65, 66>>), Some(40))])}

Inline == [folders |-> 0, names |-> 0, values |-> 0]

Header(main, additional, files, where) ==
    [encoded |-> None, properties |-> <<>>, additional |-> additional, main |-> Some(main),
     files |-> files, where |-> where]

Extra(position, count) ==
    [position |-> position, packs |-> Packs([k \in 1..count |-> 1]),
     folders |-> [k \in 1..count |-> Single(101, 1, 9, Members(<<1>>, <<9>>))]]

Wheres == {Inline, [Inline EXCEPT !.folders = 1], [Inline EXCEPT !.names = 2, !.values = 1],
           [folders |-> 2, names |-> 1, values |-> 0], [Inline EXCEPT !.values = 3]}

Headers ==
    UNION {{Header(m, None, f, Inline) : f \in FilesFor(MemberCount(m))} : m \in GoodMains}
    \cup {Header(m, None, None, Inline) : m \in BadMains}
    \cup UNION {{Header(m, Some(a), Some(Plain(MemberCount(m))), w) : w \in Wheres, a \in {Extra(6, 2), Extra(1, 2), Extra(6, 1)}}
                  : m \in {At0(<<3>>, <<Pair>>), At0(<<2, 2>>, <<Chained, Childless>>)}}
    \cup {[Header(At0(<<3>>, <<Pair>>), None, None, Inline) EXCEPT !.encoded = Some(m), !.main = None]
            : m \in {At0(<<3>>, <<One(101)>>), At0(<<9>>, <<One(101)>>)}}
    \cup {[Header(At0(<<3>>, <<Pair>>), None, Some(Plain(2)), Inline) EXCEPT
              !.properties = [k \in 1..n |-> [id |-> 30, data |-> <<1, 2>>]]] : n \in {1, 3}}

StreamsOf(h) == [n \in DOMAIN AdditionalFolders(h) |-> EncodeExternal(h, n)]

Write(h, v) ==
    [tokens |-> Encode(h, v), streams |-> StreamsOf(h), declared |-> Some([header |-> h, verbose |-> v])]

Written == {Write(h, v) : h \in Headers, v \in BOOLEAN}

\* Two folders with every kind of record, folders and names that are external,
\* and an encoded header: cut off anywhere, or one token replaced.
Bases ==
    {Write(Header(At0(<<2, 1, 2>>, <<Inheriting, Mixing>>), None,
                  Some(<<Directory(Named(1))>> \o Plain(3)), Inline), TRUE),
     Write(Header(At0(<<3>>, <<Pair>>), Some(Extra(6, 2)), Some(Plain(2)),
                  [folders |-> 2, names |-> 1, values |-> 0]), FALSE),
     Write([Header(At0(<<>>, <<>>), None, None, Inline) EXCEPT
               !.encoded = Some(At0(<<2, 2>>, <<Chained, Childless>>)), !.main = None], FALSE)}

Damaged ==
    {LET b == x[1]
     IN  [b EXCEPT !.declared = None,
                   !.tokens = IF x[3] = Eof THEN SubSeq(@, 1, x[2] - 1)
                              ELSE [k \in DOMAIN @ |-> IF k = x[2] THEN x[3] ELSE @[k]]]
       : x \in {x \in Bases \X (1..Limits.header) \X (Damage \cup {Eof}) : x[2] <= Len(x[1].tokens)}}

MCInputs == Written \cup Damaged
=============================================================================
