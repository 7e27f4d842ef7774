----------------------------- MODULE LzwWriter -----------------------------
(***************************************************************************)
(* The writer whose streams unix_compress.rs reads: compress(1), which is  *)
(* not part of un7z.  Texts are compressed with it to make inputs.         *)
(***************************************************************************)
EXTENDS UnixCompress

(***************************************************************************)
(* compress(1): the greedy LZW writer.  The group being filled is padded   *)
(* when the width changes and after CLEAR; clears are the emissions after  *)
(* which the writer starts over.                                           *)
(***************************************************************************)
BitOf(codes, width, k) ==
    IF k \div width >= Len(codes) THEN 0 ELSE (codes[k \div width + 1] \div 2^(k % width)) % 2

Packed(codes, width, count) ==
    [j \in 1..count |-> Sum([b \in 1..ByteBits |-> BitOf(codes, width, (j - 1) * ByteBits + b - 1) * 2^(b - 1)])]

Compress(text, bits, block, clears) ==
    LET first == IF block THEN FIRST_BLOCK_CODE ELSE FIRST_PLAIN_CODE
        Limit(w) == IF w = bits THEN 2^w ELSE 2^w - 1
        Flush(st, count) == [st EXCEPT !.bytes = @ \o Packed(st.group, st.width, count), !.group = <<>>]
        Padded(st) == IF st.group = <<>> THEN st ELSE Flush(st, st.width)
        Put(st, c) == LET put == [st EXCEPT !.group = Append(@, c)]
                      IN  IF Len(put.group) = ByteBits THEN Flush(put, put.width) ELSE put
        CodeFor(st, s) == IF Len(s) = 1 THEN s[1]
                          ELSE first - 1 + CHOOSE i \in DOMAIN st.table : st.table[i] = s
        Widened(st) == IF first + Len(st.table) > Limit(st.width) /\ st.width < bits
                       THEN [Padded(st) EXCEPT !.width = @ + 1] ELSE st
        Restart(st) == [Padded(Put(st, CLEAR_CODE)) EXCEPT !.width = INITIAL_CODE_BITS, !.table = <<>>]
        Emit(st) == [Widened(Put(st, CodeFor(st, st.ent))) EXCEPT !.emitted = @ + 1]
        Define(st, s) == IF first + Len(st.table) < 2^bits THEN [st EXCEPT !.table = Append(@, s)] ELSE st
        Take(st, ch) ==
            LET s == Append(st.ent, ch)
            IN  IF Len(s) = 1 \/ s \in Range(st.table) THEN [st EXCEPT !.ent = s]
                ELSE LET e == [Define(Emit(st), s) EXCEPT !.ent = <<ch>>]
                     IN  IF block /\ e.emitted \in clears THEN Restart(e) ELSE e
        last == LET st == FoldLeft(Take, [bytes |-> <<>>, group |-> <<>>, width |-> INITIAL_CODE_BITS,
                                          table |-> <<>>, ent |-> <<>>, emitted |-> 0], text)
                IN  IF text = <<>> THEN st ELSE Put(st, CodeFor(st, st.ent))
        rest == Len(last.group) * last.width
    IN  Flush(last, (rest + ByteBits - 1) \div ByteBits).bytes
=============================================================================
