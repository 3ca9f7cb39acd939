------------------------------- MODULE MiniKv --------------------------------
(***************************************************************************)
(* john::mini_kv: the identifiers of chats and users, lists of keys with   *)
(* values.  The bot looks names up by comparing identifiers, the tables of *)
(* the database hold their text (serialize), and the relay reads the       *)
(* target of a mapping back from it (deserialize).                         *)
(*                                                                         *)
(* Keys and values are sequences of characters; their sizes fit in the     *)
(* sixteen bits they are stored with.                                      *)
(***************************************************************************)
EXTENDS Naturals, Sequences, SequencesExt

KeyEnd   == ":"
PairEnd  == ";"
EscapeMark == "\\"

\* A list of pairs of a key and a value.
NoPairs == <<>>

PushBack(kv, key, value) == Append(kv, <<key, value>>)

-----------------------------------------------------------------------------
\* Access by key, and comparison.

\* The pairs with a key: access takes the first.
Places(kv, key) == {n \in DOMAIN kv : kv[n][1] = key}

HasKey(kv, key) == Places(kv, key) # {}

Lookup(kv, key) == kv[Min(Places(kv, key))][2]

\* operator==, which asks nothing of the pairs that only the right side has.
Equal(lhs, rhs) ==
    \A n \in DOMAIN lhs :
        /\ HasKey(rhs, lhs[n][1])
        /\ Lookup(rhs, lhs[n][1]) = lhs[n][2]

-----------------------------------------------------------------------------
\* serialize

\* Characters are copied as they are.
PlainCopy(str) == str

EscapedCopy(str) ==
    FlattenSeq([n \in DOMAIN str |->
        IF str[n] \in {KeyEnd, PairEnd, EscapeMark} THEN <<EscapeMark, str[n]>> ELSE <<str[n]>>])

WrittenPair(pair) == EscapedCopy(pair[1]) \o <<KeyEnd>> \o EscapedCopy(pair[2])

\* Of an identifier with a pair; without one required_bytes wraps around.
Serialize(kv) ==
    FlattenSeq([n \in DOMAIN kv |->
        (IF n = 1 THEN <<>> ELSE <<PairEnd>>) \o WrittenPair(kv[n])])

-----------------------------------------------------------------------------
\* deserialize, which leaves the escapes in keys and values.

\* Where a pair starts: chunk_by cuts before a semicolon unless a backslash
\* stands before it, be it escaped itself or not.
ChunkStarts(str) ==
    {n \in DOMAIN str : n = 1 \/ (str[n] = PairEnd /\ str[n - 1] # EscapeMark)}

\* The part of str from first to where the next pair starts.
Chunk(str, first) ==
    LET later == {n \in ChunkStarts(str) : n > first}
    IN  SubSeq(str, first, IF later = {} THEN Len(str) ELSE Min(later) - 1)

\* The separator is left out in front of every pair but the first.
Chunks(str) ==
    FlattenSeq([n \in DOMAIN str |->
        IF n \notin ChunkStarts(str) THEN <<>>
        ELSE IF n = 1 THEN <<Chunk(str, n)>> ELSE <<Tail(Chunk(str, n))>>])

\* How many backslashes stand before the character at n.
EscapeCount(str, n) ==
    Cardinality({k \in 1..(n - 1) : \A j \in k..(n - 1) : str[j] = EscapeMark})

\* A key ends at the first colon that is not escaped; without one it is empty.
SplitPair(str) ==
    LET splits == {n \in DOMAIN str : str[n] = KeyEnd /\ EscapeCount(str, n) % 2 = 0}
    IN  IF splits = {} THEN <<<<>>, str>>
        ELSE <<SubSeq(str, 1, Min(splits) - 1), SubSeq(str, Min(splits) + 1, Len(str))>>

Deserialize(str) ==
    LET chunks == Chunks(str)
    IN  [n \in DOMAIN chunks |-> SplitPair(chunks[n])]

=============================================================================
