------------------------------- MODULE MCWire -------------------------------
(* A small instance of Wire for TLC.                                       *)
EXTENDS Wire

At(y, mo, d, wd, h, mi, s) ==
    [year |-> y, month |-> mo, date |-> d, weekday |-> wd,
     hour |-> h, minute |-> mi, second |-> s]

\* Fields at their smallest and largest, and one where every split counts.
MCTimes == {At(2026, 8, 4, 1, 13, 34, 56), At(2127, 12, 31, 2, 23, 59, 59),
            At(2000, 1, 1, 5, 0, 0, 0)}

MCAddress  == <<0, 17, 34, 51, 68, 255>>
MCPassword == <<0, 7, 0, 9>>
MCGuesses  == {MCPassword, <<0, 0, 0, 0>>}

Lcds(functions, numbers, points, prefixes, flags) ==
    {d \in [function : functions, number : numbers, digits : {5, 6},
            point : points, prefix : prefixes, unit : {2}, flags : flags,
            twos : BOOLEAN] :
        d.twos => "negative" \in d.flags /\ d.number # 0}

MCFragile ==
    [function |-> <<3, 1>>, number |-> 12345, digits |-> 5, point |-> 3,
     prefix |-> -3, unit |-> 2, flags |-> {"negative", "auto_range"},
     twos |-> FALSE]

MCDisplays ==
    {MCFragile}
    \cup Lcds({<<3, 1>>}, {0, 65536, 8388607}, {0, 1, 3, 5}, {0, -9},
              {{}, {"negative"}, {"held", "max"}})
    \cup Lcds({<<13, 0>>}, {12345}, {3}, {6}, {{"overload"}})
    \cup Lcds({<<34, 0>>}, {10}, {0}, {0}, {{"ascii"}})

MCMilliseconds == {0, 999}

\* One bit, and the ends and the whole of the longest burst that a CRC of
\* sixteen bits is sure to catch.
MCBursts == {{0}, {0, 15}, 0 .. 15}
=============================================================================
