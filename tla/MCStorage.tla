----------------------------- MODULE MCStorage -----------------------------
(* Tables of two columns and, Ten being 3, of "ten".                        *)
EXTENDS Storage

MCWords == {"SP", "TAB", "NL", "7", "w", "x", "FLOAT"}

MCSchemas == {<<"INT", "VARCHAR">>, <<"VARCHAR", "VARCHAR", "INT">>, <<"FLOAT", "DATE">>}

MCRows == {<<<<"7">>, <<"w">>>>,                    \* fits the narrow table only
           <<<<"w", "SP", "w">>, <<"w">>, <<"7">>>>,    \* a first value of two words
           <<<<"7">>, <<"w">>, <<"7">>>>,       \* a value too many for the narrow table
           <<<<"7">>, <<"w", "NL", "w">>>>,         \* a value of two lines
           <<<<"7">>>>}                             \* values missing

MCNewValues == {<<"x">>, <<"x", "TAB">>}

MCGarbage == {"w", "NL"}

\* Header and rows with and without a last TAB; a value too many.
MCShipped ==
    {<<"name", "NL", "2", "NL", "INT", ".", "TAB", "VARCHAR", ".", "NL",
       "7", "SP", "TAB", "w", "SP", "TAB", "x", "TAB", "NL">>,
     <<"name", "NL", "2", "NL", "INT", ".", "TAB", "VARCHAR", ".", "TAB", "NL",
       "7", "SP", "TAB", "w", "TAB", "NL",
       "7", "SP", "TAB", "w", "NL">>}
=============================================================================
