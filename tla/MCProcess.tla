----------------------------- MODULE MCProcess ------------------------------
EXTENDS Process

\* No size, only the flag, one and two sizes, the flag out of place, words
\* that are no size after sizes that are.
MCCommandLines ==
    {<<>>, <<"-r">>, <<"5">>, <<"-r", "4">>, <<"4", "5">>, <<"5", "5">>,
     <<"5", "-r">>, <<"x">>, <<"-1", "5">>, <<"-r", "5", "4">>}

\* The kinds of benchmarks in how they treat the data, and the creators.
MCPrograms == {"copied", "insitu", "original", "uncopied", "hash-object",
               "encoder", "creator"}
=============================================================================
